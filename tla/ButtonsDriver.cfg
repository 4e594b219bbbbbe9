SPECIFICATION Spec
CONSTANTS
  Process = {main, test}
  Early = {main}
  Debounce = 3
  JiffiesMod = 8
  NoTask = NoTask
INVARIANTS DebouncesExactly SignalsWhoExpectsThem OopsOnlyByClose
CHECK_DEADLOCK FALSE
