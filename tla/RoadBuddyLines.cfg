SPECIFICATION FairSpec
CONSTANTS
  FrameBuffLen = 2
  MaxFrames = 3
  MaxFailures = 0
  MaxPresses = 2
  SpuriousWakeups = {}
  Dangers = {TRUE, FALSE}
PROPERTIES
  LinesReachFrame
CHECK_DEADLOCK FALSE
