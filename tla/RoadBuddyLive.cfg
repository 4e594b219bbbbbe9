SPECIFICATION FairSpec
CONSTANTS
  FrameBuffLen = 2
  MaxFrames = 3
  MaxFailures = 0
  MaxPresses = 1
  SpuriousWakeups = {"proc"}
  Dangers = {FALSE}
PROPERTIES
  EveryFrameStored
  StoreReleasesProc
  EndsOrMissesEnd
CHECK_DEADLOCK FALSE
