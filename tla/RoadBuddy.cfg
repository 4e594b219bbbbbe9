SPECIFICATION Spec
CONSTANTS
  FrameBuffLen = 2
  MaxFrames = 3
  MaxFailures = 1
  MaxPresses = 1
  SpuriousWakeups = {"warn"}
  Dangers = {TRUE, FALSE}
INVARIANTS
  TypeOK
  FrameBeforeProcessing
  
PROPERTIES
  RingSpec
  ProcessesForward
  OnlyIndexAfterUnmount
CHECK_DEADLOCK FALSE
