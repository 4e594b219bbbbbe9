SPECIFICATION Spec
CONSTANTS
  FrameBuffLen = 3
  MaxFrames = 6
  MaxFailures = 1
INVARIANTS
  NeverStoresFreshSlot
  StoresInTurn
  TornByOne
  GrabsNoOlderFrame
  RingInv
PROPERTIES
  QueueSpec
CHECK_DEADLOCK FALSE
