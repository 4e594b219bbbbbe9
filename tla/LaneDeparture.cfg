SPECIFICATION FairSpec
CONSTANTS
  FrameWidth = 36
  FrameHeight = 6
  WindowWidth = 12
  WindowHeight = 2
  LeftX = 0
  RightX = 24
  StartY = 4
INVARIANTS
  DepartureDetected
CHECK_DEADLOCK FALSE
