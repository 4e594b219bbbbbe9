SPECIFICATION FairSpec
CONSTANTS
  main = main
  worker = worker
  Main = main
  Thread <- MCThread
  Sent <- MCSent
PROPERTIES
  EngOffSetsEnd
CHECK_DEADLOCK FALSE
