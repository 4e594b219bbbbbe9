SPECIFICATION FairSpec
CONSTANTS
  main = main
  worker = worker
  Main = main
  Thread <- MCThread
  Sent <- MCSent
INVARIANTS
  NoLostUpdate
  MutexInv
PROPERTIES
  HandlesAtomically
  DeadlockIsForEver
  HandledOrSelfDeadlocked
CHECK_DEADLOCK FALSE
