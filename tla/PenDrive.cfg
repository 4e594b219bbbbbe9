SPECIFICATION FairSpec
CONSTANTS
  MaxPlugs = 2
  MaxDaemonRuns = 2
  MaxMainRuns = 2
INVARIANTS TypeOK PidHandedOver ClosesOpenDir StaleDirOnlyIf VideoStaysMounted
PROPERTIES MountServed UnmountServed
CHECK_DEADLOCK FALSE
