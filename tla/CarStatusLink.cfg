SPECIFICATION FairSpec
CONSTANTS
  MaxSamples = 3
  MaxDaemonRuns = 2
  MaxMainRuns = 2
INVARIANTS TypeOK OneTurn NoTornStatus
PROPERTIES TurnLostOnlyByDeath Delivered
CHECK_DEADLOCK FALSE
