SPECIFICATION Spec
CONSTANTS
  MaxSamples = 2
  MaxDaemonRuns = 1
  MaxMainRuns = 2
INVARIANTS StatusAvailable
CHECK_DEADLOCK FALSE
