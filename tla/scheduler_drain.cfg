\* Two jobs and their four workers, as the daemon runs them.
SPECIFICATION FairSpec
CONSTANTS
  Jobs = {j1, j2}
  Workers = {w1, w2, w3, w4}
  Direct = {}
  None = None
INVARIANTS
  ActiveIsRegistered
  WorkerForEverySubmission
  ZeroMeansIdle
PROPERTIES
  ShutdownCompletes
CHECK_DEADLOCK FALSE
