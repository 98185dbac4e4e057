\* One job and its workers, as the daemon runs them.
SPECIFICATION Spec
CONSTANTS
  Jobs = {j1}
  Workers = {w1, w2, w3}
  Direct = {}
  None = None
INVARIANT
  ExpiryAbortsRuns
CHECK_DEADLOCK FALSE
