\* One job and its workers, as the daemon runs them, and backups that may hang.
SPECIFICATION HangingSpec
CONSTANTS
  Jobs = {j1}
  Workers = {w1, w2, w3}
  Direct = {}
  None = None
PROPERTY
  GraceBoundsShutdown
CHECK_DEADLOCK FALSE
