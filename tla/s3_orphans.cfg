\* One upload in two parts, and nothing beside it.
SPECIFICATION Spec
CONSTANTS
  Uploaders = {u1}
  Readers = {}
  Keys = {k1}
  MaxAttempts = 4
  Parts = 2
  None = None
INVARIANT
  FailedLeavesNoParts
CHECK_DEADLOCK FALSE
