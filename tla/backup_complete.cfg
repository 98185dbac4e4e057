\* A dump process that may fail at any point.
SPECIFICATION Spec
CONSTANTS
  Kinds <- Processes
  Size = 3
  Noise = 0
  OutCap = 1
  ErrCap = 1
  None = None
INVARIANT
  SuccessIsComplete
CHECK_DEADLOCK FALSE
