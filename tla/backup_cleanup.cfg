\* Every kind of adapter; any step may fail, and Ctrl-C may come at any time.
SPECIFICATION Spec
CONSTANTS
  Kinds <- AllKinds
  Size = 3
  Noise = 0
  OutCap = 1
  ErrCap = 1
  None = None
INVARIANT
  TempFilesRemoved
CHECK_DEADLOCK FALSE
