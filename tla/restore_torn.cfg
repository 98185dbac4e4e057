\* A sqlite restore that may fail or be cut off anywhere.
SPECIFICATION Spec
CONSTANTS
  Kinds <- Sqlite
  Lenient = {}
  Options = {}
  Size = 1
  Noise = 0
  InCap = 1
  OutCap = 1
INVARIANT
  ReplacementIsAtomic
CHECK_DEADLOCK FALSE
