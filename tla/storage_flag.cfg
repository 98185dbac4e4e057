\* --storage local, and a path in the TOML file only.
SPECIFICATION Spec
CONSTANTS
  Invocations <- AllInvocations
  None = None
INVARIANT
  TomlPathSuffices
CHECK_DEADLOCK FALSE
