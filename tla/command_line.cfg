\* Every pair of TOML files with every environment; every combination of flags;
\* a daemon with up to three job tables.
SPECIFICATION Spec
CONSTANTS
  Invocations <- AllInvocations
  None = None
INVARIANTS
  TypeOK
  LayersRespected
  MissingBinaryToldApart
  JobsRunTheirTable
  DaemonIsAsModelled
\* The command has ended.
CHECK_DEADLOCK FALSE
