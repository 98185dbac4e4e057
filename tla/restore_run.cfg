\* Every kind of adapter; a dump of three chunks through a pipe that holds
\* two, and one message more than the pipe nobody reads holds.
SPECIFICATION FairSpec
CONSTANTS
  Kinds <- AllKinds
  Lenient <- GoOn
  Options = {}
  Size = 3
  Noise = 2
  InCap = 2
  OutCap = 1
INVARIANTS
  TypeOK
  SuccessIsApplied
  ConfigOutlivesClient
  NothingLeftBehind
PROPERTIES
  ImplementsContract
  StallsOnlyOnOutput
\* The restore has returned and its client has ended.
CHECK_DEADLOCK FALSE
