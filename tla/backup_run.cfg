\* Every kind of adapter; a dump of three chunks through a pipe that holds
\* one, and one message more than the stderr pipe holds.
SPECIFICATION FairSpec
CONSTANTS
  Kinds <- AllKinds
  Size = 3
  Noise = 2
  OutCap = 1
  ErrCap = 1
  None = None
INVARIANTS
  TypeOK
  NothingLost
  ConfigStaysForProcess
PROPERTIES
  LeftoversAreKnown
  StallsOnlyOnStderr
\* The backup has returned and the dump process has ended.
CHECK_DEADLOCK FALSE
