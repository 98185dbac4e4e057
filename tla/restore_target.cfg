\* A psql, with what README's example says of the database.
SPECIFICATION Spec
CONSTANTS
  Kinds <- Psql
  Lenient <- Psql
  Options = {"host", "target"}
  Size = 1
  Noise = 0
  InCap = 1
  OutCap = 1
INVARIANT
  RestoresWhereAsked
CHECK_DEADLOCK FALSE
