\* Two uploads of up to three pieces, to one key or to two, with four attempts each,
\* and a download beside them.
SPECIFICATION Spec
SYMMETRY Symmetry
CONSTANTS
  Uploaders = {u1, u2}
  Readers = {r1}
  Keys = {k1, k2}
  MaxAttempts = 4
  Parts = 3
  None = None
INVARIANTS
  TypeOK
  AcknowledgedIsStored
PROPERTIES
  RivalsUntouched
  WholeUnlessReplaced
\* Every call may have returned.
CHECK_DEADLOCK FALSE
