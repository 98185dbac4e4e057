\* One job with its three workers, and two threads that call its runner
\* beside the pool.
SPECIFICATION FairSpec
CONSTANTS
  Jobs = {j1}
  Workers = {w1, w2, w3}
  Direct = {d1, d2}
  None = None
INVARIANTS
  TypeOK
  NoOverlap
PROPERTIES
  GuardReopens
  SkipsHaveARun
CHECK_DEADLOCK FALSE
