CONSTANTS
  Requests = {r1, r2}
  Buckets = {b1, b2}
  Nil = Nil
  Limits = {1, 2}
  Window = 2
  EvictionTTL = 2
  MaxDelay = 1
  MaxTime = 3
SPECIFICATION WSpec
SYMMETRY Symmetry
CHECK_DEADLOCK FALSE
INVARIANTS TypeOK BucketConserves RateBound
PROPERTIES StaleIsFull
