SPECIFICATION Spec
CONSTANTS
  Requests = {r1, r2, r3, r4, r5}
  Algorithms = {"leaky_bucket"}
  Limit = 2
  Window = 2
  MaxLag = 1
  MaxLead = 0
  MaxRetries = 0
  Second = 2
  MaxTime = 4
SYMMETRY Symmetry
CHECK_DEADLOCK FALSE
INVARIANT LeakRate
