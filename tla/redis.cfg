SPECIFICATION Spec
CONSTANTS
  Requests = {r1, r2, r3}
  Algorithms = {"sliding_window", "leaky_bucket"}
  Limit = 2
  Window = 5
  MaxLag = 1
  MaxLead = 1
  MaxRetries = 1
  Second = 2
  MaxTime = 6
SYMMETRY Symmetry
CHECK_DEADLOCK FALSE
INVARIANTS TypeOK SlidingBound LeakRateInOrder
PROPERTIES RefusedJustly ResetAdmits RetryAfterClose
