CONSTANTS
  Callers = {c1, c2, c3}
  FailureThreshold = 2
  SuccessThreshold = 2
  Timeout = 1
  CallTimeout = 3
  FnPanics = FALSE
SPECIFICATION Spec
INVARIANTS SingleProbe
