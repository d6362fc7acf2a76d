CONSTANTS
  Callers = {c1, c2, c3}
  FailureThreshold = 2
  SuccessThreshold = 2
  Timeout = 2
  CallTimeout = 1
  FnPanics = TRUE
SPECIFICATION Spec
INVARIANTS ProbeSlotBacked
