CONSTANTS
  Callers = {c1, c2, c3}
  FailureThreshold = 2
  SuccessThreshold = 2
  Timeout = 1
  CallTimeout = 2
  FnPanics = FALSE
SPECIFICATION RSpec
INVARIANTS ProbeSlotBacked
PROPERTIES LegalTransitions Recovers
