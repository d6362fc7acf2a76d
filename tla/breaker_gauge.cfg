CONSTANTS
  Callers = {c1, c2}
  FailureThreshold = 2
  SuccessThreshold = 2
  Timeout = 2
  CallTimeout = 1
  FnPanics = FALSE
SPECIFICATION Spec
INVARIANTS GaugeFaithful
