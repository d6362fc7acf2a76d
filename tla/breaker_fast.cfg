CONSTANTS
  Callers = {c1, c2, c3}
  FailureThreshold = 2
  SuccessThreshold = 2
  Timeout = 3
  CallTimeout = 2
  FnPanics = TRUE
SPECIFICATION Spec
SYMMETRY CallerSymmetry
INVARIANTS TypeOK SingleProbe
PROPERTIES ProbeDecidesRecovery ContractSpec
