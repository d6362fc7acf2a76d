CONSTANTS
  Configs <- Files
  Requests = {r1}
SPECIFICATION Spec
CHECK_DEADLOCK FALSE
INVARIANT GraceOfTheBoot
