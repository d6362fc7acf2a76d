CONSTANTS
  Configs <- Files
  Requests = {r1}
SPECIFICATION Spec
CHECK_DEADLOCK FALSE
INVARIANTS TypeOK LiveConfigSound NoUseAfterClose AuthResolves ReloadReported HealthHonest
PROPERTIES ReloadNotLost TermHonoured ShutdownEnds
