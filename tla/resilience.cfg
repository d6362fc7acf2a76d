CONSTANTS
  Callers = {r1, r2}
  FailureThreshold = 2
  SuccessThreshold = 1
  Timeout = 2
  CallTimeout = 1
  FnPanics = TRUE
  MaxRetries = 1
  Statuses = {200, 429, 500}
  RetryableStatusCodes = {429, 503}
SPECIFICATION RSpec
CHECK_DEADLOCK FALSE
INVARIANTS ResilienceTypeOK AnswerMatchesAttempts OneAttemptForTheGone OnlyListedCodesRetried
PROPERTIES EveryRequestAnswered
