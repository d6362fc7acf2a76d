CONSTANTS
  Lower <- LowerCase
  Address <- Addresses
  Digest <- Digests
  Providers <- AuthProviders
  Definitions <- Defs
  Families <- All
SPECIFICATION Spec
CHECK_DEADLOCK FALSE
INVARIANTS RoutedAsDeclared GuardsBeforeUpstream PreflightFree AuthSound ClientCharged CorsReadable RewrittenAsConfigured CountedAsAnswered Answered
