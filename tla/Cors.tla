-------------------------------- MODULE Cors --------------------------------
(***************************************************************************)
(* The headers of CORSMiddleware.  Everything here is a pure function.     *)
(***************************************************************************)
EXTENDS Routing

isOriginAllowed(origin, allowed) == allowed \cap {"*", origin} # {}

\* The origin is echoed where credentials are allowed, "*" or not.
resolveAllowOrigin(origin, c) ==
  CASE ~isOriginAllowed(origin, c.allowed_origins) -> ""
    [] "*" \in c.allowed_origins /\ ~c.allow_credentials -> "*"
    [] OTHER -> origin

isPreflight(req) ==
  /\ req.method = "OPTIONS"
  /\ Get(req.headers, "Origin") # "" /\ Get(req.headers, "Access-Control-Request-Method") # ""

\* The headers that say yes; a preflight and an answer differ in the rest.
AllowOrigin(headers, allow, c) ==
  LET allowed == Set(headers, "Access-Control-Allow-Origin", allow)
  IN  IF c.allow_credentials THEN Set(allowed, "Access-Control-Allow-Credentials", "true") ELSE allowed

\* Also lists methods, headers and an age, from the configuration alone.
handlePreflight(headers, origin, c) ==
  LET allow == resolveAllowOrigin(origin, c)
      vary == Set(headers, "Vary", "Origin")
  IN  IF allow = "" THEN vary
      ELSE Set(AllowOrigin(vary, allow, c), "Access-Control-Allow-Methods", "configured")

\* Fault: the header is added to the one the upstream has set.
injectCORSHeaders_Adds(headers, origin, c) ==
  LET allow == resolveAllowOrigin(origin, c)
  IN  IF allow = "" THEN headers ELSE Add(headers, "Access-Control-Allow-Origin", <<allow>>)

\* Replaces what the upstream has set; an origin that is not allowed leaves it.
injectCORSHeaders(headers, origin, c) ==
  LET allow == resolveAllowOrigin(origin, c)
      vary == Set(headers, "Vary", "Origin")
      exposed == IF c.exposed_headers = {} THEN vary
                 ELSE Set(vary, "Access-Control-Expose-Headers", c.exposed_headers)
  IN  IF allow = "" THEN vary ELSE AllowOrigin(exposed, allow, c)

=============================================================================
