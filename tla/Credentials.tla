----------------------------- MODULE Credentials -----------------------------
(***************************************************************************)
(* The authentication providers.  Everything here is a pure function.      *)
(*                                                                         *)
(* A token is what its signature and claims say: the algorithm and the key *)
(* it is signed with, when it expires, issuer, audiences and claims, and   *)
(* whether the introspection endpoint calls it active.  A public key and   *)
(* its private key are one key.  Remote endpoints may be out of reach.     *)
(***************************************************************************)
EXTENDS Routing

CONSTANT Providers   \* auth_providers: name -> type and settings; "" is unset

HMAC == {"HS256", "HS384", "HS512"}
RSA == {"RS256", "RS384", "RS512"}
ECDSA == {"ES256", "ES384", "ES512"}

\* keyFunc: the family of methods the parsed key is for.
KeyFamily(algorithm) ==
  CASE algorithm \in HMAC -> HMAC [] algorithm \in RSA -> RSA [] algorithm \in ECDSA -> ECDSA

\* An algorithm that is known, and a key for it.
NewJWTAuthenticator(p) == p.algorithm \in HMAC \cup RSA \cup ECDSA /\ p.key # ""

\* Some way to check a token: discovery, a key set or introspection.
NewOIDCAuthenticator(p) == {p.introspection_url, p.issuer_url, p.jwks_url} # {""}

\* What go-oidc is told to look at, "" for nothing.
buildOIDCConfig(p) ==
  [issuer |-> IF p.skip_issuer_check THEN "" ELSE p.issuer_url,
   audience |-> p.audience,
   algorithms |-> p.algorithms]

\* An authenticator can be made.
NewAuthenticator(p) ==
  \/ p.type = "jwt" /\ NewJWTAuthenticator(p)
  \/ p.type = "apikey"
  \/ p.type = "oidc" /\ NewOIDCAuthenticator(p)

ASSUME ProvidersAssumption ==
  \A name \in DOMAIN Providers : /\ NewAuthenticator(Providers[name])
                                 /\ Providers[name].type = "apikey" => IsList(Providers[name].keys)

Remote == {name \in DOMAIN Providers : Providers[name].type = "oidc"}

Refused == [ok |-> FALSE, claims |-> <<>>]
Accepted(claims) == [ok |-> TRUE, claims |-> claims]

Text(s) == [type |-> "string", text |-> s]

\* "Authorization: Bearer <token>".
HasBearer(req) ==
  /\ "Authorization" \in DOMAIN req.headers
  /\ Head(req.headers["Authorization"]).scheme = "bearer"
Bearer(req) == Head(req.headers["Authorization"]).token

\* Fault: the algorithm is the token's own choice.
jwtParse_AnyAlg(p, token) ==
  /\ token.key = p.key
  /\ token.exp # "past"
  /\ p.issuer # "" => token.iss = p.issuer
  /\ p.audience # "" => p.audience \in token.aud

\* jwt.Parse with the configured algorithm as the only valid one, keyFunc, and
\* the issuer and the audience where they are set.  A token without exp does not
\* expire.
jwtParse(p, token) ==
  /\ token.alg = p.algorithm
  /\ token.alg \in KeyFamily(p.algorithm)
  /\ token.key = p.key
  /\ token.exp # "past"
  /\ p.issuer # "" => token.iss = p.issuer
  /\ p.audience # "" => p.audience \in token.aud

\* go-oidc's Verify: the key set is fetched, and an expiry is asked for.
verifyToken(p, token, reachable) ==
  LET checks == buildOIDCConfig(p)
  IN  /\ reachable
      /\ token.alg \in checks.algorithms /\ token.key \in p.keys
      /\ token.exp = "future"
      /\ checks.issuer # "" => token.iss = checks.issuer
      /\ checks.audience # "" => checks.audience \in token.aud

\* The claims the gateway takes from an introspection: the endpoint's, not the
\* token's own.
Introspected(token) ==
  [sub |-> Text(token.sub), client_id |-> Text(token.client_id),
   active |-> [type |-> "bool", text |-> "true"]]

\* The endpoint's word is all that counts: the audience is not looked at.
introspect(token, reachable) ==
  IF reachable /\ token.active THEN Accepted(Introspected(token)) ELSE Refused

apikeyAuthenticate(p, req) ==
  LET key == Get(req.headers, p.header)
      i == SelectInSeq(p.keys, LAMBDA entry : entry.key = key)
  IN  IF key # "" /\ i # 0 THEN Accepted([key_name |-> Text(p.keys[i].name)]) ELSE Refused

bearerAuthenticate(p, token, reachable) ==
  LET judged(ok) == IF ok THEN Accepted(token.claims) ELSE Refused
  IN  CASE p.type = "jwt" -> judged(jwtParse(p, token))
        [] p.type = "oidc" -> IF p.introspection_url # "" THEN introspect(token, reachable)
                              ELSE judged(verifyToken(p, token, reachable))

Authenticate(name, req, reachable) ==
  LET p == Providers[name]
  IN  CASE p.type = "apikey" -> apikeyAuthenticate(p, req)
        [] p.type # "apikey" /\ HasBearer(req) -> bearerAuthenticate(p, Bearer(req), reachable)
        [] OTHER -> Refused

-----------------------------------------------------------------------------
\* The key is the provider's, under an algorithm it allows.
OwnKey(p, token) ==
  CASE p.type = "jwt" -> token.key = p.key /\ token.alg = p.algorithm
    [] p.type = "oidc" -> token.key \in p.keys /\ token.alg \in p.algorithms

Issuer(p) == CASE p.type = "jwt" -> p.issuer
               [] p.type = "oidc" -> IF p.skip_issuer_check THEN "" ELSE p.issuer_url

\* What a provider vouches for: a key of its list, a token its endpoint calls
\* active, or a token of its own key that has not expired and is for the issuer
\* and the audience the provider is set to.  The claims that go with it; the
\* empty set when the provider does not vouch for the request.
VouchedClaims(name, req) ==
  LET p == Providers[name]
      Values(header) == IF header \in DOMAIN req.headers THEN {Head(req.headers[header])} ELSE {}
      bearers == {h.token : h \in {v \in Values("Authorization") : v.scheme = "bearer"}}
      good == {t \in bearers : /\ OwnKey(p, t)
                               /\ t.exp # "past" /\ (t.exp = "none" => p.type = "jwt")
                               /\ Issuer(p) \in {"", t.iss}
                               /\ p.audience \in {""} \cup t.aud}
  IN  CASE p.type = "apikey" ->
             {[key_name |-> Text(e.name)] : e \in {k \in ToSet(p.keys) : k.key \in Values(p.header) \ {""}}}
        [] p.type = "oidc" /\ p.introspection_url # "" ->
             {Introspected(t) : t \in {b \in bearers : b.active}}
        [] OTHER -> {t.claims : t \in good}

=============================================================================
