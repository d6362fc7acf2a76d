------------------------------- MODULE Config -------------------------------
(***************************************************************************)
(* From a configuration file to resolved middlewares, and which files      *)
(* validation lets through.  Everything here is a pure function.           *)
(*                                                                         *)
(* A middleware's configuration is a function from its keys to values, of  *)
(* which a definition has some and a ref may override some.  A resolved    *)
(* middleware has a value for every key of its type.                       *)
(***************************************************************************)
EXTENDS Credentials

CONSTANT Definitions   \* middleware_definitions: name -> [type, config]

\* The providers a configuration names are a list.
ProvidersListed(config) == "providers" \in DOMAIN config => IsList(config.providers)

ASSUME DefinitionsAssumption == \A name \in DOMAIN Definitions : ProvidersListed(Definitions[name].config)

\* The zero values of the typed configurations.
Zero ==
  [cors |-> [allowed_origins |-> {}, allow_credentials |-> FALSE, exposed_headers |-> {}],
   rate_limit |-> [requests |-> 0, window |-> 0, algorithm |-> "",
                   key_source |-> [kind |-> "", name |-> ""]],
   auth |-> [providers |-> <<>>],
   transform |-> [request |-> <<>>, response |-> <<>>]]

\* A shallow merge: a key of the override replaces the whole value.
mergeYAMLNodes(base, override) ==
  [key \in DOMAIN base \cup DOMAIN override |-> IF key \in DOMAIN override THEN override[key] ELSE base[key]]

\* Keys that are not given are zero; no algorithm is the sliding window.
decodeTypedConfig(type, node) ==
  LET decoded == mergeYAMLNodes(Zero[type], node)
  IN  IF type = "rate_limit" /\ decoded.algorithm = ""
      THEN [decoded EXCEPT !.algorithm = "sliding_window"] ELSE decoded

Resolvable(refs) ==
  \A i \in DOMAIN refs : /\ refs[i].ref \in DOMAIN Definitions
                         /\ Definitions[refs[i].ref].type \in DOMAIN Zero

ResolveMiddlewares(refs) ==
  [i \in DOMAIN refs |->
     LET def == Definitions[refs[i].ref]
     IN  [name |-> refs[i].ref, type |-> def.type,
          config |-> decodeTypedConfig(def.type, mergeYAMLNodes(def.config, refs[i].config))]]

\* Fault: skip_middlewares also removes what the route lists itself.
filterSkipped_Route(globals, route) ==
  SelectSeq(ResolveMiddlewares(globals \o route.middlewares), LAMBDA mw : mw.name \notin route.skip)

\* The effective chain: globals less skipped ones, then the route's own.
filterSkipped(globals, route) ==
  Sieve(ResolveMiddlewares(globals), {i \in DOMAIN globals : globals[i].ref \notin route.skip})
  \o ResolveMiddlewares(route.middlewares)

Effective(cfg, route) == filterSkipped(cfg.middlewares, route)

-----------------------------------------------------------------------------
(* Validation.                                                             *)

\* "ip" or nothing, or a header or a claim with a name.
ValidKeySource(source) ==
  source.kind \in {"", "ip"} \/ (source.kind \in {"header", "claim"} /\ source.name # "")

ValidRateLimit(c, backend) ==
  /\ c.requests > 0 /\ c.window > 0
  /\ c.algorithm \in {"sliding_window", "leaky_bucket"}
  /\ c.algorithm = "leaky_bucket" => backend = "redis"
  /\ ValidKeySource(c.key_source)

\* "none" stands alone.
ValidAuth(c) ==
  /\ c.providers # <<>>
  /\ IsInjective(c.providers)
  /\ ToSet(c.providers) \subseteq DOMAIN Providers \cup {"none"}
  /\ Contains(c.providers, "none") => Len(c.providers) = 1

validateResolvedMiddlewares(chain, cfg) ==
  \A i \in DOMAIN chain :
    CASE chain[i].type = "rate_limit" -> ValidRateLimit(chain[i].config, cfg.backend)
      [] chain[i].type = "auth" -> ValidAuth(chain[i].config)
      [] chain[i].type = "cors" -> chain[i].config.allowed_origins # {}
      [] OTHER -> TRUE

\* Fault: the position of a CORS middleware is not looked at.
CorsFirst_Anywhere(chain) == TRUE

\* At most one CORS middleware, and in the first place.
CorsFirst(chain) == \A i \in DOMAIN chain : chain[i].type = "cors" => i = 1

ClaimAfterAuth(chain) ==
  \A i \in DOMAIN chain :
    chain[i].type = "rate_limit" /\ chain[i].config.key_source.kind = "claim" =>
      \E j \in 1..i - 1 : chain[j].type = "auth"

\* semanticErrors finds nothing.  Regular expressions are sets here and compile.
Valid(cfg) ==
  /\ \A i, j \in DOMAIN cfg.routes : cfg.routes[i].name = cfg.routes[j].name => i = j
  /\ Resolvable(cfg.middlewares)
  /\ validateResolvedMiddlewares(ResolveMiddlewares(cfg.middlewares), cfg)
  /\ \A i \in DOMAIN cfg.routes :
       LET route == cfg.routes[i]
       IN  /\ route.host = <<>> \/ validateHostPattern(route.host)
           /\ route.skip \subseteq {cfg.middlewares[j].ref : j \in DOMAIN cfg.middlewares}
           /\ Resolvable(route.middlewares)
           /\ validateResolvedMiddlewares(ResolveMiddlewares(route.middlewares), cfg)
           /\ CorsFirst(Effective(cfg, route))
           /\ ClaimAfterAuth(Effective(cfg, route))

=============================================================================
