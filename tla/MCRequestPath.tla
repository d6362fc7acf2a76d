---------------------------- MODULE MCRequestPath ----------------------------
(* RequestPath for TLC: families of scenarios, one for each thing a          *)
(* configuration can get wrong.  A family varies what it is about and keeps  *)
(* the rest as simple as it can be.                                          *)
EXTENDS RequestPath

LowerCase == [API |-> "api"]
Addresses == [n \in {"c", "d", "p", "q"} |-> n] @@ [C |-> "c"]
Digests == [long |-> "digest"]

OIDC == [type |-> "oidc", issuer_url |-> "", jwks_url |-> "", introspection_url |-> "",
         audience |-> "", algorithms |-> {"RS256"}, keys |-> {"k1", "k2"}, skip_issuer_check |-> FALSE]

AuthProviders ==
  [jwt |-> [type |-> "jwt", algorithm |-> "RS256", key |-> "k1", issuer |-> "iss", audience |-> "aud"],
   plain |-> [type |-> "jwt", algorithm |-> "HS256", key |-> "k1", issuer |-> "", audience |-> ""],
   key |-> [type |-> "apikey", header |-> "X-API-Key",
            keys |-> <<[key |-> "s1", name |-> "n1"], [key |-> "s2", name |-> "n2"]>>],
   idp |-> [OIDC EXCEPT !.issuer_url = "iss", !.audience = "aud"],
   jwks |-> [OIDC EXCEPT !.jwks_url = "url"],
   ask |-> [OIDC EXCEPT !.introspection_url = "url", !.audience = "aud"]]

AuthLists == {<<"jwt">>, <<"plain">>, <<"key">>, <<"idp">>, <<"jwks">>, <<"ask">>,
              <<"jwt", "key">>, <<"ask", "jwt">>, <<"key", "key">>, <<"key", "none">>}

Limit(kind, name) == [requests |-> 1, window |-> 1, key_source |-> [kind |-> kind, name |-> name]]

None == [remove |-> {}, rename |-> <<>>, add |-> <<>>]
Fields == [strip |-> {}, rename |-> <<>>, inject |-> <<>>]
Way(h, b) == [headers |-> h, body |-> b]

Defs ==
  [cors |-> [type |-> "cors", config |-> [allowed_origins |-> {"o1"}, exposed_headers |-> {"X-A"}]],
   any |-> [type |-> "cors", config |-> [allowed_origins |-> {"*"}]],
   echo |-> [type |-> "cors", config |-> [allowed_origins |-> {"*"}, allow_credentials |-> TRUE]],
   jwt |-> [type |-> "auth", config |-> [providers |-> <<"jwt">>]],
   none |-> [type |-> "auth", config |-> [providers |-> <<"none">>]],
   per_ip |-> [type |-> "rate_limit", config |-> Limit("ip", "")],
   per_header |-> [type |-> "rate_limit", config |-> Limit("header", "X-A")],
   per_user |-> [type |-> "rate_limit", config |-> Limit("claim", "sub")],
   leaky |-> [type |-> "rate_limit", config |-> [algorithm |-> "leaky_bucket"] @@ Limit("", "")],
   rewrite |-> [type |-> "transform",
                config |-> [request |-> Way([None EXCEPT !.add = [X |-> "1"]], <<>>),
                            response |-> Way([None EXCEPT !.remove = {"X-A"}], <<>>)]]]

-----------------------------------------------------------------------------
Refs(names) == [i \in DOMAIN names |-> [ref |-> names[i], config |-> <<>>]]

Route1 ==
  [name |-> "first", regex |-> [a |-> <<>>], host |-> <<>>, methods |-> {"GET"}, headers |-> <<>>,
   path_rewrite |-> <<>>, middlewares |-> <<>>, skip |-> {},
   upstream |-> <<"up">>, retry |-> <<>>, breaker |-> FALSE]
Route2 == [Route1 EXCEPT !.name = "second", !.methods = {}]

File == [backend |-> "memory", trusted |-> {}, middlewares |-> <<>>, routes |-> <<Route1, Route2>>]

Empty == [kind |-> "empty", fields |-> <<>>]
Object == [kind |-> "object", fields |-> [f |-> "1", g |-> "2"]]

Ask == [method |-> "GET", host |-> <<"api">>, path |-> "a", remote |-> "c", headers |-> <<>>, body |-> Empty]

Scenario(c, r) ==
  [cfg |-> c, req |-> r,
   reply |-> [status |-> 200, body |-> Object,
              headers |-> ("Content-Type" :> <<"application/json">>) @@ ("Content-Length" :> <<Object>>)
                          @@ ("X-A" :> <<"u1", "u2">>) @@ ("Access-Control-Allow-Origin" :> <<"u">>)]]

With(r, name, value) == [r EXCEPT !.headers = Set(@, name, value)]
WithToken(r, token) == With(r, "Authorization", [scheme |-> "bearer", token |-> token])

-----------------------------------------------------------------------------
(* Chains: up to two global and up to two route middlewares, globals skipped. *)

MaxListed == 2
Listed == {"cors", "jwt", "none", "per_ip", "per_user", "rewrite"}
Lists == UNION {[1..k -> Listed] : k \in 0..MaxListed}

Token == [alg |-> "RS256", key |-> "k1", exp |-> "future", iss |-> "iss", aud |-> {"aud"},
          active |-> TRUE, sub |-> "alice", client_id |-> "",
          claims |-> [sub |-> Text("alice")]]

Visit == With(WithToken(Ask, Token), "Origin", "o1")
Preflight == With([With(Ask, "Origin", "o1") EXCEPT !.method = "OPTIONS"],
                  "Access-Control-Request-Method", "GET")

Chained(g) ==
  {Scenario([File EXCEPT !.middlewares = Refs(g),
                         !.routes[1].middlewares = Refs(mws), !.routes[1].skip = skip], r)
     : mws \in Lists, skip \in SUBSET ToSet(g),
       r \in {Visit, [Ask EXCEPT !.path = "z"], Preflight}}

-----------------------------------------------------------------------------
(* Routing: hosts, methods and headers against two routes.                   *)

Patterns == {<<>>, <<"api", ".", "x", ".", "com">>, <<"*", ".", "x", ".", "com">>, <<"*", ".", "com">>,
             <<"API", ".", "x", ".", "com">>}

Hosts == {<<"api", ".", "x", ".", "com">>, <<"API", ".", "x", ".", "com", ":", "80">>,
          <<"v1", ".", "api", ".", "x", ".", "com">>, <<"x", ".", "com">>, <<".", "x", ".", "com">>,
          <<"api", ".", "y", ".", "com">>, <<"api", "x", ".", "com">>}

Rules == {<<>>, [V |-> {"*"}], [V |-> {"1", "2"}], [V |-> {"", "1"}, W |-> {"*"}], ("X-Request-ID" :> {"*"})}
Sent == {<<>>, [V |-> <<"">>], [V |-> <<"1">>], [V |-> <<"3", "1">>, W |-> <<"w">>]}

Routings ==
  {Scenario([File EXCEPT !.routes[1].host = p, !.routes[2].host = q, !.routes[1].headers = rules],
            [Ask EXCEPT !.host = h, !.method = m, !.headers = hs])
     : p \in Patterns, q \in {<<>>, <<"*", ".", "x", ".", "com">>}, rules \in Rules,
       h \in Hosts, m \in {"GET", "POST", "OPTIONS"}, hs \in Sent}

-----------------------------------------------------------------------------
(* Keys: whom a limit charges.                                               *)

MaxHops == 3
Hops == BoundedSeq({"c", "C", "d", "p", "junk"}, MaxHops)

\* No line, one, or two.
Lines == {<<>>} \cup {<<hops>> : hops \in Hops} \cup {<<<<"d">>, <<"c">>>>}

Addressed ==
  {Scenario([File EXCEPT !.trusted = trusted, !.middlewares = Refs(<<"per_ip">>)],
            IF lines = <<>> THEN [Ask EXCEPT !.remote = remote]
            ELSE [Ask EXCEPT !.remote = remote, !.headers = ("X-Forwarded-For" :> lines)])
     : trusted \in {{}, {"p"}, {"p", "q"}}, remote \in {"c", "p"}, lines \in Lines}

Named ==
  {[Scenario([File EXCEPT !.middlewares = Refs(<<"per_header">>)], With(Ask, "X-A", value))
      EXCEPT !.reply.status = status]
     : value \in {"", "a", "long"}, status \in {200, 401, 500}}

Claimed ==
  {Scenario([File EXCEPT !.middlewares = Refs(<<auth, "per_user">>), !.routes[1].middlewares = Refs(also),
                         !.backend = backend],
            WithToken(Ask, [Token EXCEPT !.claims = claims]))
     : backend \in {"memory", "redis"}, auth \in {"jwt", "none"}, also \in {<<>>, <<"leaky">>, <<"none", "per_user">>},
       claims \in {<<>>, [sub |-> Text("")], [sub |-> Text("long")],
                   [sub |-> [type |-> "nil", text |-> ""]], [sub |-> [type |-> "number", text |-> "7"]]}}

-----------------------------------------------------------------------------
(* Credentials: every list of providers and every token; an auth middleware   *)
(* gets its list as an override.                                              *)

Tokens ==
  {[Token EXCEPT !.alg = alg, !.key = key, !.exp = exp, !.iss = iss, !.aud = aud, !.active = active]
     : alg \in {"RS256", "HS256"}, key \in {"k1", "k2", "k9"}, exp \in {"future", "past", "none"},
       iss \in {"iss", "other"}, aud \in {{"aud"}, {}}, active \in BOOLEAN}

Presented ==
  {WithToken(Ask, t) : t \in Tokens}
  \cup {With(Ask, "Authorization", [scheme |-> "basic", token |-> Token])}
  \cup {With(Ask, "X-API-Key", key) : key \in {"", "s1", "s2", "s3"}}

Credentialed ==
  {Scenario([File EXCEPT !.middlewares = <<[ref |-> "jwt", config |-> [providers |-> list]]>>], r)
     : list \in AuthLists, r \in Presented}

-----------------------------------------------------------------------------
(* Rewrites: transforms of headers, bodies and paths, with and without CORS.  *)

HeaderParts ==
  {<<>>,
   [remove |-> {"X-A"}, rename |-> <<>>, add |-> ("X-A" :> "${client_ip}")],
   [remove |-> {"X-C"}, rename |-> ("X-A" :> "X-B"), add |-> ("X-C" :> "${method}")],
   [remove |-> {}, rename |-> ("X-A" :> "X-B") @@ ("X-B" :> "X-C"), add |-> ("X-D" :> "${route_name}")],
   [remove |-> {}, rename |-> ("X-Forwarded-For" :> "X-A"), add |-> ("Content-Type" :> "text/plain")]}

BodyParts ==
  {<<>>,
   [strip |-> {"f"}, rename |-> ("g" :> "f"), inject |-> ("g" :> "${request_id}")],
   [strip |-> {}, rename |-> ("f" :> "g") @@ ("g" :> "h"), inject |-> <<>>]}

Ways == {<<>>} \cup {Way(h, b) : h \in HeaderParts, b \in BodyParts}

Bodies == {[kind |-> k, fields |-> <<>>] : k \in {"empty", "other", "null", "large", "broken"}} \cup {Object}

Posted(body) ==
  [With(With(With(With(Ask, "Content-Type", "application/json"), "X-A", "a"), "X-Forwarded-For", <<"d", "p">>),
        "Content-Length", body)
     EXCEPT !.body = body, !.method = "POST"]

Transformed(file, way, back) ==
  [file EXCEPT !.routes[2].middlewares =
     @ \o <<[ref |-> "rewrite", config |-> [request |-> way, response |-> back]]>>]

RequestRewrites ==
  {Scenario(Transformed(File, way, <<>>), Posted(body)) : way \in Ways, body \in Bodies}

ResponseRewrites ==
  {[Scenario(Transformed(Transformed([File EXCEPT !.middlewares = Refs(<<cors>>)], <<>>, back), <<>>, outer),
             With(Posted(Empty), "Origin", origin))
      EXCEPT !.reply.body = body, !.reply.headers = Set(@, "Content-Length", body)]
     : back \in Ways, outer \in {<<>>, Way([None EXCEPT !.add = ("X-B" :> "${path}")], <<>>)},
       cors \in {"cors", "any", "echo"}, origin \in {"o1", "o2"},
       body \in {b \in Bodies : b.kind # "broken"}}

Templates == {<<>>, <<"/v2/", "{id}">>, <<"{id}", "/", "{name}">>}
Params == {<<>>, ("{id}" :> <<"7">>), ("{id}" :> <<"{name}">>) @@ ("{name}" :> <<"n">>),
           ("{id}" :> <<"7">>) @@ ("{name}" :> <<"n">>)}

PathRewrites ==
  {Scenario([File EXCEPT !.routes[1].path_rewrite = t, !.routes[1].regex = ("a" :> p)], Ask)
     : t \in Templates, p \in Params}

-----------------------------------------------------------------------------
(* Resilience: every way to wrap the proxy, an upstream that can be named or   *)
(* not, and bodies that retries cannot read.                                  *)

Retries == {<<>>, [codes |-> {500}], [codes |-> {502}]}

Wrapped ==
  {[Scenario([File EXCEPT !.middlewares = Refs(mws), !.routes[1].retry = retry,
                          !.routes[1].breaker = breaker, !.routes[1].upstream = upstream],
             [With(Ask, "Origin", "o1") EXCEPT !.body = body])
      EXCEPT !.reply.status = status]
     : mws \in {<<>>, <<"cors", "rewrite">>}, retry \in Retries, breaker \in BOOLEAN,
       upstream \in {<<"up">>, <<>>}, status \in {200, 500},
       body \in {b \in Bodies : b.kind \in {"object", "large", "broken"}}}

-----------------------------------------------------------------------------
All == {Chained(g) : g \in Lists}
       \cup {Routings, Addressed, Named, Claimed, Credentialed,
             RequestRewrites, ResponseRewrites, PathRewrites, Wrapped}

==============================================================================
