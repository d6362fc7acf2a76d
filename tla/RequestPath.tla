----------------------------- MODULE RequestPath -----------------------------
(***************************************************************************)
(* One request on its way through a handler that BuildHandler made: in     *)
(* through the layers, out again, or unwinding in a panic.                 *)
(*                                                                         *)
(* Contexts are immutable: a layer that was entered keeps the context it   *)
(* was called with, and what inner layers add is not in it.  The route     *)
(* holder of the metrics layer is shared with inner layers, and so are the *)
(* request's headers, which every layer changes in place.  A response      *)
(* transform holds the response back until its inner handler has returned; *)
(* other writers pass it on at once.  Whether limiters, remote endpoints   *)
(* and the upstream say yes is left open.                                  *)
(***************************************************************************)
EXTENDS Pipeline, Rewrite, Cors

CONSTANT Families   \* sets of scenarios: a configuration, a request and the upstream's reply

\* What the parts of a scenario are; the upstream answers with some status.
ASSUME FamiliesAssumption ==
  \A family \in Families : \A s \in family :
    /\ IsList(s.cfg.middlewares) /\ IsList(s.cfg.routes)
    /\ \A i \in DOMAIN s.cfg.middlewares : ProvidersListed(s.cfg.middlewares[i].config)
    /\ \A i \in DOMAIN s.cfg.routes :
         LET own == s.cfg.routes[i].middlewares
         IN  IsList(own) /\ \A j \in DOMAIN own : ProvidersListed(own[j].config)
    /\ s.req = [field \in {"method", "host", "path", "remote", "headers", "body"} |-> s.req[field]]
    /\ s.reply.status \in Nat \ {0}

\* Hosts are sequences of tokens, and so are the lines of X-Forwarded-For.
ASSUME HostsAssumption ==
  \A family \in Families : \A s \in family :
    /\ IsList(s.req.host) /\ \A i \in DOMAIN s.cfg.routes : IsList(s.cfg.routes[i].host)
    /\ LET headers == s.req.headers
       IN  "X-Forwarded-For" \in DOMAIN headers =>
             /\ IsList(headers["X-Forwarded-For"])
             /\ \A i \in DOMAIN headers["X-Forwarded-For"] : IsList(headers["X-Forwarded-For"][i])

\* A header has a list of values.
ASSUME ReplyAssumption ==
  \A family \in Families : \A s \in family : \A name \in DOMAIN s.reply.headers : IsList(s.reply.headers[name])

VARIABLES
  cfg,       \* the configuration the handler was built for
  req,       \* the request as it came
  reply,     \* what the upstream answers when it answers
  cur,       \* the request as it is now, with the id and the route it was given
  mode,      \* "in", "out", "panic", "done"
  todo,      \* the layers still to be entered
  stack,     \* the layers entered and not yet left, each with its context
  ctx,       \* the context handed to the next layer
  holder,    \* the route the router put in the holder, 0 for none
  writers,   \* the client's response, then the responses held back, innermost last
  passed,    \* the middlewares that let the request through, in order
  charged,   \* the rate-limit keys that were charged, each with its middleware
  forwarded, \* the request the upstream was sent
  logged,    \* "request completed" lines: route and status
  counted    \* observations of gateway_requests_total: route and status

given == <<cfg, req, reply>>
records == <<logged, counted>>
vars == <<given, cur, mode, todo, stack, ctx, holder, writers, passed, charged, forwarded, records>>

Unwritten == [status |-> 0, headers |-> <<>>, body |-> <<>>]

Init ==
  /\ \E family \in Families : \E s \in family :
       Valid(s.cfg) /\ cfg = s.cfg /\ req = s.req /\ reply = s.reply
  /\ cur = [field \in DOMAIN req \cup {"id", "route"} |-> IF field \in DOMAIN req THEN req[field] ELSE ""]
  /\ mode = "in" /\ todo = BuildHandler /\ stack = <<>>
  /\ ctx = [holder |-> FALSE, route |-> 0, claims |-> <<>>] /\ holder = 0
  /\ writers = <<Unwritten>>
  /\ passed = <<>> /\ charged = <<>> /\ forwarded = <<>> /\ logged = <<>> /\ counted = <<>>

sent == writers[1]
Out == Last(writers)

\* The CORS writer of stk, if there is one, puts its headers in.
WithCORS(headers, stk) ==
  LET i == SelectInSeq(stk, LAMBDA frame : frame.layer.type = "cors")
      origin == Get(req.headers, "Origin")
  IN  IF i = 0 \/ origin = "" THEN headers ELSE injectCORSHeaders(headers, origin, stk[i].layer.config)

\* WriteHeader and Write on the last of ws: the first status counts.
Written(ws, stk, status, headers, body) ==
  IF Last(ws).status # 0 THEN ws
  ELSE Append(Front(ws), [status |-> status, body |-> body,
                          headers |-> IF Len(ws) = 1 THEN WithCORS(headers, stk) ELSE headers])

JSON(headers) == Set(headers, "Content-Type", "application/json")
Error(code, message) == [kind |-> "object", fields |-> [error |-> code, message |-> message]]

WrittenError(ws, stk, status, error) == Written(ws, stk, status, JSON(Last(ws).headers), error)

SetOut(name, value) ==
  writers' = [writers EXCEPT ![Len(writers)].headers = Set(@, name, value)]

\* The layer at the head of todo calls its inner handler with context c.
Call(c) ==
  /\ stack' = Append(stack, [layer |-> Head(todo), ctx |-> ctx])
  /\ todo' = Tail(todo)
  /\ ctx' = c
  /\ passed' = IF Head(todo).type \in DOMAIN Zero THEN Append(passed, Head(todo)) ELSE passed
  /\ UNCHANGED mode

\* It returns without calling it, or panics.
Stop(m) ==
  /\ mode' = m
  /\ todo' = <<>>
  /\ UNCHANGED <<stack, ctx, passed>>

Answer(status, error) == Stop("out") /\ writers' = WrittenError(writers, stack, status, error)

-----------------------------------------------------------------------------
(* In.                                                                     *)

At(type) == mode = "in" /\ Head(todo).type = type
Settings == Head(todo).config

EnterOuter ==
  /\ At("recovery") \/ At("logging")
  /\ Call(ctx)
  /\ UNCHANGED <<given, cur, holder, writers, charged, forwarded, records>>

\* The id the client has given the request, or a new one.
RequestID(headers) ==
  LET own == Get(headers, "X-Request-ID") IN IF own = "" THEN "generated" ELSE own

EnterRequestID ==
  /\ At("request_id")
  /\ LET id == RequestID(cur.headers)
     IN  /\ cur' = [cur EXCEPT !.id = id, !.headers = Set(@, "X-Request-ID", id)]
         /\ SetOut("X-Request-ID", id)
  /\ Call(ctx)
  /\ UNCHANGED <<given, holder, charged, forwarded, records>>

EnterMetrics ==
  /\ At("metrics")
  /\ Call([ctx EXCEPT !.holder = TRUE])
  /\ UNCHANGED <<given, cur, holder, writers, charged, forwarded, records>>

NotFound == Answer(404, Error("not_found", "No route matched"))

\* Fault: the router only puts the route in the request's context.
ServeHTTP_NoHolder ==
  /\ At("router")
  /\ LET i == firstMatch(cfg.routes, cur)
     IN  \/ i = 0 /\ NotFound /\ UNCHANGED cur
         \/ /\ i # 0
            /\ todo' = RouteHandler(cfg, cfg.routes[i])
            /\ ctx' = [ctx EXCEPT !.route = i]
            /\ cur' = [cur EXCEPT !.route = cfg.routes[i].name]
            /\ UNCHANGED <<mode, stack, writers, passed>>
  /\ UNCHANGED <<given, holder, charged, forwarded, records>>

ServeHTTP ==
  /\ At("router")
  /\ LET i == firstMatch(cfg.routes, cur)
     IN  \/ i = 0 /\ NotFound /\ UNCHANGED <<holder, cur>>
         \/ /\ i # 0
            /\ todo' = RouteHandler(cfg, cfg.routes[i])
            /\ holder' = IF ctx.holder THEN i ELSE holder
            /\ ctx' = [ctx EXCEPT !.route = i]
            /\ cur' = [cur EXCEPT !.route = cfg.routes[i].name]
            /\ UNCHANGED <<mode, stack, writers, passed>>
  /\ UNCHANGED <<given, charged, forwarded, records>>

\* A request without an Origin passes with no writer around it.
CORSMiddleware ==
  /\ At("cors")
  /\ IF isPreflight(cur)
     THEN /\ writers' = Written(writers, stack, 204,
                                handlePreflight(Out.headers, Get(cur.headers, "Origin"), Settings), <<>>)
          /\ Stop("out")
     ELSE Call(ctx) /\ UNCHANGED writers
  /\ UNCHANGED <<given, cur, holder, charged, forwarded, records>>

\* The first provider that accepts, or the first that is not there.
Verdict(providers, reached) ==
  LET tried(name) == Authenticate(name, cur, name \in reached)
      i == SelectInSeq(providers, LAMBDA name : name \notin DOMAIN Providers \/ tried(name).ok)
  IN  CASE providers = <<>> -> [status |-> 500, claims |-> <<>>]
        [] providers = <<"none">> -> [status |-> 0, claims |-> ctx.claims]
        [] OTHER ->
             CASE i = 0 -> [status |-> 401, claims |-> <<>>]
               [] i # 0 /\ providers[i] \notin DOMAIN Providers -> [status |-> 500, claims |-> <<>>]
               [] OTHER -> [status |-> 0, claims |-> tried(providers[i]).claims]

Denied(status) ==
  IF status = 401 THEN Error("unauthorized", "authentication failed")
                  ELSE Error("internal_error", "misconfigured auth")

\* reached are the remote providers that can be reached.
AuthMiddleware ==
  /\ At("auth")
  /\ \E reached \in SUBSET (Remote \cap ToSet(Settings.providers)) :
       LET verdict == Verdict(Settings.providers, reached)
       IN  IF verdict.status = 0
           THEN Call([ctx EXCEPT !.claims = verdict.claims]) /\ UNCHANGED writers
           ELSE Answer(verdict.status, Denied(verdict.status))
  /\ UNCHANGED <<given, cur, holder, charged, forwarded, records>>

Key ==
  compositeKey(Settings.algorithm, cfg.routes[ctx.route].name, Head(todo).name,
               extractKey(cur, Settings.key_source, ctx.claims, cfg.trusted))

Charge == charged' = Append(charged, [key |-> Key, layer |-> Head(todo), after |-> passed])

\* An error of the backend lets the request through.  The headers that tell the
\* limit are of the last limiter that had an answer.
RateLimitMiddleware ==
  /\ At("rate_limit")
  /\ \/ Call(ctx) /\ Charge /\ SetOut("X-RateLimit-Limit", Settings.requests)
     \/ /\ writers' = Written(writers, stack, 429,
                             JSON(Set(Out.headers, "X-RateLimit-Limit", Settings.requests)),
                             Error("rate_limit_exceeded", "Rate limit exceeded"))
        /\ Stop("out") /\ UNCHANGED charged
     \/ Call(ctx) /\ UNCHANGED <<charged, writers>>
  /\ UNCHANGED <<given, cur, holder, forwarded, records>>

\* The request's body is read when it is to be rewritten and says it is JSON.
\* Then the inner handler is called, with a buffer when the response is to be
\* rewritten.
RequestTransform ==
  /\ At("transform")
  /\ LET t == Settings.request
         inner == IF Configured(Settings.response) THEN Append(writers, Unwritten) ELSE writers
     IN  \E headers \in IF Configured(t) THEN transformHeaders(cur.headers, t.headers, cur, TRUE)
                                         ELSE {cur.headers} :
           LET now == [cur EXCEPT !.headers = headers]
               reads == IF Configured(t) THEN Configured(t.body) /\ isJSON(headers) ELSE FALSE
               kind == IF reads THEN cur.body.kind ELSE "unread"
           IN  \/ /\ kind = "broken"
                  /\ Answer(502, Error("bad_gateway", "failed to read request body"))
                  /\ cur' = now
               \/ /\ kind = "large"
                  /\ Answer(413, Error("request_too_large", "request body exceeds transform size limit"))
                  /\ cur' = now
               \/ /\ kind = "null" /\ InjectPanics(cur.body, t.body)
                  /\ Stop("panic") /\ cur' = now
                  /\ UNCHANGED writers
               \/ /\ kind \in {"unread", "empty"} /\ cur' = now
                  /\ Call(ctx) /\ writers' = inner
               \/ /\ kind \in {"object", "other", "null"} /\ ~InjectPanics(cur.body, t.body)
                  /\ \E body \in transformBody(cur.body, t.body, now) :
                       cur' = [now EXCEPT !.body = body, !.headers = Set(@, "Content-Length", body)]
                  /\ Call(ctx) /\ writers' = inner
  /\ UNCHANGED <<given, holder, charged, forwarded, records>>

Route == cfg.routes[ctx.route]

\* copyHeader: values are added to those that are there.
CopyHeader(headers, more) ==
  LET values(h, n) == IF n \in DOMAIN h THEN h[n] ELSE <<>>
  IN  [n \in DOMAIN headers \cup DOMAIN more |-> values(headers, n) \o values(more, n)]

Partial == [kind |-> "partial", fields |-> <<>>]

Unavailable == Error("bad_gateway", "Upstream service unavailable")
CircuitOpen == Error("service_unavailable", "circuit breaker is open")

\* What is around the proxy: retries, a breaker, both or nothing.  An upstream
\* whose URL does not parse has no host.
Retrying(route) == Configured(route.retry)
Resilient(route) == Retrying(route) \/ route.breaker
Parses(route) == route.upstream # <<>>

\* An attempt is made again after a status that is listed and, with a breaker,
\* after any error of the server.
Retried(route, status) ==
  Retrying(route) /\ (status \in route.retry.codes \/ (route.breaker /\ status >= 500))

Failure(status, error) == [status |-> status, error |-> error]

\* What the client is sent in place of a reply after an attempt: the proxy's 502,
\* unless that is retried; and after an attempt that is, that the client is gone,
\* that no attempt is left, or that the circuit has opened.
Failures(route) ==
  LET again == Retried(route, 502) \/ (Parses(route) /\ Retried(route, reply.status))
  IN  (IF Retried(route, 502) THEN {} ELSE {Failure(502, Unavailable)})
      \cup (IF again THEN {Failure(499, Error("client_closed", "client disconnected during retry")),
                          Failure(502, Error("bad_gateway", "upstream failed after all attempts"))}
                     ELSE {})
      \cup (IF again /\ route.breaker THEN {Failure(503, CircuitOpen)} ELSE {})

\* What it is sent without an attempt to reach the upstream.  Retries need the
\* body first; a body too large for a transform may be so for them.
Refusals(route, kind) ==
  IF Retrying(route) /\ kind = "broken"
  THEN {Failure(502, Error("bad_gateway", "failed to read request body"))}
  ELSE (IF Retrying(route) /\ kind = "large"
        THEN {Failure(413, Error("request_too_large", "request body exceeds retry buffer limit"))} ELSE {})
       \cup (IF route.breaker THEN {Failure(503, CircuitOpen)} ELSE {})
       \cup (IF Parses(route) THEN {} ELSE Failures(route))

\* The proxy and what is around it.  The upstream is asked, once or more often,
\* under its own name, and its reply passed on when it is not to be tried again.
\* When a reply breaks off the proxy panics; its header is by then out, unless it
\* went to the recorder of a breaker or of the retries.
Proxy ==
  /\ At("proxy")
  /\ \/ /\ Parses(Route) /\ ~(Retrying(Route) /\ cur.body.kind = "broken")
        /\ \E path \in PathRewrite(Route.path_rewrite, Route.regex[cur.path], cur.path) :
             forwarded' = <<[cur EXCEPT !.path = path, !.host = Route.upstream]>>
        /\ LET headers == CopyHeader(Out.headers, reply.headers)
           IN  \/ /\ ~Retried(Route, reply.status)
                  /\ Stop("out") /\ writers' = Written(writers, stack, reply.status, headers, reply.body)
               \/ \E f \in Failures(Route) : Answer(f.status, f.error)
               \/ /\ ~Resilient(Route)
                  /\ Stop("panic") /\ writers' = Written(writers, stack, reply.status, headers, Partial)
               \/ Resilient(Route) /\ Stop("panic") /\ UNCHANGED writers
     \/ \E f \in Refusals(Route, cur.body.kind) : Answer(f.status, f.error) /\ UNCHANGED forwarded
  /\ UNCHANGED <<given, cur, holder, charged, records>>

-----------------------------------------------------------------------------
(* Out.                                                                    *)

Top == Last(stack)
Rest == Front(stack)

Leaving(type) == mode = "out" /\ stack # <<>> /\ Top.layer.type = type

Pop == stack' = Rest /\ UNCHANGED <<given, cur, todo, ctx, holder, passed, charged, forwarded>>

RouteName(i) == IF i = 0 THEN "unknown" ELSE cfg.routes[i].name

\* What was held back is rewritten and goes to the writer outside, or 502 when
\* it was too big.
ResponseTransform ==
  /\ Leaving("transform") /\ Configured(Top.layer.config.response)
  /\ Pop
  /\ LET t == Top.layer.config.response
         outer == Front(writers)
     IN  \/ /\ Out.body.kind = "large"
            /\ writers' = WrittenError(outer, Rest, 502, Error("bad_gateway", "response too large"))
            /\ UNCHANGED mode
         \/ /\ Out.body.kind # "large"
            /\ \E headers \in transformHeaders(Out.headers, t.headers, cur, FALSE) :
                 LET body == IF isJSON(headers) THEN t.body ELSE <<>>
                 IN  \/ InjectPanics(Out.body, body) /\ mode' = "panic" /\ UNCHANGED writers
                     \/ /\ ~InjectPanics(Out.body, body)
                        /\ \E b \in transformBody(Out.body, body, cur) :
                             writers' = Written(outer, Rest, Out.status,
                                                CopyHeader(Last(outer).headers,
                                                           Set(headers, "Content-Length", b)), b)
                        /\ UNCHANGED mode
  /\ UNCHANGED records

\* The line is about the request the layer was called with.
LeaveLogging ==
  /\ Leaving("logging")
  /\ Pop
  /\ logged' = Append(logged, [route |-> RouteName(Top.ctx.route), status |-> sent.status])
  /\ UNCHANGED <<mode, writers, counted>>

LeaveMetrics ==
  /\ Leaving("metrics")
  /\ Pop
  /\ counted' = Append(counted, [route |-> RouteName(holder), status |-> sent.status])
  /\ UNCHANGED <<mode, writers, logged>>

\* Layers that do nothing after the call.
LeaveOther ==
  /\ \/ \E type \in {"recovery", "request_id", "cors", "auth", "rate_limit"} : Leaving(type)
     \/ Leaving("transform") /\ ~Configured(Top.layer.config.response)
  /\ Pop
  /\ UNCHANGED <<mode, writers, records>>

\* Nothing is deferred but the recovery: a panic skips every other layer.
Unwind ==
  /\ mode = "panic" /\ Top.layer.type # "recovery"
  /\ Pop
  /\ UNCHANGED <<mode, writers, records>>

\* Fault: the outermost layer does not recover.
Recovery_Missing ==
  /\ mode = "panic" /\ Top.layer.type = "recovery"
  /\ Pop
  /\ mode' = "out"
  /\ UNCHANGED <<writers, records>>

Recovered == Error("internal_error", "Internal server error")

\* The writer of the recovery is the client's own.
Recovery ==
  /\ mode = "panic" /\ Top.layer.type = "recovery"
  /\ Pop
  /\ mode' = "out"
  /\ writers' = WrittenError(<<sent>>, Rest, 500, Recovered)
  /\ UNCHANGED records

Finish ==
  /\ mode = "out" /\ stack = <<>>
  /\ mode' = "done"
  /\ UNCHANGED <<given, cur, todo, stack, ctx, holder, writers, passed, charged, forwarded, records>>

Next ==
  \/ EnterOuter \/ EnterRequestID \/ EnterMetrics \/ ServeHTTP
  \/ CORSMiddleware \/ AuthMiddleware \/ RateLimitMiddleware \/ RequestTransform \/ Proxy
  \/ ResponseTransform \/ LeaveLogging \/ LeaveMetrics \/ LeaveOther \/ Unwind \/ Recovery
  \/ Finish

Spec == Init /\ [][Next]_vars

-----------------------------------------------------------------------------
\* The request that the router and the middlewares see: it has an id.
Seen == [req EXCEPT !.headers = Set(@, "X-Request-ID", RequestID(@))]

Served == firstMatch(cfg.routes, Seen)
Chain == Effective(cfg, cfg.routes[Served])
UpstreamCalled == At("proxy")

\* The request is served by the first route that declares it: path, host token
\* by token, method and headers; it is answered 404 in place of the upstream
\* exactly when none does.
RoutedAsDeclared ==
  LET none == \A i \in DOMAIN cfg.routes : ~Declares(cfg.routes[i], Seen)
  IN  /\ ctx.route # 0 =>
           /\ Declares(cfg.routes[ctx.route], Seen)
           /\ \A i \in 1..ctx.route - 1 : ~Declares(cfg.routes[i], Seen)
      /\ sent.status = 404 /\ forwarded = <<>> => none
      /\ mode = "done" /\ none => sent.status = 404 /\ forwarded = <<>>

\* When a request reaches the proxy, every middleware the configuration puts
\* on its route, less the globals the route skips, has let it through, as often
\* as it is listed; in the listed order, but for transforms, which come after
\* everything that may refuse the request.
GuardsBeforeUpstream ==
  UpstreamCalled =>
    LET route == cfg.routes[Served]
        Listed(n, refs) == Cardinality({i \in DOMAIN refs : refs[i].ref = n})
        Inner(i) == passed[i].type = "transform"
    IN  /\ \A n \in DOMAIN Definitions :
             Cardinality({i \in DOMAIN passed : passed[i].name = n}) =
               Listed(n, route.middlewares)
               + (IF n \in route.skip THEN 0 ELSE Listed(n, cfg.middlewares))
        /\ \A i, j \in DOMAIN passed : Inner(i) /\ i < j => Inner(j)
        /\ \A i, j \in DOMAIN passed :
             i < j /\ (Inner(i) <=> Inner(j)) =>
               \E k, l \in DOMAIN Chain : k < l /\ Chain[k] = passed[i] /\ Chain[l] = passed[j]

\* "Returning 204 without forwarding upstream": under every configuration that
\* passes validation, a preflight for a route with CORS is answered 204, before
\* it is authenticated, charged or transformed.
PreflightFree ==
  /\ isPreflight(req)
  /\ Served # 0
  /\ \E i \in DOMAIN Chain : Chain[i].type = "cors"
  => passed = <<>> /\ charged = <<>> /\ forwarded = <<>> /\ sent.status \in {0, 204}

\* No authentication is passed without a provider on its list that vouches for
\* the request's credentials; the gateway refuses it only when no provider that
\* needs no endpoint does; and it never answers a configuration that passes
\* validation as a misconfigured one.
AuthSound ==
  LET Vouched(mw) == \E p \in ToSet(mw.config.providers) \cap DOMAIN Providers : VouchedClaims(p, Seen) # {}
      Local(mw) == \E p \in ToSet(mw.config.providers) \ Remote :
                     p \in DOMAIN Providers /\ VouchedClaims(p, Seen) # {}
      Auth(mw) == mw.type = "auth" /\ mw.config.providers # <<"none">>
  IN  /\ \A i \in DOMAIN passed : Auth(passed[i]) => Vouched(passed[i])
      /\ sent.status = 401 /\ forwarded = <<>> =>
           \E i \in DOMAIN Chain : Auth(Chain[i]) /\ ~Local(Chain[i])
      /\ sent.status = 500 /\ forwarded = <<>> => sent.body = Recovered

\* A rate limit charges whom its key source names.  An address is that of the
\* client, behind trusted proxies as well, whatever the client wrote into
\* X-Forwarded-For (in one line: see the README).  A claim is that of the last
\* authentication in front of the limit; the address takes its place only when
\* the token has no such claim or nobody was authenticated; but an auth middleware
\* is always in front, be it one that lets everybody in.
ClientCharged ==
  LET ByAddress(key) == OneLine(req.headers) => key.extracted = ClientOf(req, cfg.trusted)
      Asked(mws) == Sieve(mws, {i \in DOMAIN mws : mws[i].type = "auth" /\ mws[i].config.providers # <<"none">>})
      Claims(mws) == IF Asked(mws) = <<>> THEN {}
                     ELSE UNION {VouchedClaims(p, Seen) : p \in ToSet(Last(Asked(mws)).config.providers)}
      Has(claims, name) == name \in DOMAIN claims /\ claims[name].type # "nil"
  IN  \A i \in DOMAIN charged :
        LET key == charged[i].key
            after == charged[i].after
            source == charged[i].layer.config.key_source
            claims == Claims(after)
            value == Get(Seen.headers, source.name)
        IN  /\ key.route = cfg.routes[Served].name /\ key.name = charged[i].layer.name
            /\ source.kind = "claim" => \E j \in DOMAIN after : after[j].type = "auth"
            /\ CASE source.kind = "claim" ->
                      \/ \E c \in claims : /\ Has(c, source.name)
                                           /\ key.extracted = truncateKey(c[source.name].text)
                      \/ /\ claims = {} \/ \E c \in claims : ~Has(c, source.name)
                         /\ ByAddress(key)
                 [] source.kind = "header" ->
                      IF value = "" THEN ByAddress(key) ELSE key.extracted = truncateKey(value)
                 [] OTHER -> ByAddress(key)

\* A browser can read every answer of a route with CORS for an origin that is
\* allowed, refusals and errors of the gateway included: there is one
\* Access-Control-Allow-Origin, whatever the upstream has set, and it is not "*"
\* where credentials are allowed.  Only the answer to a panic has none.
CorsReadable ==
  LET origin == Get(req.headers, "Origin")
  IN  Served # 0 /\ sent.status # 0 /\ sent.body # Recovered /\ origin # "" =>
        \A i \in DOMAIN Chain :
          LET c == Chain[i].config
          IN  Chain[i].type = "cors" =>
                /\ c.allowed_origins \cap {origin, "*"} # {} =>
                     \E allow \in {origin, "*"} :
                       /\ "Access-Control-Allow-Origin" \in DOMAIN sent.headers
                       /\ sent.headers["Access-Control-Allow-Origin"] = <<allow>>
                       /\ allow = "*" /\ origin # "*" => "*" \in c.allowed_origins /\ ~c.allow_credentials

\* Headers the gateway sets around the transforms.
OwnHeaders == {"X-Request-ID", "X-RateLimit-Limit", "Vary", "Content-Length",
               "Access-Control-Allow-Origin", "Access-Control-Allow-Credentials",
               "Access-Control-Expose-Headers"}

\* The upstream gets the request, and the client the reply, with the headers, the
\* body and the path that the transforms and the template of the route promise:
\* one transform after the other as they are listed on the way in and the other
\* way round on the way out, with the length of what is sent; where the outcome
\* does not hang on the order of a map and the body can be read.  JSON null is the
\* exception the code makes: a transform that injects into it panics, and that is
\* the only request that ends in a 500 before the upstream is called.
RewrittenAsConfigured ==
  LET ts == Transforms(Chain)
      order == [i \in DOMAIN ts |-> i]
      Way(d, i) == ts[i].config[d]
      Sure(d) == \A i \in DOMAIN ts : Configured(Way(d, i)) =>
                   Orderless(Way(d, i).headers) /\ OrderlessBody(Way(d, i).body)
      In == FoldLeft(LAMBDA m, i : PromisedMessage(m, Way("request", i), cur, TRUE),
                     Message(Set(req.headers, "X-Request-ID", cur.id), req.body), order)
      Back == FoldRight(LAMBDA i, m : PromisedMessage(m, Way("response", i), cur, FALSE),
                        order, Message(reply.headers, reply.body))
      Rewritten(h) == Restrict(h, DOMAIN h \ OwnHeaders)
      params == cfg.routes[Served].regex[req.path]
      template == cfg.routes[Served].path_rewrite
      passedOn == /\ mode = "done" /\ sent.status = reply.status /\ reply.status \notin {499, 502, 503}
                  /\ sent.body \notin {Partial, Recovered}
  IN  /\ forwarded # <<>> =>
           LET f == forwarded[1]
           IN  /\ Sure("request") => Rewritten(f.headers) = Rewritten(In.headers) /\ f.body = In.body
               /\ "Content-Length" \in DOMAIN f.headers => f.headers["Content-Length"] = <<f.body>>
               /\ Plain(params) =>
                    f.path = IF Configured(template) THEN PromisedPath(template, params) ELSE <<req.path>>
               /\ Sure("response") /\ passedOn =>
                    /\ Rewritten(sent.headers) = Rewritten(Back.headers) /\ sent.body = Back.body
                    /\ sent.headers["Content-Length"] = <<sent.body>>
      /\ forwarded = <<>> /\ sent.body = Recovered =>
           /\ req.body.kind = "null"
           /\ \E i \in DOMAIN ts : Configured(Way("request", i)) /\ InjectPanics(req.body, Way("request", i).body)

\* A request is counted once, under the route that served it and with the status
\* the client was sent, and has one line in the log with that status; only one that
\* panicked has neither, whose client was sent the recovery's error or a reply that
\* breaks off.  The line never names the route: the layer that writes it has only
\* the context it was called with, and the router is behind it.
CountedAsAnswered ==
  /\ \A i \in DOMAIN counted : counted[i] = [route |-> RouteName(Served), status |-> sent.status]
  /\ \A i \in DOMAIN logged : logged[i] = [route |-> "unknown", status |-> sent.status]
  /\ Len(counted) <= 1 /\ Len(logged) <= 1
  /\ mode = "done" => Len(counted) = Len(logged) /\ (counted = <<>> => sent.body \in {Recovered, Partial})

\* A panic anywhere below is answered: no request ends without a status.
Answered == mode = "done" => sent.status # 0

==============================================================================
