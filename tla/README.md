# A TLA+ model of tanugate

Tanugate is an HTTP API gateway in Go. It matches a request against its routes,
runs it through the middlewares the configuration lists (CORS, authentication,
rate limits, transforms), and proxies it upstream with retries and a circuit
breaker. It reloads its configuration on SIGHUP and shuts down gracefully. This
directory models the parts of it that keep state or whose order matters, checks
them with TLC on small instances and proves the central invariants with TLAPS.

Paths below are relative to the repository; `pkg/file.go` stands for
`internal/pkg/file.go`.

## Inventory

| Component | State | Operations | Talks to |
|---|---|---|---|
| Circuit breaker (`middleware/circuitbreaker`) | state, two counters, `openedAt`, `halfOpenProbing`, under a mutex | `Execute` (two critical sections around `fn`), `setState`, `onStateChange` | called once per attempt; the callback writes Prometheus gauges |
| Retry (`middleware/retry`) | per request: attempt number, recorder | `ServeHTTP` of the retry and of the breaker-only handler | breaker, proxy, the request's context |
| Memory limiter (`middleware/ratelimit/memory.go`) | a `sync.Map` of buckets, each with a mutex | `Allow`, the cleanup goroutine | rate-limit middleware |
| Redis limiter (`middleware/ratelimit/redis.go`) | a sorted set or a hash per key in Redis | `Allow`, two Lua scripts | Redis through go-redis, with time-outs and retries |
| Rate-limit middleware (`ratelimit.go`) | none | key extraction, trusted proxies, verdict, fail-open, `Retry-After` | limiter, auth result in the context |
| Process (`cmd/gateway/main.go`) | `cfgPtr`, `current`, `sigCh`, limiter and authenticators of the boot | select loop, `handleReload`, shutdown | signals, the file, request goroutines |
| Pipeline (`pipeline`) | none | `BuildHandler`, `wrapResilience` | every middleware |
| Router (`router`) | compiled routes | first match | fills the route holder and the context |
| Auth middleware (`middleware/auth/auth.go`) | none | providers in turn | authenticators of the boot |
| Logging, metrics, recovery, request id | Prometheus counters | around the router | router, through the holder |
| Configuration (`config`) | none | load, validate, resolve, diff | process, pipeline |
| Health (`observability/health.go`) | none | reads `cfgPtr`, pings Redis | process |
| JWT, OIDC, API-key providers (`middleware/auth`) | caches inside libraries | one check of a request | auth middleware, remote endpoints |
| Transforms (`middleware/transform`), CORS (`middleware/cors.go`) | a response held back | rewriting of headers, bodies; preflights | pipeline, proxy |
| Proxy (`proxy`) | none | path rewriting, one call upstream | router's path parameters |

What is hard here, and hardly reached by the repository's tests:

* **Concurrency.** The breaker gives up its lock while `fn` and the callbacks
  run. `MemoryLimiter.Allow` reads the clock before it loads the bucket and
  loads the bucket before it locks it; cleanup deletes after it has unlocked.
* **Failure.** A proxy panic unwinds through handlers that defer nothing. A
  Redis script may be executed twice, late, or after its caller gave up.
* **Ordering.** Scripts reach Redis in another order than their times; late
  results reach the breaker in another state than the one they started in;
  guards and transforms are taken apart and re-assembled in reverse; transforms
  and path rewriting walk Go maps, whose order is random.
* **Staleness.** A reload replaces the configuration and the handler, but not
  the limiter and the authenticators, while requests keep the old handler.
* **Liveness.** The breaker must close again after an outage, a request must be
  answered, a reload must not be lost, a shutdown must end.

`PROJECT.json` lists these hazards one by one, at their lines, with the
properties that would catch them.

What makes each component correct:

* breaker: one probe, and only the probe decides; the slot does not leak; legal
  edges only; it recovers;
* retry: the answer is what the attempts say; the number of attempts is
  bounded; attempts stop for a client that has gone;
* limiters: a bound on admitted requests in real time; refusals only when
  deserved; announced reset times that are true;
* process: only sound configurations are live; nothing is used after it is
  closed; no delivered signal is lost; what a reload changed or could not change
  is reported;
* pipeline: no way to the upstream around a configured middleware; the
  conditions validation checks are the ones the handler needs;
* router and providers: a request is served by the route that declares it, and
  let in by a provider that vouches for it, never by another;
* rate-limit keys: the client is charged, behind proxies too;
* transforms and CORS: what arrives is what the configuration promises, and an
  allowed origin can read every answer.

## Modules

| Module | Models | Composes |
|---|---|---|
| `CircuitBreaker` | `Execute`, `setState`, the gauge callback, panics, the clock | |
| `BreakerContract` | abstract: what a breaker promises its route | refined by `CircuitBreaker` |
| `BreakerRecovery` | an upstream that heals, under fairness | `CircuitBreaker` |
| `Resilience` | the retry and breaker-only handlers, disconnects | `CircuitBreaker` |
| `MemoryLimiter` | `Allow`, `evictStale`, reloads of the limit | |
| `LimiterRate` | an observer that counts admitted requests | `MemoryLimiter` |
| `RedisLimiter` | `Allow`, both scripts, the network | |
| `Gateway` | `runServe`, `handleReload`, shutdown, requests across reloads | |
| `Routing` | `Router.ServeHTTP`'s tests of path, host, method and headers; `validateHostPattern` | |
| `ClientKey` | `extractKey`, `extractIP` | `Routing` |
| `Credentials` | the JWT, OIDC and API-key authenticators | `Routing` |
| `Config` | `ResolveMiddlewares`, overrides, `semanticErrors` | `Credentials` |
| `Rewrite` | `transformHeaders`, `transformBody`, path rewriting | `ClientKey` |
| `Cors` | the headers of `CORSMiddleware` | `Routing` |
| `Pipeline` | `BuildHandler` | `Config` |
| `RequestPath` | one request through the built handler, panics included | `Pipeline`, `Rewrite`, `Cors` |
| `CircuitBreakerProofs`, `MemoryLimiterProofs`, `RedisLimiterProofs`, `GatewayProofs` | proofs about the module they are named after | |
| `ResilienceProofs`, `LimiterRateProofs`, `RequestPathProofs` | proofs about compositions | the first two extend the proofs about the part |
| `RedisRefusalProofs` | proofs about what `RedisLimiter` tells those it turns away | `RedisLimiterProofs` |
| `MC...` | symmetry sets and definitions for the constants | |

Operators named `X_Something`, next to an operator `X` and introduced by
"Fault:", are plausible bugs. No specification uses them; replacing `X` by one
shows that the property they are listed with in `PROJECT.json` can fail.

### Circuit breaker

`cb` holds the fields of the struct. `pc` says where each goroutine is in
`Execute`: Section A is one action (`AdmitClosed`, `AdmitProbe`,
`EnterHalfOpen`, `Reject`), Section B is `Complete`, and the two gauge writes of
the callback are `SetTo` and `ClearFrom`, since nothing orders them against
another goroutine's. `Panic` leaves `fn` without Section B. Time is kept as
timers that saturate at the value they are compared with, so there is no clock
bound. `CallTimeout` is `upstream.timeout`, the deadline of one `fn`.

The contract depends on one inequality. If no call can outlive the rest of an
open breaker (`CallTimeout < Timeout`), `CircuitBreaker` implements
`BreakerContract`. If calls can, results of old calls are taken for the probe's
and a second probe may run beside the first (`breaker_two_probes`). What
survives either way (the slot is backed by a probe, legal edges, recovery) is
checked in `recovery`, where `Timeout` is 1 and `CallTimeout` 2.

### Retry

`Resilience` runs one `ServeHTTP` per request on top of `CircuitBreaker`, each
attempt being one `Execute`. `route` says whether the route has a breaker, a
retry, or both; a run covers all three. The handler looks at the context before
and after its sleep only, which is why a client that leaves at the wrong moment
costs one more attempt. Delays are left out: a sleep may take any time. The type
invariant also says that handler and breaker stay in step: a request is in the
proxy exactly while the breaker counts it as running, and answered exactly when
it has left the handler.

### Memory limiter

One key, because keys share nothing but the clock. Tokens are counted in units
of 1/Window, so the float arithmetic is exact and its rounding is left out.
Buckets are heap objects that goroutines may still hold when cleanup takes them
out of the map; objects nobody refers to are reused. `MaxDelay` bounds the time
between a goroutine's clock read and its critical section; the proofs need no
bound on it. `born` and `granted` are history, not fields.

### Redis limiter

`wire` holds the scripts on their way. A script may be delayed by `MaxLag`, sent
again by go-redis (`Resend`), lose its reply (`Lose`), or run after its gateway
has failed open (`GiveUp`); it carries a time up to `MaxLead` ahead of Redis's.
The scripts are functions of the stored value and the time carried; `algorithm`
is drawn once, so one run covers both. `charged` is history: when each request
was first counted. `orderly` is history too: no script has yet run with an older
time than the one before it, and that is all it says; it assumes nothing of a key
that expires. `Drift` is what an expiry can spare a full bucket: the TTL counts from
Redis's clock, which may be `MaxLead` behind the time in the hash, and the script
that finds the key gone may carry a time `MaxLag` old. `Second` is the number of
ticks in a second, which is what `Retry-After` is cut to.

### Process

A configuration is reduced to what these parts tell apart: whether it loads,
whether it builds, the settings a reload cannot change, and the reloadable
routes, definitions and middlewares. The main goroutine moves through
`handleReload` and the shutdown one store at a time; `Edit` and `Signal` happen
at any moment, requests keep the handler they loaded. `signal.Notify` drops what
does not fit the channel of one place. `warned` and `quiet` remember what reloads
have logged, `grace` the time-out the shutdown got. A health probe is a request
that reads `cfgPtr` in one step (`AcceptHealth`) and asks the checker of the boot
in another (`Probe`), with any number of reloads between.

### Request path

A handler is the sequence of its layers. `RequestPath` enters them one by one
and leaves them in reverse; a layer keeps the context it was called with, so
what inner layers add is not visible outside, except through the route holder
and the request's headers, which are changed in place. `writers` is the stack of
responses: the client's, and one for each response transform that holds its
response back. A panic pops every layer up to the recovery. Whether limiters,
remote endpoints and the upstream say yes is left open at each step.

`Proxy` is the innermost handler with the retries and the breaker of its route
around it, in one step: `Resilience` has what happens between the attempts, and
here only their outcome is told apart. The upstream is asked under its own host
(`proxy.go:60`). `Retried` says which statuses are tried again, and so never passed
on. `Failures` are the answers that replace a reply: the proxy's 502, the 499 of a
client that left, the 503 of a circuit that opened between two attempts, and the
502 of retries that ran out. `Refusals` are those without an attempt: an upstream
URL that does not parse (`proxy.go:33`), an open circuit, and the 502 or 413 of a
body that retries cannot hold. A header of the attempt is never in such an answer.

The pure functions around it translate one function of the code each. Next to
them, below a line, stands what the properties compare them with, said in another
way: `HostDeclared` compares token by token up to the port where the code cuts
strings, `ClientOf` joins the addresses of all lines and the peer where the code
walks one header line, `VouchedClaims` says who may vouch where the code tries providers in
turn, `Promised` gives each header's final values where the code edits a map.

Data are as small as the properties allow. A regular expression is the set of
what it matches (a path's with the values of its groups), a host a sequence of
tokens, a token the outcome of looking at its signature and claims, a body an
object with fields or a kind of body without. `transformHeaders`, `transformBody`
and `PathRewrite` return sets: one result for each order of the Go maps they
walk. Headers that `net/http` itself adds or drops when it proxies are left out.

The scenarios come in families (`MCRequestPath`), since their product would be
out of reach and most of it says nothing new: a family varies one concern and
keeps the rest simple.

| Family | Varies |
|---|---|
| `Chained(g)`, one for each list of globals `g` | up to 2 global and 2 route middlewares of 6, any skips; a visit, a preflight, an unknown path |
| `Routings` | 5 host patterns, 7 hosts, 4 header rules, 4 sets of headers, 3 methods, two routes that overlap |
| `Addressed`, `Named`, `Claimed` | `X-Forwarded-For` of up to 3 entries and 2 lines, trusted networks, header keys, claim types, two authentications |
| `Credentialed` | 10 lists of the 6 providers, tokens of every combination of algorithm, key, expiry, issuer, audience and activity |
| `RequestRewrites`, `ResponseRewrites`, `PathRewrites` | header and body rules that feed each other or not, with fields stripped, renamed and injected over each other, every kind of body, 3 CORS configurations, nested transforms, templates |
| `Wrapped` | the proxy with and without retries and breaker, an upstream that has a host or none, replies that are tried again or not, bodies that cannot be read or are too large |

Files that validation refuses are in the families too; `Valid` filters them, as
`LoadConfig` does.

## Runs

All runs end within two and a half minutes on two cores.

| Run | Shows | Bounds |
|---|---|---|
| `breaker_fast` | `SingleProbe`, `ProbeDecidesRecovery` and refinement of `BreakerContract`, with panics, when calls are shorter than the rest | 3 callers, thresholds 2, rest 3, deadline 2 |
| `recovery` | `Recovers`, `ProbeSlotBacked`, `LegalTransitions` when calls outlive the rest | 3 callers, thresholds 2, rest 1, deadline 2 |
| `resilience` | answers match attempts, attempts are bounded, one late attempt, listed codes only, every request is answered | 2 requests, 1 retry, statuses 200, 429, 500 |
| `limiter` | a bucket conserves tokens, the observed rate is bounded, stale buckets are full | 2 requests, 2 buckets, limits 1 and 2, window 2, time 3 |
| `redis` | the sliding window bounds real time from both sides, the leaky bucket keeps its rate in order but for lead and expiries, `resetAt` admits, `Retry-After` is less than a second off | 3 requests, both algorithms, limit 2, window 5, lag, lead and retries 1, 2 ticks a second, time 6 |
| `gateway` | sound live configuration, safe shutdown, authentication across reloads, honest reports and health, no delivered signal lost, shutdown ends | 1 request, 5 files |
| `request_path` | routed as declared, guards before upstream, free preflights, sound authentication, the client charged, readable by allowed origins, rewritten as configured (headers, bodies, paths), counted and logged with the status sent, panics answered | the families above (486,893 states) |
| `breaker_two_probes` | violation of `SingleProbe` with slow calls | 3 callers |
| `breaker_panic` | violation of `ProbeSlotBacked` when a probe panics | 3 callers |
| `breaker_gauge` | violation of `GaugeFaithful` | 2 callers |
| `redis_leaky_stale` | violation of `LeakRate` by a delayed script | 5 requests, limit 2, window 2, lag 1 |
| `gateway_grace` | violation of `GraceOfTheBoot` by a reload before the shutdown | 1 request, 5 files |

Why these bounds are enough to be interesting: three callers are a probe, a late
call and a newcomer; two thresholds of 2 tell counting from not counting; three
requests against a limit of 2 exceed it, and one retry gives two executions of
one script; a window of 5 is longer than two seconds of 2 ticks, so `Retry-After`
takes more than one value. Two buckets are the key's and its orphan. One request
of the gateway is enough, because requests touch each other only through the
process, and no property speaks of two; the proofs hold for any number. The five
files are a good one, one that does not load, one that does not build, one that
changes backend, time-out and providers, and one that only reorders routes. Two
middlewares in each list give repetition, skipping, overriding and every order
of two types. Three entries of `X-Forwarded-For` are one of the client's own, one
that is not an address and one of a proxy, in every order. Each passing property
is violated by the fault listed with it, under the same bounds.

The `redis` run (3,040,098 states) reaches an expiry, but three requests cannot
spend the `Drift` it spares; the theorem `RateHoldsInOrder` covers any number. With
limit 1, window 2, lag and lead 1, four requests and time 7, the leaky bucket alone
has an orderly behaviour that admits more than the rate and the lead, and none that
admits more than `LeakRateInOrder` allows: the term is needed, and enough.

`CHECK_DEADLOCK FALSE` is said where the system may stop: the process exits
(`gateway`), all requests are served (`resilience`, `request_path`), or the
clock has reached `MaxTime` (limiters).

### Fairness

* `BreakerRecovery`: the clock advances; a goroutine inside `Execute` keeps
  running and `fn` ends, since the proxy's context has a deadline; the route
  keeps receiving requests. Nothing is assumed about who comes next.
* `Resilience`: each request's own steps are weakly fair (goroutines are
  scheduled, sleeps end, attempts have a deadline). Clock and client are not.
* `Gateway`: only the main goroutine is weakly fair. Requests may run for ever:
  the shutdown time-out ends the drain.

## Proofs

For every value of the constants allowed by the modules' assumptions:

| Theorem | Says | Argument |
|---|---|---|
| `CircuitBreakerProofs!TypeCorrect` | `TypeOK` | one step per action; the lemmas `SetStateFacts`, `RecordFailureFacts`, `RecordSuccessFacts`, `RecordedFacts` say what Section B returns |
| `SlotBacked` | `ProbeSlotBacked`, without panics | inductive with `TypeOK` |
| `EdgesLegal` | `LegalTransitions` | an action property, from `RecordedFacts` |
| `SingleProbeHolds`, `ProbeDecides`, `ContractKept` | `SingleProbe`, `ProbeDecidesRecovery`, `ContractSpec`, if `CallTimeout < Timeout` | `FlightInv`, below |
| `ResilienceProofs!BreakerUnderRetries` | `RSpec => Spec`: every theorem about the breaker holds below the handlers | each step of a handler is a step of the breaker or none |
| `HandlerTypeCorrect`, `AnswersJustified`, `GoneTriedOnce`, `ListedRetried` | `ResilienceTypeOK`, `AnswerMatchesAttempts`, `OneAttemptForTheGone`, `OnlyListedCodesRetried` | `HandlerInv`, below |
| `MemoryLimiterProofs!TypeCorrect` | tokens never negative, goroutines past `LoadOrStore` have a bucket | `RefillFacts`, `TakenFacts` |
| `Conserves` | `BucketConserves` | inductive with `TypeOK`; the two cases of `refill` |
| `EvictedFull` | `StaleIsFull`, if `Window + MaxDelay <= EvictionTTL + 1` | `Punctual`: a call in progress is at most `MaxDelay` old, no bucket was refilled in the future, and a late call sets the last access at most `MaxDelay` behind the last refill |
| `LimiterRateProofs!RateKept` | `RateBound`, for finitely many goroutines | `RateInvariant`, below |
| `RedisLimiterProofs!WindowHolds` | `SlidingBound`, for the sliding window | `SlidingInv`, below |
| `RateHoldsInOrder` | `LeakRateInOrder`: the rate, the gateways' lead once, and `Drift` for each expiry | `LeakInv`, below |
| `RedisRefusalProofs!TypeCorrect` | `TypeOK`, for both algorithms | `LeakedFacts`, `TypeInv` |
| `RefusalsJust` | `RefusedJustly` | `BackedInv`: what is in the sorted set was charged, at the time it says but for lag and lead |
| `ResetsAdmit`, `RetryAfterRight` | `ResetAdmits`, `RetryAfterClose` | the script admits at every time from the reset on (`AdmittedFromReset`); division with remainder |
| `GatewayProofs!TypeCorrect` | `TypeOK` | one step per action |
| `LiveConfig` | `LiveConfigSound` | `ReloadInv`: the configuration on its way into the pointers has passed every test |
| `SafeShutdown` | `NoUseAfterClose` | `ShutdownInv`: resources go after the drain, the drain leaves no request, a closing server admits none |
| `AuthResolved` | `AuthResolves` | `AuthInv`: soundness is carried from the live configuration to each request in flight |
| `HonestHealth` | `HealthHonest` | `HealthInv`: the backend a probe has read, like that of `cfgPtr` and of a reload under way, is the boot's or has been warned of |
| `ReloadsReported` | `ReloadReported` | `ReportInv`: between the warnings and the stores too; a summary that finds no change means equal routes, since names are unique (`RoutesAssumption`) |
| `RequestPathProofs!AlwaysAnswered` | `Answered` | `Base`, below |
| `CountedRight` | `CountedAsAnswered`: the metric carries the route that served the request and the status sent; the log line the status, and never a route | `Tally`, `Uncounted` |
| `PreflightsFree` | `PreflightFree` | `Preflight` |
| `GuardsPassed` | `GuardsBeforeUpstream` | `Passage` |
| `AuthHolds` | `AuthSound` | `Judged` |
| `AnswersReadable` | `CorsReadable` | `Readable` |
| `RoutedRight` | `RoutedAsDeclared`: in both directions | `Judged`, `Lost` and `Hosts`; `DeclaredFacts`: the router's tests and what a route declares agree on every request |
| `ChargedRight` | `ClientCharged` | `Charges`; `AuthInFront`; `AddressRight`: one line read from its far end gives the client |
| `ForwardedRight` | `ForwardedAsReceived`: the upstream is sent, under the host its route names, the method and the peer of the request that came, with its id and its path as the template of its route makes it; headers and body as they came, unless a transform of the route rewrites requests | `Delivery` |
| `RepliedRight` | `AnsweredAsReplied`: on a route without response transforms, a client whose upstream was called is sent the reply, if it is none the route tries again, its headers and no other but the gateway's own (`OwnHeaders`); or the start of it, when nothing is around the proxy; or one of `Failures`; or the recovery's 500 | `Relay` |

`SingleProbe` is not inductive. `FlightInv` adds that every call in flight at an
open breaker started before it opened: with deadlines below the rest, a breaker
that leaves Open has no call left (`QuietAtTimeout`), so whatever is in flight
in HalfOpen is a probe, and it holds the slot. `ContractKept` maps the state, the
timer and the sets of outstanding calls and probes to the contract's variables
and shows that every step is a step of the contract or a stutter.

The answer of a request says nothing about the moments before it. `HandlerInv`
says for each place of the handler how many attempts are behind it, that all of
them were failures it retries, and that the last entry of `log` is the only
unfinished one; that a late attempt is the last, since both looks at the context
stand between it and another; and that handler and breaker are in step, without
which a breaker's refusal could belong to another attempt.

`RateBound` counts over buckets that come and go, and a bucket may be reused after
it was evicted. `RateInvariant` keeps a `Ledger` instead of a sum: each bucket that
is or was in play has a column, the requests it has admitted are the cells of a
table (`Cells`) as large as the count, and each column is bounded by what its
bucket has earned since the observer looked (`Owed`).

`SlidingBound` speaks of real time and the script only of the times it is given.
`SlidingInv` ties them: what is charged within the window less lag and lead is
still in the sorted set, whatever other scripts trimmed (`RecentKept`), and the
set is never larger than the limit.

`LeakRateInOrder` counts requests, the script a level. `LeakInv` is a balance: as
long as `orderly` holds, what has been charged is at most what is in the bucket
and what has leaked up to the last time stored, and no stored time is ahead of
the clock by more than `MaxLead`. Refusals and repeated executions leave the
balance as it is or better. A key that expires may take a bucket with it that was
not yet empty, even when the scripts run in order: it was touched with a time up to
`MaxLead` ahead of Redis, and is missed by a script whose time is up to `MaxLag`
behind. `Touched` is Redis's time of the last script, at least a `Window` before the
expiry, so what would have been left in the bucket is at most what leaks in `Drift`
ticks (`LeakedLevel`). `Balanced` counts these expiries, and that each took a window
and more. When lag and lead are together at most a tick, `Drift` is 0.

The theorems about the request path hold for every configuration that passes
`Valid`, whatever its length, and for every request. Their common invariant is
`Base`: what has been entered and what is still to come make up the handler
`BuildHandler` made (`Shape`, with the router's part replaced by the route's own
layers once it has chosen); the request in flight is the one that came in, but for
its id, until a transform has it (`Carried`); and `writers` has one response for
the client and one for each transform entered and not left, of which only the
innermost can have been written (`Responses`). On top of it:

* `Tally`: nothing is recorded inside the metrics nor after a panic; outside of
  metrics and logging there is one entry each, and what is still to be left writes
  no more; the line has no route (`Line`). Who is not counted got the answer to a
  panic or a reply that breaks off (`Uncounted`);
* `Preflight`: CORS is the first layer of its route (`Valid` sees to that:
  `CorsOutermost`), so a preflight gets no further than to it and nothing panics;
* `Passage`: `passed` is a prefix of the route's layers, on the way in all that
  have been entered; before the proxy that is the whole chain, which is the listed
  refs less the skipped, in two parts each in the listed order (`SieveOrder`, `TwoParts`, `ListedTimes`);
* `Judged`: for each auth layer in `passed` some provider has vouched
  (`VerdictFacts`, `TokenVouched`, `KeyVouched`); as long as nothing was forwarded,
  a 401 anywhere in `writers` has its auth layer, a 404 is the router's and a 500
  the recovery's (`Writing` says which step writes what);
* `Readable`: from the moment the client's response is written, it carries what
  the CORS layer around the writer has set (`CorsWriter`, `WrittenReadable`), held
  back and released responses included;
* `Charges`: the claims in the context are among those the last authentication in
  `passed` may vouch for, and none are there before there was one (`Claimed`,
  `VerdictClaims`: a provider's claims are its own); every charge so far was right
  when it was made. That address, header and claim are still the ones that came is
  `Carried`: limits stand in front of the transforms;
* `Lost`: a request that no route declares stays among the outer layers, gets the
  router's 404, and nobody replaces it; with `Judged` this gives "exactly when";
* `Delivery`: the request in flight has its id, its body and its route's name, and
  a transform that has no request part changes nothing of it (`TransformKeeps`);
* `Relay`: until the upstream is called, the client's response has only headers of
  the gateway's own, so what `copyHeader` adds is all there is of the others; what
  CORS sets when the status goes out is the gateway's own too (`SameCors`), and
  once it is out nothing replaces it. What may be out then (`Relays`) hangs on the
  route, the reply and nothing else.

`RoutedRight` and `ChargedRight` rest on lemmas about the pure functions, for hosts
and header lines of every length. `HostRight` shows that cutting off the port at
the last colon, lowering the case and comparing the suffix behind a wildcard
(`PortFacts`, `LowFacts`, `SuffixFacts`) is the comparison token by token. It
needs `validateHostPattern`: in a pattern that validation lets through, a "*"
is the first token and a dot follows (`WildcardFirst`). `AddressRight` shows that
the last stranger among the addresses of a line, followed by the trusted peer, is
the entry the code finds (`SieveLast`, `FlatLine`). `AuthInFront` carries what
validation asks of a claim-keyed limit, an auth middleware in front of it, over to
the chain as it is built.

The assumptions on the constants say what the types of the code say: a list in a
file is a sequence (`FamiliesAssumption`, `DefinitionsAssumption`,
`ProvidersAssumption`, `RoutesAssumption`), a request has its six fields and an
upstream answers with a status, goroutines are finitely many (`RateAssumption`,
`RedisAssumption`), a provider that could not be constructed is not there, no
two routes of a valid file share a name (`config.go:345`), hosts and the lines of
`X-Forwarded-For` are sequences (`HostsAssumption`), so are the values of a header
of the reply (`ReplyAssumption`), and a dot, a colon and a star
have no letter case (`LowerAssumption`).

Only model-checked:

* liveness (`Recovers`, `EveryRequestAnswered`, `ReloadNotLost`, `TermHonoured`,
  `ShutdownEnds`), which is outside the prover's reach;
* `RewrittenAsConfigured`. The code goes through maps entry by entry and through
  nested transforms one by one, and so do the model and the property, as folds:
  what a fold computes needs induction over data. Where nothing is folded, on
  routes without transforms in that direction, `ForwardedRight` and `RepliedRight`
  say what the upstream and the client are sent. The property is also not one of every configuration: a transform that
  adds or renames a header to `Content-Length` gets what it asks for, and the
  families have none that does.

## Where the code and its documentation disagree

Kept as runs, with the quotations in `PROJECT.json`:

1. A probe whose `fn` panics leaves `halfOpenProbing` set for good
   (`circuitbreaker.go:146`): the breaker rejects everyone until a restart.
2. A late failure re-opens a half-open breaker and clears the slot of a probe
   that is still out; a second probe follows.
3. The state gauge is written outside the lock and may settle on an old state.
4. A delayed leaky-bucket script sets `last_update` back, and the time between
   leaks twice.
5. The shutdown applies the reloaded `shutdown_timeout` (`main.go:203`), which
   the reload has logged as ignored.

Stated by a property of `request_path`, which passes because it says what the code
does; both are findings in `PROJECT.json` too:

6. A request body that is JSON `null` decodes into a nil map; `inject_fields` then
   panics and the client gets 500 (`transform.go:145`), though `transform.go:122`
   says "Non-JSON or non-object bodies are returned unchanged". The last conjunct
   of `RewrittenAsConfigured` says that this, and nothing else, ends a request in the
   recovery before the upstream is called.
7. The completed-request log reads the route from a context the router never
   writes (`logging.go:33`), though README line 380 says "Every request is logged
   with method, path, status, latency, request ID, and route name."
   `CountedAsAnswered` says that the line's route is always "unknown", and that a
   request that panicked has no line and is not counted either.

Met while modelling, and not kept as runs:

* A SIGTERM sent while a SIGHUP waits in `sigCh` is dropped by the runtime
  (`main.go:173`; README "Handles `SIGINT` and `SIGTERM`"). `TermHonoured`
  therefore speaks of a SIGTERM that found room.
* A reload that defines a new auth provider and assigns it is accepted, and
  requests that get as far as that provider end with 500 (`auth.go:90`;
  `docs/hot-reload.md` "only reloadable parts are applied"). `AuthResolves`
  says that this is the only way to get there.
* After a reload that names another backend, `/health` drops the check of the
  limiter in use or reports `not_configured` (`health.go:37`). `HealthHonest`
  says that a warning came first, and that 503 is never false.
* A reload compares the new file with the last one that was loaded, not with the
  settings of the boot: going back to what the process really runs on is warned of
  as well. `leaky_bucket` passes a reload whose file says "redis" although the
  process has the memory limiter of its boot.
* With a breaker on the route, a 5xx that is not in `retryable_status_codes` is
  retried (`retry.go:162`), and a request that finds the circuit open is not
  retried at all (`retry.go:157`; README "retries are attempted when the circuit
  opens").
* `evictionTTL` is fixed: with a longer window an idle key's half-empty bucket
  comes back full (`memory.go:108`). `StaleIsFull` holds when the window and the
  delay of a goroutine are together at most a tick more than the TTL
  (`EvictedFull`). A bucket used between test and delete is evicted although it is
  fresh (`memory.go:111`); `RateBound` counts it as one more bucket in play.
* `Retry-After` subtracts two times cut to seconds and may be up to a second
  short (`ratelimit.go:107`); `RetryAfterClose` says no more than that.
* One rate-limit ref listed twice in an effective chain shares one key, though
  instances are said to have "distinct keys" (`ratelimit.go:66`).
* A claim-keyed limit behind an auth with the provider "none" passes validation
  and falls back to the address (`config.go:470`).

Of the request path, each visible in the model and allowed for by the property
that would otherwise fail:

* A key renamed to itself is deleted (`transform.go:140`).
* Renames that feed each other (`a` to `b`, `b` to `c`), and path values that hold
  another placeholder, come out differently from run to run, with the order of a
  map (`transform.go:106`, `transform.go:137`, `proxy.go:66`).
* A response over the transform's limit makes the copy of the body fail; without
  a retry or a breaker in between `ReverseProxy` panics, and the client gets 500
  instead of the 502 of `transform.go:221`.
* The 500 of the recovery carries no CORS headers. An origin that is not allowed
  leaves the `Access-Control-Allow-Origin` the upstream has set
  (`cors.go:141`).
* OPTIONS passes a route's list of methods, preflight or not (`router.go:180`).
  A host is cut at its last colon, also inside an IPv6 literal without a port, and
  a pattern with a port matches no host that has one.
* Only the first `X-Forwarded-For` line is read (`ratelimit.go:215`): behind a
  proxy that adds a line of its own, the client's line decides. `ClientCharged`
  therefore speaks of addresses in one line. `${client_ip}` is the first entry,
  whoever wrote it (`transform.go:79`). Addresses are keyed as they are spelled.
* An empty header falls back to the address, an empty claim does not and is one
  key for everybody who has it; a number and a string of the same text share one.
* Introspection does not look at the audience (`oidc.go:152`), and its claims are
  `sub`, `client_id` and `active` alone: a limit by any other claim falls back to
  the address.
* A second auth middleware replaces the result of the first; "none" keeps it.

## Not modelled

* Environment placeholders, defaults and the JSON schema (`schema.go`,
  `config.go:223-333`): they turn text into text before anything here starts. A
  file that fails there is one that does not load.
* Signatures, key files, key sets and discovery, which are in libraries; back-off
  lengths, times in variables, latencies; rounding of float64 and Lua numbers.
* What `net/http` does to proxied headers, and connections as such.
* The upstream URL's own path, which `Director` ignores; wording of errors and
  logs.
* `gateway validate` and `gateway schema`, which run the same checks and exit.

## Plan

Done: the modules above, in the order breaker, contract, retry, memory limiter,
Redis limiter, process, pipeline, request path; then one Redis specification for
both algorithms, reports, health and grace of the process, and the pure functions
of the request path; then proofs of every safety property of the runs but
`RewrittenAsConfigured`.

Next: an abstract limiter that both backends implement.
