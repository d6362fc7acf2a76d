----------------------------- MODULE Resilience -----------------------------
(***************************************************************************)
(* The handler that pipeline.wrapResilience puts around a route's proxy:   *)
(* retry and circuit breaker, either alone or the first around the second. *)
(* The callers of the breaker are the requests in service on the route;    *)
(* each runs one ServeHTTP, and every attempt of it is one Execute.        *)
(*                                                                         *)
(* The proxy answers with some status, or panics half-way through a body.  *)
(* The client of a request may go away at any time, which cancels the      *)
(* request's context; the handler looks at the context only between        *)
(* attempts.  Back-off delays are left out: a sleep may take any time.     *)
(***************************************************************************)
EXTENDS CircuitBreaker, Sequences, FiniteSets

CONSTANTS
  MaxRetries,            \* cfg.MaxRetries
  Statuses,              \* the status codes upstream may answer with
  RetryableStatusCodes   \* cfg.RetryableStatusCodes

ASSUME ResilienceAssumption ==
  /\ MaxRetries \in Nat
  /\ Statuses \subseteq Nat
  /\ RetryableStatusCodes \subseteq Nat

VARIABLES
  route,   \* what the route's configuration has: circuit_breaker, retry
  at,      \* where each request is in ServeHTTP
  log,     \* its attempts so far: was the client gone already, which status
  gone,    \* requests whose client has disconnected
  answer   \* what the request was answered with, "none" before

breaker == vars
handler == <<at, log, gone, answer>>
allVars == <<breaker, route, handler>>

HasBreaker == route.breaker
HasRetry == route.retry

maxAttempts == IF HasRetry THEN MaxRetries + 1 ELSE 1

\* body: reading the request body; again, asleep: at the first and the second
\* look at the context; ready: about to run an attempt; proxy: in the proxy;
\* ran: the attempt has returned and onStateChange may still be running.
Places == {"body", "again", "asleep", "ready", "proxy", "ran", "done"}

\* The handler's own answers, and the response of the last attempt.
Answers == {"none", "upstream", "open", "exhausted", "client_closed",
            "body_unread", "body_too_large", "internal_error"}

InProgress == 0

\* wrapResilience leaves the proxy alone when a route has neither.
Routes == {w \in [breaker : BOOLEAN, retry : BOOLEAN] : w.breaker \/ w.retry}

RInit ==
  /\ Init
  /\ route \in Routes
  /\ at = [r \in Callers |-> IF HasRetry THEN "body" ELSE "ready"]
  /\ log = [r \in Callers |-> <<>>]
  /\ gone = {}
  /\ answer = [r \in Callers |-> "none"]

Goto(r, place) ==
  /\ at' = [at EXCEPT ![r] = place]
  /\ UNCHANGED answer

Answer(r, what) ==
  /\ at' = [at EXCEPT ![r] = "done"]
  /\ answer' = [answer EXCEPT ![r] = what]

-----------------------------------------------------------------------------
Disconnect(r) ==
  /\ at[r] # "done"
  /\ r \notin gone
  /\ gone' = gone \cup {r}
  /\ UNCHANGED <<breaker, at, log, answer>>

BufferBody(r) ==
  /\ at[r] = "body"
  /\ \/ Goto(r, "ready")
     \/ Answer(r, "body_unread")
     \/ Answer(r, "body_too_large")
  /\ UNCHANGED <<breaker, log, gone>>

\* Fault: the context is not looked at.
CheckContext_Ignored(r, place) == Goto(r, place)

CheckContext(r, place) ==
  \/ r \in gone /\ Answer(r, "client_closed")
  \/ r \notin gone /\ Goto(r, place)

\* The handler looks at the context before it sleeps, and again after.
BeforeSleep(r) ==
  /\ at[r] = "again"
  /\ CheckContext(r, "asleep")
  /\ UNCHANGED <<breaker, log, gone>>

AfterSleep(r) ==
  /\ at[r] = "asleep"
  /\ CheckContext(r, "ready")
  /\ UNCHANGED <<breaker, log, gone>>

\* The attempt reaches the proxy, through the breaker if there is one.
StartAttempt(r) ==
  /\ at[r] = "ready"
  /\ IF HasBreaker THEN Admit(r) ELSE UNCHANGED breaker
  /\ Goto(r, "proxy")
  /\ log' = [log EXCEPT ![r] = Append(@, [late |-> r \in gone, code |-> InProgress])]
  /\ UNCHANGED gone

\* Fault: a refused attempt is retried like a failed one.
Refused_Retried(r) ==
  /\ at[r] = "ready"
  /\ HasBreaker /\ Reject(r)
  /\ IF HasRetry /\ Len(log[r]) < MaxRetries
     THEN Goto(r, "again")
     ELSE Answer(r, "exhausted")
  /\ UNCHANGED <<log, gone>>

\* Fault: a caller that finds the circuit open waits instead of failing fast.
Refused_Waits(r) ==
  /\ at[r] = "ready"
  /\ HasBreaker /\ Reject(r)
  /\ UNCHANGED handler

\* Execute returns ErrCircuitOpen: 503, whatever attempts are left.
Refused(r) ==
  /\ at[r] = "ready"
  /\ HasBreaker /\ Reject(r)
  /\ Answer(r, "open")
  /\ UNCHANGED <<log, gone>>

FinishAttempt(r, code) ==
  /\ at[r] = "proxy"
  /\ IF HasBreaker THEN Complete(r, code < 500) ELSE UNCHANGED breaker
  /\ log' = [log EXCEPT ![r][Len(log[r])].code = code]
  /\ Goto(r, "ran")
  /\ UNCHANGED gone

\* A panic of the proxy unwinds through the handler to the recovery
\* middleware, which answers 500.
PanicAttempt(r) ==
  /\ at[r] = "proxy"
  /\ IF HasBreaker THEN Panic(r) ELSE FnPanics /\ UNCHANGED breaker
  /\ Answer(r, "internal_error")
  /\ UNCHANGED <<log, gone>>

\* Fault: every 5xx is retried, breaker or not.
Retries_AnyServerError(code) == HasRetry /\ (code >= 500 \/ code \in RetryableStatusCodes)

\* With a breaker every 5xx is an error of Execute and is retried, listed or
\* not.
Retries(code) ==
  /\ HasRetry
  /\ \/ HasBreaker /\ code >= 500
     \/ code \in RetryableStatusCodes

\* Fault: one attempt too many.
Settle_OneMore(r) ==
  /\ at[r] = "ran"
  /\ pc[r] = "idle"
  /\ LET failed == Retries(log[r][Len(log[r])].code)
     IN  \/ ~failed /\ Answer(r, "upstream")
         \/ failed /\ Len(log[r]) <= maxAttempts /\ Goto(r, "again")
         \/ failed /\ Len(log[r]) > maxAttempts /\ Answer(r, "exhausted")
  /\ UNCHANGED <<breaker, log, gone>>

Settle(r) ==
  /\ at[r] = "ran"
  /\ pc[r] = "idle"
  /\ LET failed == Retries(log[r][Len(log[r])].code)
     IN  \/ ~failed /\ Answer(r, "upstream")
         \/ failed /\ Len(log[r]) < maxAttempts /\ Goto(r, "again")
         \/ failed /\ Len(log[r]) >= maxAttempts /\ Answer(r, "exhausted")
  /\ UNCHANGED <<breaker, log, gone>>

Callback(r) == (SetTo(r) \/ ClearFrom(r)) /\ UNCHANGED handler

Clock == HasBreaker /\ Tick /\ UNCHANGED handler

Step(r) ==
  \/ BufferBody(r)
  \/ BeforeSleep(r)
  \/ AfterSleep(r)
  \/ StartAttempt(r)
  \/ Refused(r)
  \/ \E code \in Statuses : FinishAttempt(r, code)
  \/ PanicAttempt(r)
  \/ Settle(r)
  \/ Callback(r)

RNext ==
  /\ Clock \/ \E r \in Callers : Disconnect(r) \/ Step(r)
  /\ UNCHANGED route

\* Goroutines are scheduled fairly, sleeps end, and the deadline of the proxy
\* ends every attempt.
RSpec == RInit /\ [][RNext]_allVars /\ \A r \in Callers : WF_allVars(Step(r) /\ UNCHANGED route)

-----------------------------------------------------------------------------
\* No request makes more than max_retries + 1 attempts, it is answered once it
\* has left the handler, and handler and breaker stay in step: a request is
\* in the proxy exactly while the breaker counts it as running.
ResilienceTypeOK ==
  /\ TypeOK
  /\ route \in Routes
  /\ at \in [Callers -> Places]
  /\ log \in [Callers -> UNION {[1..n -> [late : BOOLEAN, code : Statuses \cup {InProgress}]]
                                  : n \in 0..maxAttempts}]
  /\ gone \subseteq Callers
  /\ answer \in [Callers -> Answers]
  /\ \A r \in Callers : at[r] = "done" <=> answer[r] # "none"
  /\ HasBreaker => \A r \in Callers : at[r] = "proxy" <=> InCall(r)

Tried(r) == Len(log[r])
AllFailed(r, n) == \A i \in 1..n : Retries(log[r][i].code)

\* An answer is what the attempts say: a response is passed on only when it is
\* the first that is not retried, "failed after n attempts" is said only after
\* n real failures upstream, and an attempt is given up between failures only.
AnswerMatchesAttempts ==
  \A r \in Callers :
    /\ answer[r] = "upstream" =>
         /\ Tried(r) > 0
         /\ AllFailed(r, Tried(r) - 1)
         /\ ~Retries(log[r][Tried(r)].code)
    /\ answer[r] = "exhausted" => Tried(r) = maxAttempts /\ AllFailed(r, maxAttempts)
    /\ answer[r] = "client_closed" =>
         r \in gone /\ Tried(r) \in 1..maxAttempts - 1 /\ AllFailed(r, Tried(r))
    /\ answer[r] = "open" => Tried(r) < maxAttempts /\ AllFailed(r, Tried(r))

\* However the disconnect races with the two looks at the context, at most one
\* attempt is sent upstream for a client that has gone.
OneAttemptForTheGone ==
  \A r \in Callers : Cardinality({i \in 1..Tried(r) : log[r][i].late}) <= 1

\* Every request is answered, whatever the breaker, the upstream and the client
\* do.
EveryRequestAnswered == \A r \in Callers : <>(answer[r] # "none")

\* RetryConfig: retryable_status_codes are the "HTTP status codes that trigger
\* a retry": without a breaker every attempt but the first follows a listed
\* status.  (A breaker makes every 5xx an error, which is retried too.)
OnlyListedCodesRetried ==
  HasBreaker \/ \A r \in Callers : \A i \in 1..Tried(r) - 1 :
                  log[r][i].code \in RetryableStatusCodes

=============================================================================
