-------------------------- MODULE ResilienceProofs --------------------------
(***************************************************************************)
(* Proofs about Resilience, for any set of requests, any number of retries *)
(* and any status codes, with and without a breaker.                       *)
(***************************************************************************)
EXTENDS Resilience, CircuitBreakerProofs, SequenceTheorems, FiniteSetTheorems

USE BreakerAssumption, ResilienceAssumption

(***************************************************************************)
(* The breaker inside the handler.                                         *)
(***************************************************************************)

\* Whatever the handler does, the breaker makes a step of its own or none.
LEMMA BreakerStep == [RNext]_allVars => [Next]_vars
<1> SUFFICES ASSUME [RNext]_allVars PROVE [Next]_vars
  OBVIOUS
<1>1. CASE Clock
  BY <1>1 DEF Clock, Next
<1>2. ASSUME NEW r \in Callers, Disconnect(r) PROVE [Next]_vars
  BY <1>2 DEF Disconnect, breaker
<1>3. ASSUME NEW r \in Callers, BufferBody(r) \/ BeforeSleep(r) \/ AfterSleep(r) \/ Settle(r)
      PROVE  [Next]_vars
  BY <1>3 DEF BufferBody, BeforeSleep, AfterSleep, Settle, breaker
<1>4. ASSUME NEW r \in Callers, StartAttempt(r) PROVE [Next]_vars
  BY <1>4 DEF StartAttempt, Admit, Next, breaker
<1>5. ASSUME NEW r \in Callers, Refused(r) PROVE [Next]_vars
  BY <1>5 DEF Refused, Next
<1>6. ASSUME NEW r \in Callers, NEW code \in Statuses, FinishAttempt(r, code) PROVE [Next]_vars
  <2>1. (code < 500) \in BOOLEAN
    OBVIOUS
  <2>2. QED
    BY <1>6, <2>1 DEF FinishAttempt, Next, breaker
<1>7. ASSUME NEW r \in Callers, PanicAttempt(r) PROVE [Next]_vars
  BY <1>7 DEF PanicAttempt, Next, breaker
<1>8. ASSUME NEW r \in Callers, Callback(r) PROVE [Next]_vars
  BY <1>8 DEF Callback, Next
<1>9. CASE UNCHANGED allVars
  BY <1>9 DEF allVars, breaker
<1>10. QED
  BY <1>1, <1>2, <1>3, <1>4, <1>5, <1>6, <1>7, <1>8, <1>9 DEF RNext, Step

\* Behind retries, with any number of attempts per request, the breaker behaves
\* as it does on its own, so what is proved of CircuitBreaker holds here.
THEOREM BreakerUnderRetries == RSpec => Spec
<1>1. RInit => Init
  BY DEF RInit
<1>2. QED
  BY <1>1, BreakerStep, PTL DEF RSpec, Spec

(***************************************************************************)
(* The invariant of one request.                                           *)
(***************************************************************************)

Attempts == [late : BOOLEAN, code : Statuses \cup {InProgress}]

\* Where the handler is says how many attempts it has made and that all of
\* them, but the one it is in, were failures it retries.
Counted(r) ==
  /\ Tried(r) <= maxAttempts
  /\ at[r] = "body" => Tried(r) = 0
  /\ at[r] = "ready" => Tried(r) < maxAttempts
  /\ at[r] \in {"again", "asleep"} => Tried(r) \in 1..maxAttempts - 1
  /\ at[r] \in {"proxy", "ran"} => Tried(r) > 0
  /\ AllFailed(r, Tried(r) - 1)
  /\ at[r] \in {"ready", "again", "asleep"} => AllFailed(r, Tried(r))

\* A late attempt is the last one, its client is gone, and the handler has not
\* looked at the context since.
LateIsLast(r) ==
  \A i \in 1..Tried(r) :
    log[r][i].late => /\ i = Tried(r)
                      /\ r \in gone
                      /\ at[r] \notin {"asleep", "ready"}

\* The breaker runs the request exactly while it is in the proxy, and its last
\* callback while the attempt has returned.
InStep(r) ==
  /\ HasBreaker => (at[r] = "proxy" <=> InCall(r))
  /\ ~HasBreaker => pc[r] = "idle"
  /\ pc[r] \in {"post", "postClear"} => at[r] = "ran"

Justified(r) ==
  /\ answer[r] = "upstream" =>
       /\ Tried(r) > 0
       /\ AllFailed(r, Tried(r) - 1)
       /\ ~Retries(log[r][Tried(r)].code)
  /\ answer[r] = "exhausted" => Tried(r) = maxAttempts /\ AllFailed(r, maxAttempts)
  /\ answer[r] = "client_closed" =>
       r \in gone /\ Tried(r) \in 1..maxAttempts - 1 /\ AllFailed(r, Tried(r))
  /\ answer[r] = "open" => Tried(r) < maxAttempts /\ AllFailed(r, Tried(r))

HandlerType ==
  /\ route \in Routes
  /\ at \in [Callers -> Places]
  /\ log \in [Callers -> Seq(Attempts)]
  /\ gone \subseteq Callers
  /\ answer \in [Callers -> Answers]

RequestInv(r) ==
  /\ at[r] = "done" <=> answer[r] # "none"
  /\ Counted(r)
  /\ LateIsLast(r)
  /\ InStep(r)
  /\ Justified(r)

HandlerInv == TypeOK /\ HandlerType /\ \A r \in Callers : RequestInv(r)

\* A request that a step does not touch keeps its invariant: clients only go.
LEMMA RequestFrame ==
  ASSUME NEW q \in Callers, RequestInv(q), route' = route,
         at'[q] = at[q], log'[q] = log[q], answer'[q] = answer[q], pc'[q] = pc[q],
         gone \subseteq gone'
  PROVE  RequestInv(q)'
<1> USE DEF Tried, HasRetry, HasBreaker, maxAttempts
<1>1. \A code : Retries(code)' <=> Retries(code)
  BY DEF Retries
<1>2. \A n : AllFailed(q, n)' <=> AllFailed(q, n)
  BY <1>1 DEF AllFailed
<1>3. Counted(q)'
  BY <1>2 DEF RequestInv, Counted
<1>4. LateIsLast(q)'
  BY DEF RequestInv, LateIsLast
<1>5. InStep(q)'
  BY DEF RequestInv, InStep, InCall
<1>6. Justified(q)'
  BY <1>1, <1>2 DEF RequestInv, Justified
<1>7. QED
  BY <1>3, <1>4, <1>5, <1>6 DEF RequestInv

\* A step of request r leaves every other request alone.
LEMMA OthersKeep ==
  ASSUME HandlerType, TypeOK, NEW r \in Callers, Disconnect(r) \/ Step(r),
         NEW q \in Callers \ {r}
  PROVE  /\ at'[q] = at[q]
         /\ log'[q] = log[q]
         /\ answer'[q] = answer[q]
         /\ pc'[q] = pc[q]
         /\ gone \subseteq gone'
<1> USE DEF HandlerType, TypeOK, Goto, Answer
<1>1. CASE Disconnect(r)
  BY <1>1 DEF Disconnect, breaker, vars
<1>2. CASE BufferBody(r)
  BY <1>2 DEF BufferBody, breaker, vars
<1>3. CASE BeforeSleep(r) \/ AfterSleep(r)
  BY <1>3 DEF BeforeSleep, AfterSleep, CheckContext, breaker, vars
<1>4. CASE StartAttempt(r)
  BY <1>4 DEF StartAttempt, Admit, AdmitClosed, AdmitProbe, EnterHalfOpen, breaker, vars
<1>5. CASE Refused(r)
  BY <1>5 DEF Refused, Reject, vars
<1>6. ASSUME NEW code \in Statuses, FinishAttempt(r, code)
      PROVE  /\ at'[q] = at[q] /\ log'[q] = log[q] /\ answer'[q] = answer[q]
             /\ pc'[q] = pc[q] /\ gone' = gone
  <2>1. pc'[q] = pc[q]
    BY <1>6 DEF FinishAttempt, Complete, breaker, vars
  <2>2. log'[q] = log[q]
    BY <1>6 DEF FinishAttempt
  <2>3. QED
    BY <1>6, <2>1, <2>2 DEF FinishAttempt
<1>7. CASE PanicAttempt(r)
  BY <1>7 DEF PanicAttempt, Panic, breaker, vars
<1>8. CASE Settle(r)
  BY <1>8 DEF Settle, breaker, vars
<1>9. CASE Callback(r)
  BY <1>9 DEF Callback, SetTo, ClearFrom, handler
<1>10. QED
  BY <1>1, <1>2, <1>3, <1>4, <1>5, <1>6, <1>7, <1>8, <1>9 DEF Step

\* The steps that make no attempt: reading the body, the two looks at the
\* context, a refusal, a panic, the verdict on an attempt, a callback.
LEMMA SilentStep ==
  ASSUME HandlerInv, NEW r \in Callers, route' = route,
         \/ Disconnect(r)
         \/ BufferBody(r) \/ BeforeSleep(r) \/ AfterSleep(r)
         \/ Refused(r) \/ PanicAttempt(r) \/ Settle(r) \/ Callback(r)
  PROVE  HandlerType' /\ RequestInv(r)'
<1> USE DEF Tried, HasRetry, HasBreaker, maxAttempts
<1>0. HandlerType /\ TypeOK /\ RequestInv(r)
  BY DEF HandlerInv
<1>1. log' = log
  BY DEF Disconnect, BufferBody, BeforeSleep, AfterSleep, Refused, PanicAttempt, Settle,
         Callback, handler
<1>2. \A code : Retries(code)' <=> Retries(code)
  BY DEF Retries
<1>3. \A n : AllFailed(r, n)' <=> AllFailed(r, n)
  BY <1>1, <1>2 DEF AllFailed
<1>4. /\ Tried(r) \in Nat
      /\ maxAttempts \in Nat
      /\ Tried(r) = maxAttempts - 1 => maxAttempts > 0
  BY <1>0, LenProperties DEF HandlerType
<1> USE DEF Goto, Answer
<1>5. CASE Disconnect(r)
  <2>1. HandlerType'
    BY <1>0, <1>5 DEF Disconnect, HandlerType
  <2>2. RequestInv(r)'
    BY <1>0, <1>5, RequestFrame DEF Disconnect, breaker, vars
  <2>3. QED
    BY <2>1, <2>2
<1>6. CASE BufferBody(r)
  <2>1. HandlerType'
    BY <1>0, <1>6 DEF BufferBody, HandlerType, Places, Answers
  <2>2. Counted(r)'
    BY <1>0, <1>1, <1>3, <1>4, <1>6 DEF BufferBody, HandlerType, RequestInv, Counted, AllFailed
  <2>3. LateIsLast(r)'
    BY <1>0, <1>1, <1>6 DEF BufferBody, HandlerType, RequestInv, Counted, LateIsLast
  <2>4. InStep(r)'
    BY <1>0, <1>6 DEF BufferBody, HandlerType, RequestInv, InStep, InCall, breaker, vars
  <2>5. Justified(r)'
    BY <1>0, <1>1, <1>2, <1>3, <1>6 DEF BufferBody, HandlerType, RequestInv, Justified
  <2>6. (at[r] = "done" <=> answer[r] # "none")'
    BY <1>0, <1>6 DEF BufferBody, HandlerType, RequestInv
  <2>7. QED
    BY <2>1, <2>2, <2>3, <2>4, <2>5, <2>6 DEF RequestInv
<1>7. CASE BeforeSleep(r) \/ AfterSleep(r)
  <2> USE DEF BeforeSleep, AfterSleep, CheckContext
  <2>1. HandlerType'
    BY <1>0, <1>7 DEF HandlerType, Places, Answers
  <2>2. Counted(r)'
    BY <1>0, <1>1, <1>3, <1>4, <1>7 DEF HandlerType, RequestInv, Counted
  <2>3. LateIsLast(r)'
    BY <1>0, <1>1, <1>7 DEF HandlerType, RequestInv, LateIsLast
  <2>4. InStep(r)'
    BY <1>0, <1>7 DEF HandlerType, RequestInv, InStep, InCall, breaker, vars
  <2>5. Justified(r)'
    BY <1>0, <1>1, <1>2, <1>3, <1>7 DEF HandlerType, RequestInv, Justified, Counted
  <2>6. (at[r] = "done" <=> answer[r] # "none")'
    BY <1>0, <1>7 DEF HandlerType, RequestInv
  <2>7. QED
    BY <2>1, <2>2, <2>3, <2>4, <2>5, <2>6 DEF RequestInv
<1>8. CASE Refused(r)
  <2> USE DEF Refused
  <2>1. HandlerType'
    BY <1>0, <1>8 DEF HandlerType, Places, Answers
  <2>2. Counted(r)'
    BY <1>0, <1>1, <1>3, <1>4, <1>8 DEF HandlerType, RequestInv, Counted
  <2>3. LateIsLast(r)'
    BY <1>0, <1>1, <1>8 DEF HandlerType, RequestInv, LateIsLast
  <2>4. InStep(r)'
    BY <1>0, <1>8 DEF HandlerType, RequestInv, InStep, InCall, Reject, vars
  <2>5. Justified(r)'
    BY <1>0, <1>1, <1>2, <1>3, <1>8 DEF HandlerType, RequestInv, Justified, Counted
  <2>6. (at[r] = "done" <=> answer[r] # "none")'
    BY <1>0, <1>8 DEF HandlerType, RequestInv
  <2>7. QED
    BY <2>1, <2>2, <2>3, <2>4, <2>5, <2>6 DEF RequestInv
<1>9. CASE PanicAttempt(r)
  <2> USE DEF PanicAttempt
  <2>1. HandlerType'
    BY <1>0, <1>9 DEF HandlerType, Places, Answers
  <2>2. Counted(r)'
    BY <1>0, <1>1, <1>3, <1>4, <1>9 DEF HandlerType, RequestInv, Counted
  <2>3. LateIsLast(r)'
    BY <1>0, <1>1, <1>9 DEF HandlerType, RequestInv, LateIsLast
  <2>4. InStep(r)'
    BY <1>0, <1>9 DEF HandlerType, TypeOK, RequestInv, InStep, InCall, Panic, breaker, vars
  <2>5. Justified(r)'
    BY <1>0, <1>1, <1>2, <1>3, <1>9 DEF HandlerType, RequestInv, Justified, Counted
  <2>6. (at[r] = "done" <=> answer[r] # "none")'
    BY <1>0, <1>9 DEF HandlerType, RequestInv
  <2>7. QED
    BY <2>1, <2>2, <2>3, <2>4, <2>5, <2>6 DEF RequestInv
<1>10. CASE Settle(r)
  <2> USE DEF Settle
  <2>1. HandlerType'
    BY <1>0, <1>10 DEF HandlerType, Places, Answers
  <2>2. Retries(log[r][Tried(r)].code) => AllFailed(r, Tried(r))
    BY <1>0, <1>4, <1>10 DEF RequestInv, Counted, AllFailed
  <2>3. Counted(r)'
    BY <1>0, <1>1, <1>3, <1>4, <1>10, <2>2 DEF HandlerType, RequestInv, Counted
  <2>4. LateIsLast(r)'
    BY <1>0, <1>1, <1>10 DEF HandlerType, RequestInv, LateIsLast
  <2>5. InStep(r)'
    BY <1>0, <1>10 DEF HandlerType, RequestInv, InStep, InCall, breaker, vars
  <2>6. Justified(r)'
    <3> DEFINE failed == Retries(log[r][Tried(r)].code)
    <3>1. /\ at \in [Callers -> Places] /\ answer \in [Callers -> Answers]
          /\ Tried(r) > 0 /\ Tried(r) <= maxAttempts /\ AllFailed(r, Tried(r) - 1)
          /\ answer[r] = "none"
      BY <1>0, <1>10 DEF HandlerType, RequestInv, Counted
    <3>2. \/ ~failed /\ answer'[r] = "upstream"
          \/ answer'[r] = "none"
          \/ failed /\ Tried(r) >= maxAttempts /\ answer'[r] = "exhausted"
      BY <1>10, <3>1
    <3>3. CASE ~failed /\ answer'[r] = "upstream"
      BY <1>1, <1>2, <1>3, <3>1, <3>3 DEF Justified
    <3>4. CASE answer'[r] = "none"
      BY <3>4 DEF Justified
    <3>5. CASE failed /\ Tried(r) >= maxAttempts /\ answer'[r] = "exhausted"
      <4>1. Tried(r) = maxAttempts
        BY <1>4, <3>1, <3>5
      <4>2. maxAttempts' = maxAttempts
        OBVIOUS
      <4>3. Tried(r)' = maxAttempts' /\ AllFailed(r, maxAttempts)'
        BY <1>1, <1>3, <2>2, <3>5, <4>1, <4>2
      <4>4. QED
        BY <3>5, <4>3 DEF Justified
    <3>6. QED
      BY <3>2, <3>3, <3>4, <3>5
  <2>7. (at[r] = "done" <=> answer[r] # "none")'
    BY <1>0, <1>10 DEF HandlerType, RequestInv
  <2>8. QED
    BY <2>1, <2>3, <2>4, <2>5, <2>6, <2>7 DEF RequestInv
<1>11. CASE Callback(r)
  <2>1. /\ HandlerType'
        /\ at' = at /\ answer' = answer /\ gone' = gone
    BY <1>0, <1>11 DEF Callback, handler, HandlerType
  <2>2. InStep(r)'
    BY <1>0, <1>11, <2>1 DEF Callback, SetTo, ClearFrom, TypeOK, RequestInv, InStep, InCall
  <2>3. Counted(r)'
    BY <1>0, <1>1, <1>3, <2>1 DEF RequestInv, Counted
  <2>4. LateIsLast(r)'
    BY <1>0, <1>1, <2>1 DEF RequestInv, LateIsLast
  <2>5. Justified(r)'
    BY <1>0, <1>1, <1>2, <1>3, <2>1 DEF RequestInv, Justified
  <2>6. QED
    BY <1>0, <2>1, <2>2, <2>3, <2>4, <2>5 DEF RequestInv
<1>12. QED
  BY <1>5, <1>6, <1>7, <1>8, <1>9, <1>10, <1>11

\* An attempt starts: it is the next one, and late if the client is gone.
LEMMA StartStep ==
  ASSUME HandlerInv, NEW r \in Callers, route' = route, StartAttempt(r)
  PROVE  HandlerType' /\ RequestInv(r)'
<1> DEFINE s == log[r]
           e == [late |-> r \in gone, code |-> InProgress]
<1>0. HandlerType /\ TypeOK /\ RequestInv(r) /\ at[r] = "ready"
  BY DEF HandlerInv, StartAttempt
<1>1. s \in Seq(Attempts) /\ e \in Attempts /\ Len(s) \in Nat
  <2>1. s \in Seq(Attempts)
    BY <1>0 DEF HandlerType
  <2>2. Len(s) \in Nat
    BY <2>1, LenProperties
  <2>3. \A b \in BOOLEAN : [late |-> b, code |-> InProgress] \in Attempts
    BY DEF Attempts
  <2>4. (r \in gone) \in BOOLEAN
    OBVIOUS
  <2>5. e \in Attempts
    BY <2>3, <2>4, Zenon
  <2>6. QED
    BY <2>1, <2>2, <2>5
<1>2. /\ log' = [log EXCEPT ![r] = Append(s, e)]
      /\ log'[r] = Append(s, e)
  BY <1>0 DEF StartAttempt, HandlerType
<1> HIDE DEF e
<1>3. /\ Len(log'[r]) = Len(s) + 1
      /\ \A i \in 1..Len(s) : log'[r][i] = s[i]
      /\ log'[r][Len(s) + 1] = e
      /\ log'[r] \in Seq(Attempts)
  BY <1>1, <1>2, AppendProperties
<1> HIDE DEF s
<1>4. /\ at' = [at EXCEPT ![r] = "proxy"] /\ at'[r] = "proxy"
      /\ answer' = answer /\ gone' = gone
      /\ answer[r] = "none"
  BY <1>0 DEF StartAttempt, Goto, HandlerType, RequestInv
<1>5. HandlerType'
  BY <1>0, <1>2, <1>3, <1>4 DEF HandlerType, Places
<1>6. \A code : Retries(code)' <=> Retries(code)
  BY DEF Retries, HasRetry, HasBreaker
<1>7. /\ maxAttempts \in Nat /\ maxAttempts' = maxAttempts
      /\ Len(s) < maxAttempts
      /\ \A i \in 1..Len(s) : Retries(s[i].code)
      /\ \A i \in 1..Len(s) : ~s[i].late
  BY <1>0, <1>1 DEF RequestInv, Counted, AllFailed, LateIsLast, Tried, maxAttempts, HasRetry, s
<1>8. Counted(r)'
  <2>1. Tried(r)' = Len(s) + 1
    BY <1>3 DEF Tried
  <2>2. AllFailed(r, Tried(r) - 1)'
    BY <1>1, <1>3, <1>6, <1>7, <2>1 DEF AllFailed
  <2>3. QED
    BY <1>1, <1>4, <1>7, <2>1, <2>2 DEF Counted
<1>9. LateIsLast(r)'
  <2>1. e.late => r \in gone
    BY Zenon DEF e
  <2>2. QED
    BY <1>1, <1>3, <1>4, <1>7, <2>1 DEF LateIsLast, Tried
<1>10. InStep(r)'
  <2>1. CASE HasBreaker
    BY <1>0, <1>4, <2>1 DEF StartAttempt, Admit, AdmitClosed, AdmitProbe, EnterHalfOpen,
       TypeOK, InStep, InCall, HasBreaker
  <2>2. CASE ~HasBreaker
    BY <1>0, <1>4, <2>2 DEF StartAttempt, RequestInv, InStep, InCall, HasBreaker, breaker, vars
  <2>3. QED
    BY <2>1, <2>2
<1>11. Justified(r)'
  BY <1>4 DEF Justified
<1>12. QED
  BY <1>4, <1>5, <1>8, <1>9, <1>10, <1>11 DEF RequestInv

\* An attempt ends: its status is written down, nothing else.
LEMMA FinishStep ==
  ASSUME HandlerInv, NEW r \in Callers, NEW code \in Statuses, route' = route,
         FinishAttempt(r, code)
  PROVE  HandlerType' /\ RequestInv(r)'
<1> DEFINE s == log[r]
           n == Len(s)
           e == [s[n] EXCEPT !.code = code]
<1>0. HandlerType /\ TypeOK /\ RequestInv(r) /\ at[r] = "proxy"
  BY DEF HandlerInv, FinishAttempt
<1>1. s \in Seq(Attempts) /\ n \in Nat /\ n \in 1..n
  BY <1>0, LenProperties DEF HandlerType, RequestInv, Counted, Tried
<1>2. /\ s[n] \in Attempts
      /\ e \in Attempts
      /\ e.late = s[n].late
  <2>1. s[n] \in Attempts
    BY <1>1, ElementOfSeq
  <2> HIDE DEF s, n
  <2>2. QED
    BY <2>1 DEF Attempts
<1>3. /\ log' = [log EXCEPT ![r] = [s EXCEPT ![n] = e]]
      /\ log'[r] = [s EXCEPT ![n] = e]
  BY <1>0 DEF FinishAttempt, HandlerType
<1> HIDE DEF e
<1>4. /\ log'[r] \in Seq(Attempts)
      /\ Len(log'[r]) = n
      /\ \A i \in 1..n : log'[r][i] = IF i = n THEN e ELSE s[i]
  BY <1>1, <1>2, <1>3, ExceptSeq
<1> HIDE DEF s
<1>5. /\ at' = [at EXCEPT ![r] = "ran"] /\ at'[r] = "ran"
      /\ answer' = answer /\ gone' = gone
      /\ answer[r] = "none"
  BY <1>0 DEF FinishAttempt, Goto, HandlerType, RequestInv
<1>6. HandlerType'
  BY <1>0, <1>3, <1>4, <1>5 DEF HandlerType, Places
<1>7. \A k : Retries(k)' <=> Retries(k)
  BY DEF Retries, HasRetry, HasBreaker
<1>8. /\ n <= maxAttempts /\ maxAttempts' = maxAttempts
      /\ \A i \in 1..n - 1 : Retries(s[i].code)
      /\ \A i \in 1..n : s[i].late => i = n /\ r \in gone
  BY <1>0, <1>1 DEF RequestInv, Counted, AllFailed, LateIsLast, Tried, maxAttempts, HasRetry, s
<1> HIDE DEF n
<1>9. Counted(r)'
  <2>1. Tried(r)' = n
    BY <1>4 DEF Tried
  <2>2. AllFailed(r, Tried(r) - 1)'
    BY <1>1, <1>4, <1>7, <1>8, <2>1 DEF AllFailed
  <2>3. QED
    BY <1>1, <1>5, <1>8, <2>1, <2>2 DEF Counted
<1>10. LateIsLast(r)'
  BY <1>1, <1>2, <1>4, <1>5, <1>8 DEF LateIsLast, Tried
<1>11. InStep(r)'
  <2>1. CASE HasBreaker
    BY <1>0, <1>5, <2>1 DEF FinishAttempt, Complete, TypeOK, InStep, InCall, HasBreaker
  <2>2. CASE ~HasBreaker
    BY <1>0, <1>5, <2>2 DEF FinishAttempt, RequestInv, InStep, InCall, HasBreaker, breaker, vars
  <2>3. QED
    BY <2>1, <2>2
<1>12. Justified(r)'
  BY <1>5 DEF Justified
<1>13. QED
  BY <1>5, <1>6, <1>9, <1>10, <1>11, <1>12 DEF RequestInv

\* Every step of the handler keeps the invariant.
LEMMA HandlerStep == HandlerInv /\ [RNext]_allVars => HandlerInv'
<1> SUFFICES ASSUME HandlerInv, [RNext]_allVars PROVE HandlerInv'
  OBVIOUS
<1>1. TypeOK'
  BY BreakerStep, TypeStep DEF HandlerInv
<1>2. ASSUME NEW r \in Callers, Disconnect(r) \/ Step(r), route' = route PROVE HandlerInv'
  <2>1. HandlerType' /\ RequestInv(r)'
    BY <1>2, SilentStep, StartStep, FinishStep DEF Step
  <2>2. ASSUME NEW q \in Callers \ {r} PROVE RequestInv(q)'
    <3>1. RequestInv(q) /\ HandlerType /\ TypeOK
      BY DEF HandlerInv
    <3>2. QED
      BY <1>2, <3>1, OthersKeep, RequestFrame
  <2>3. QED
    BY <1>1, <2>1, <2>2 DEF HandlerInv
<1>3. CASE Clock /\ route' = route
  <2>1. /\ at' = at /\ log' = log /\ gone' = gone /\ answer' = answer /\ pc' = pc
    BY <1>3 DEF Clock, handler, Tick
  <2>2. ASSUME NEW q \in Callers PROVE RequestInv(q)'
    BY <1>3, <2>1, RequestFrame DEF HandlerInv
  <2>3. QED
    BY <1>1, <1>3, <2>1, <2>2 DEF HandlerInv, HandlerType
<1>4. CASE UNCHANGED allVars
  <2>1. /\ at' = at /\ log' = log /\ gone' = gone /\ answer' = answer /\ pc' = pc
        /\ route' = route
    BY <1>4 DEF allVars, handler, breaker, vars
  <2>2. ASSUME NEW q \in Callers PROVE RequestInv(q)'
    BY <2>1, RequestFrame DEF HandlerInv
  <2>3. QED
    BY <1>1, <2>1, <2>2 DEF HandlerInv, HandlerType
<1>5. QED
  BY <1>2, <1>3, <1>4 DEF RNext

\* A new request has made no attempt.
LEMMA HandlerInit == RInit => HandlerInv
<1> SUFFICES ASSUME RInit PROVE HandlerInv
  OBVIOUS
<1>1. TypeOK
  BY TypeInit DEF RInit
<1>2. <<>> \in Seq(Attempts) /\ Len(<<>>) = 0
  OBVIOUS
<1>3. HandlerType
  BY <1>2 DEF RInit, HandlerType, Places, Answers
<1>4. ASSUME NEW r \in Callers PROVE RequestInv(r)
  <2>1. /\ Tried(r) = 0 /\ at[r] \in {"body", "ready"} /\ answer[r] = "none" /\ pc[r] = "idle"
        /\ maxAttempts \in Nat \ {0}
    BY <1>2 DEF RInit, Init, Tried, maxAttempts
  <2>2. QED
    BY <2>1 DEF RequestInv, Counted, AllFailed, LateIsLast, InStep, InCall, Justified
<1>5. QED
  BY <1>1, <1>3, <1>4 DEF HandlerInv

\* The invariant holds of every state the handler reaches.
LEMMA HandlerInvariant == RSpec => []HandlerInv
  BY HandlerInit, HandlerStep, PTL DEF RSpec

(***************************************************************************)
(* What the runs check, for every instance.                                *)
(***************************************************************************)

\* Places, attempts and answers keep their range, no request makes more than
\* max_retries + 1 attempts, an answered request has left the handler, and it
\* is in the proxy exactly while the breaker counts it as running.
THEOREM HandlerTypeCorrect == RSpec => []ResilienceTypeOK
<1>1. HandlerInv => ResilienceTypeOK
  <2> SUFFICES ASSUME HandlerInv PROVE ResilienceTypeOK
    OBVIOUS
  <2> DEFINE Logs == UNION {[1..n -> [late : BOOLEAN, code : Statuses \cup {InProgress}]]
                              : n \in 0..maxAttempts}
  <2>1. ASSUME NEW r \in Callers PROVE log[r] \in Logs
    <3>1. /\ log[r] \in Seq(Attempts)
          /\ Len(log[r]) <= maxAttempts /\ maxAttempts \in Nat
      BY DEF HandlerInv, HandlerType, RequestInv, Counted, Tried, maxAttempts
    <3>2. /\ log[r] \in [1..Len(log[r]) -> Attempts]
          /\ Len(log[r]) \in 0..maxAttempts
      BY <3>1, LenProperties
    <3>3. QED
      BY <3>2 DEF Attempts
  <2> HIDE DEF Logs
  <2>2. log \in [Callers -> Logs]
    BY <2>1 DEF HandlerInv, HandlerType
  <2>3. QED
    BY <2>2 DEF HandlerInv, HandlerType, RequestInv, InStep, ResilienceTypeOK, Logs
<1>2. QED
  BY <1>1, HandlerInvariant, PTL

\* What a client is told is what the attempts say, however many requests share
\* the breaker and however often each is retried.
THEOREM AnswersJustified == RSpec => []AnswerMatchesAttempts
<1>1. HandlerInv => AnswerMatchesAttempts
  BY DEF HandlerInv, RequestInv, Justified, AnswerMatchesAttempts
<1>2. QED
  BY <1>1, HandlerInvariant, PTL

\* At most one attempt is sent upstream for a client that has gone.
THEOREM GoneTriedOnce == RSpec => []OneAttemptForTheGone
<1>1. HandlerInv => OneAttemptForTheGone
  <2> SUFFICES ASSUME HandlerInv, NEW r \in Callers
               PROVE  Cardinality({i \in 1..Tried(r) : log[r][i].late}) <= 1
    BY DEF OneAttemptForTheGone
  <2> DEFINE late == {i \in 1..Tried(r) : log[r][i].late}
  <2>1. late \subseteq {Tried(r)}
    BY DEF HandlerInv, RequestInv, LateIsLast
  <2>2. IsFiniteSet({Tried(r)}) /\ Cardinality({Tried(r)}) = 1
    BY FS_Singleton
  <2> HIDE DEF late
  <2>3. Cardinality(late) <= Cardinality({Tried(r)})
    BY <2>1, <2>2, FS_Subset
  <2>4. QED
    BY <2>2, <2>3 DEF late
<1>2. QED
  BY <1>1, HandlerInvariant, PTL

\* Without a breaker only the listed status codes are retried.
THEOREM ListedRetried == RSpec => []OnlyListedCodesRetried
<1>1. HandlerInv => OnlyListedCodesRetried
  BY DEF HandlerInv, RequestInv, Counted, AllFailed, Retries, OnlyListedCodesRetried
<1>2. QED
  BY <1>1, HandlerInvariant, PTL

=============================================================================
