--------------------------- MODULE CircuitBreaker ---------------------------
(***************************************************************************)
(* The per-route circuit breaker of internal/middleware/circuitbreaker,    *)
(* called by any number of goroutines, with the state-change callback that *)
(* pipeline.wrapResilience registers on it.                                *)
(*                                                                         *)
(* Execute takes the mutex twice: Section A decides whether fn may run,    *)
(* Section B records its outcome.  fn and both callbacks run outside the   *)
(* lock, so each critical section is one action and everything between    *)
(* them interleaves.                                                       *)
(*                                                                         *)
(* Time is kept as saturating timers: openFor is now - openedAt, which the *)
(* code only compares with timeout, and callFor is the age of a running    *)
(* fn.  Counters saturate at the threshold they are compared with.         *)
(***************************************************************************)
EXTENDS Naturals

CONSTANTS
  Callers,           \* goroutines that call Execute
  FailureThreshold,  \* cfg.FailureThreshold (0 when the YAML leaves it out)
  SuccessThreshold,  \* cfg.SuccessThreshold (likewise)
  Timeout,           \* cfg.Timeout, in clock ticks
  CallTimeout,       \* upstream.timeout: the proxy's deadline for one fn
  FnPanics           \* whether fn may panic (ReverseProxy aborts a broken body)

ASSUME BreakerAssumption ==
  /\ FailureThreshold \in Nat
  /\ SuccessThreshold \in Nat
  /\ Timeout \in Nat
  /\ CallTimeout \in Nat \ {0}
  /\ FnPanics \in BOOLEAN

VARIABLES
  cb,       \* the CircuitBreaker struct: its mutable fields
  pc,       \* where each goroutine is in Execute
  isProbe,  \* the local variable isProbe of each Execute
  change,   \* the pending onStateChange call of each goroutine: from, to
  callFor,  \* ticks since fn started
  gauge     \* states whose gateway_circuit_breaker_state label is 1

vars == <<cb, pc, isProbe, change, callFor, gauge>>

Closed == "closed"
Open == "open"
HalfOpen == "half_open"
States == {Closed, Open, HalfOpen}

Breakers ==
  [state : States,
   failureCount : 0..FailureThreshold,
   successCount : 0..SuccessThreshold,
   halfOpenProbing : BOOLEAN,
   openFor : 0..Timeout]

\* idle: not in Execute; pre, preClear: the callback before fn, at its first
\* and second gauge write; fn: running fn; post, postClear: likewise after fn.
Points == {"idle", "pre", "preClear", "fn", "post", "postClear"}

Saturate(n, limit) == IF n < limit THEN n + 1 ELSE n

-----------------------------------------------------------------------------
New ==
  [state |-> Closed, failureCount |-> 0, successCount |-> 0,
   halfOpenProbing |-> FALSE, openFor |-> 0]

NoChange == [from |-> Closed, to |-> Closed]

Init ==
  /\ cb = New
  /\ pc = [c \in Callers |-> "idle"]
  /\ isProbe = [c \in Callers |-> FALSE]
  /\ change = [c \in Callers |-> NoChange]
  /\ callFor = [c \in Callers |-> 0]
  /\ gauge = {}

\* Fault: opening forgets to restart the timer.
setState_KeepsTimer(b, to) ==
  [state |-> to, failureCount |-> 0, successCount |-> 0,
   halfOpenProbing |-> FALSE, openFor |-> b.openFor]

\* Every transition clears both counters and the probe slot; opening also
\* restarts the timer.
setState(b, to) ==
  [state |-> to, failureCount |-> 0, successCount |-> 0,
   halfOpenProbing |-> FALSE,
   openFor |-> IF to = Open THEN 0 ELSE b.openFor]

\* Fault: the rest is one tick too short.
TimedOut_Early == cb.openFor + 1 >= Timeout

TimedOut == cb.openFor >= Timeout

-----------------------------------------------------------------------------
(* Section A of Execute.                                                   *)

\* fn starts: at once, or after the callback when the state has changed.
Enter(c, probe) ==
  /\ isProbe' = [isProbe EXCEPT ![c] = probe]
  /\ callFor' = [callFor EXCEPT ![c] = 0]
  /\ UNCHANGED gauge

AdmitClosed(c) ==
  /\ pc[c] = "idle"
  /\ cb.state = Closed
  /\ pc' = [pc EXCEPT ![c] = "fn"]
  /\ Enter(c, FALSE)
  /\ UNCHANGED <<cb, change>>

\* Fault: the slot is taken without looking whether it is free.
AdmitProbe_Unguarded(c) ==
  /\ pc[c] = "idle"
  /\ cb.state = HalfOpen
  /\ cb' = [cb EXCEPT !.halfOpenProbing = TRUE]
  /\ pc' = [pc EXCEPT ![c] = "fn"]
  /\ Enter(c, TRUE)
  /\ UNCHANGED change

AdmitProbe(c) ==
  /\ pc[c] = "idle"
  /\ cb.state = HalfOpen
  /\ ~cb.halfOpenProbing
  /\ cb' = [cb EXCEPT !.halfOpenProbing = TRUE]
  /\ pc' = [pc EXCEPT ![c] = "fn"]
  /\ Enter(c, TRUE)
  /\ UNCHANGED change

\* The first caller after the timeout moves the breaker to HalfOpen and is
\* itself the probe.
EnterHalfOpen(c) ==
  /\ pc[c] = "idle"
  /\ cb.state = Open
  /\ TimedOut
  /\ cb' = [setState(cb, HalfOpen) EXCEPT !.halfOpenProbing = TRUE]
  /\ change' = [change EXCEPT ![c] = [from |-> Open, to |-> HalfOpen]]
  /\ pc' = [pc EXCEPT ![c] = "pre"]
  /\ Enter(c, TRUE)

Admit(c) == AdmitClosed(c) \/ AdmitProbe(c) \/ EnterHalfOpen(c)

\* Execute returns ErrCircuitOpen: fn does not run and nothing changes.
Rejects ==
  \/ cb.state = Open /\ ~TimedOut
  \/ cb.state = HalfOpen /\ cb.halfOpenProbing

Reject(c) ==
  /\ pc[c] = "idle"
  /\ Rejects
  /\ UNCHANGED vars

-----------------------------------------------------------------------------
(* Section B of Execute.                                                   *)

\* Fault: Section B does not give the slot back.
release_Never(b, probe) == b

release(b, probe) ==
  IF probe THEN [b EXCEPT !.halfOpenProbing = FALSE] ELSE b

recordFailure(b) ==
  LET counted == [b EXCEPT !.failureCount = Saturate(@, FailureThreshold),
                           !.successCount = 0]
  IN  IF \/ b.state = HalfOpen
         \/ b.state = Closed /\ counted.failureCount >= FailureThreshold
      THEN setState(counted, Open)
      ELSE counted

\* Fault: enough successes close the breaker from any state.
recordSuccess_AnyState(b) ==
  LET counted == [b EXCEPT !.successCount = Saturate(@, SuccessThreshold),
                           !.failureCount = 0]
  IN  IF counted.successCount >= SuccessThreshold
      THEN setState(counted, Closed)
      ELSE counted

recordSuccess(b) ==
  LET counted == [b EXCEPT !.successCount = Saturate(@, SuccessThreshold),
                           !.failureCount = 0]
  IN  IF b.state = HalfOpen /\ counted.successCount >= SuccessThreshold
      THEN setState(counted, Closed)
      ELSE counted

\* The breaker a returning call leaves behind.
Recorded(c, ok) ==
  IF ok THEN recordSuccess(release(cb, isProbe[c]))
        ELSE recordFailure(release(cb, isProbe[c]))

\* fn returns and its outcome is recorded, whatever the breaker's state has
\* become in the meantime.
Complete(c, ok) ==
  LET after == Recorded(c, ok)
  IN  /\ pc[c] = "fn"
      /\ cb' = after
      /\ isProbe' = [isProbe EXCEPT ![c] = FALSE]
      /\ callFor' = [callFor EXCEPT ![c] = 0]
      /\ \/ /\ after.state = cb.state
            /\ pc' = [pc EXCEPT ![c] = "idle"]
            /\ UNCHANGED change
         \/ /\ after.state # cb.state
            /\ pc' = [pc EXCEPT ![c] = "post"]
            /\ change' = [change EXCEPT ![c] = [from |-> cb.state, to |-> after.state]]
      /\ UNCHANGED gauge

\* fn panics: the goroutine unwinds to the recovery middleware and Section B
\* never runs.
Panic(c) ==
  /\ FnPanics
  /\ pc[c] = "fn"
  /\ pc' = [pc EXCEPT ![c] = "idle"]
  /\ isProbe' = [isProbe EXCEPT ![c] = FALSE]
  /\ callFor' = [callFor EXCEPT ![c] = 0]
  /\ UNCHANGED <<cb, change, gauge>>

-----------------------------------------------------------------------------
(* The callback of wrapResilience: two gauge writes, outside the lock.     *)

SetTo(c) ==
  /\ pc[c] \in {"pre", "post"}
  /\ gauge' = gauge \cup {change[c].to}
  /\ pc' = [pc EXCEPT ![c] = IF @ = "pre" THEN "preClear" ELSE "postClear"]
  /\ UNCHANGED <<cb, isProbe, change, callFor>>

ClearFrom(c) ==
  /\ pc[c] \in {"preClear", "postClear"}
  /\ gauge' = gauge \ {change[c].from}
  /\ pc' = [pc EXCEPT ![c] = IF @ = "preClear" THEN "fn" ELSE "idle"]
  /\ change' = [change EXCEPT ![c] = NoChange]
  /\ UNCHANGED <<cb, isProbe, callFor>>

\* Fault: the proxy sets no deadline.
Tick_NoDeadline ==
  /\ cb' = [cb EXCEPT !.openFor = Saturate(@, Timeout)]
  /\ callFor' = [c \in Callers |-> IF pc[c] = "fn" THEN callFor[c] + 1 ELSE callFor[c]]
  /\ UNCHANGED <<pc, isProbe, change, gauge>>

\* One clock tick.  The deadline of the proxy's request context ends every fn
\* after CallTimeout ticks, so no tick passes over an overdue call.
Tick ==
  /\ \A c \in Callers : pc[c] = "fn" => callFor[c] < CallTimeout
  /\ cb' = [cb EXCEPT !.openFor = Saturate(@, Timeout)]
  /\ callFor' = [c \in Callers |-> IF pc[c] = "fn" THEN callFor[c] + 1 ELSE callFor[c]]
  /\ UNCHANGED <<pc, isProbe, change, gauge>>

Next ==
  \/ Tick
  \/ \E c \in Callers :
       \/ AdmitClosed(c)
       \/ AdmitProbe(c)
       \/ EnterHalfOpen(c)
       \/ Reject(c)
       \/ \E ok \in BOOLEAN : Complete(c, ok)
       \/ Panic(c)
       \/ SetTo(c)
       \/ ClearFrom(c)

Spec == Init /\ [][Next]_vars

-----------------------------------------------------------------------------
\* Every field of the struct and every local of Execute keeps its range.
TypeOK ==
  /\ cb \in Breakers
  /\ pc \in [Callers -> Points]
  /\ isProbe \in [Callers -> BOOLEAN]
  /\ change \in [Callers -> [from : States, to : States]]
  /\ callFor \in [Callers -> 0..CallTimeout]
  /\ gauge \subseteq States

\* Between Section A and Section B.
InCall(c) == pc[c] \in {"pre", "preClear", "fn"}

Probes == {c \in Callers : InCall(c) /\ isProbe[c]}
Calls == {c \in Callers : InCall(c) /\ ~isProbe[c]}

\* "In HalfOpen state, only a single probe request is allowed through; all
\* others are rejected with ErrCircuitOpen until the probe completes": no two
\* goroutines are ever between Section A and Section B as probes.
SingleProbe == \A c, d \in Probes : c = d

\* A half-open breaker is settled by its probe: a step out of HalfOpen is the
\* return of a probe, never the late return of a call admitted before.
ProbeDecidesRecovery ==
  [][cb.state = HalfOpen /\ cb'.state # HalfOpen
       => \E c \in Probes : c \notin Probes']_vars

\* The probe slot is taken only while a probe is really in flight: once the
\* probe is gone, however it went, the next caller is let through.
ProbeSlotBacked == cb.halfOpenProbing => Probes # {}

\* Late results never move the breaker along an edge the state machine does
\* not have: Closed only opens, Open only becomes HalfOpen, and that only
\* after it has been open for Timeout.
LegalTransitions ==
  [][/\ cb.state = Closed => cb'.state \in {Closed, Open}
     /\ cb.state = Open => \/ cb'.state = Open
                           \/ cb'.state = HalfOpen /\ cb.openFor >= Timeout]_vars

\* The gauge is the "current state of circuit breakers": whenever no callback
\* is pending, no label but the current state's is set.
GaugeFaithful ==
  (\A c \in Callers : pc[c] \notin {"pre", "preClear", "post", "postClear"})
    => gauge \subseteq {cb.state}

\* The breaker keeps the contract of BreakerContract.
Contract == INSTANCE BreakerContract
  WITH phase <- cb.state, rest <- cb.openFor, calls <- Calls, probes <- Probes

ContractSpec == Contract!Spec

=============================================================================
