------------------------ MODULE CircuitBreakerProofs ------------------------
(***************************************************************************)
(* Proofs about CircuitBreaker, for any set of callers, any thresholds and *)
(* any timeouts.                                                           *)
(***************************************************************************)
EXTENDS CircuitBreaker, TLAPS

USE BreakerAssumption

(***************************************************************************)
(* What the helpers on the breaker's struct return.                        *)
(***************************************************************************)

\* setState yields a well-formed breaker in the requested state, with the
\* probe slot free, and restarts the timer exactly when it opens.
LEMMA SetStateFacts ==
  ASSUME NEW b \in Breakers, NEW to \in States
  PROVE  /\ setState(b, to) \in Breakers
         /\ setState(b, to).state = to
         /\ setState(b, to).halfOpenProbing = FALSE
         /\ setState(b, to).openFor = IF to = Open THEN 0 ELSE b.openFor
BY DEF setState, Breakers, States, Closed, Open, HalfOpen

\* Releasing the slot touches nothing else.
LEMMA ReleaseFacts ==
  ASSUME NEW b \in Breakers, NEW probe \in BOOLEAN
  PROVE  /\ release(b, probe) \in Breakers
         /\ release(b, probe).state = b.state
         /\ release(b, probe).openFor = b.openFor
         /\ probe => release(b, probe).halfOpenProbing = FALSE
         /\ ~probe => release(b, probe).halfOpenProbing = b.halfOpenProbing
BY DEF release, Breakers

\* A failure opens a half-open breaker, may open a closed one, and leaves an
\* open one open; the slot is never taken by it.
LEMMA RecordFailureFacts ==
  ASSUME NEW b \in Breakers
  PROVE  /\ recordFailure(b) \in Breakers
         /\ b.state = HalfOpen => recordFailure(b).state = Open
         /\ recordFailure(b).state \in {b.state, Open}
         /\ recordFailure(b).state = b.state
              => /\ recordFailure(b).openFor = b.openFor
                 /\ recordFailure(b).halfOpenProbing = b.halfOpenProbing
         /\ recordFailure(b).state # b.state
              => /\ recordFailure(b).openFor = 0
                 /\ recordFailure(b).halfOpenProbing = FALSE
<1> DEFINE counted == [b EXCEPT !.failureCount = Saturate(@, FailureThreshold),
                                !.successCount = 0]
           trips == \/ b.state = HalfOpen
                    \/ b.state = Closed /\ counted.failureCount >= FailureThreshold
<1>1. /\ counted \in Breakers
      /\ counted.state = b.state
      /\ counted.openFor = b.openFor
      /\ counted.halfOpenProbing = b.halfOpenProbing
  <2> DEFINE n == Saturate(b.failureCount, FailureThreshold)
             one == [b EXCEPT !.failureCount = n]
  <2>1. n \in 0..FailureThreshold
    BY DEF Breakers, Saturate
  <2>2. counted = [one EXCEPT !.successCount = 0]
    OBVIOUS
  <2> HIDE DEF n
  <2>3. one \in Breakers
    BY <2>1 DEF Breakers
  <2> HIDE DEF one
  <2>4. [one EXCEPT !.successCount = 0] \in Breakers
    BY <2>3 DEF Breakers
  <2>5. QED
    BY <2>2, <2>4 DEF Breakers
<1>2. recordFailure(b) = IF trips THEN setState(counted, Open) ELSE counted
  BY DEF recordFailure
<1>3. /\ setState(counted, Open) \in Breakers
      /\ setState(counted, Open).state = Open
      /\ setState(counted, Open).halfOpenProbing = FALSE
      /\ setState(counted, Open).openFor = 0
  BY <1>1, SetStateFacts DEF States
<1> HIDE DEF counted
<1>4. CASE trips
  BY <1>1, <1>2, <1>3, <1>4 DEF Closed, Open, HalfOpen
<1>5. CASE ~trips
  BY <1>1, <1>2, <1>5 DEF Closed, Open, HalfOpen
<1>6. QED
  BY <1>4, <1>5

\* A success may close a half-open breaker and moves no other.
LEMMA RecordSuccessFacts ==
  ASSUME NEW b \in Breakers
  PROVE  /\ recordSuccess(b) \in Breakers
         /\ recordSuccess(b).openFor = b.openFor
         /\ \/ /\ recordSuccess(b).state = b.state
               /\ recordSuccess(b).halfOpenProbing = b.halfOpenProbing
            \/ /\ b.state = HalfOpen
               /\ recordSuccess(b).state = Closed
               /\ recordSuccess(b).halfOpenProbing = FALSE
<1> DEFINE counted == [b EXCEPT !.successCount = Saturate(@, SuccessThreshold),
                                !.failureCount = 0]
           closes == b.state = HalfOpen /\ counted.successCount >= SuccessThreshold
<1>1. /\ counted \in Breakers
      /\ counted.state = b.state
      /\ counted.openFor = b.openFor
      /\ counted.halfOpenProbing = b.halfOpenProbing
  <2> DEFINE n == Saturate(b.successCount, SuccessThreshold)
             one == [b EXCEPT !.successCount = n]
  <2>1. n \in 0..SuccessThreshold
    BY DEF Breakers, Saturate
  <2>2. counted = [one EXCEPT !.failureCount = 0]
    OBVIOUS
  <2> HIDE DEF n
  <2>3. one \in Breakers
    BY <2>1 DEF Breakers
  <2> HIDE DEF one
  <2>4. [one EXCEPT !.failureCount = 0] \in Breakers
    BY <2>3 DEF Breakers
  <2>5. QED
    BY <2>2, <2>4 DEF Breakers
<1>2. recordSuccess(b) = IF closes THEN setState(counted, Closed) ELSE counted
  BY DEF recordSuccess
<1>3. /\ setState(counted, Closed) \in Breakers
      /\ setState(counted, Closed).state = Closed
      /\ setState(counted, Closed).halfOpenProbing = FALSE
      /\ setState(counted, Closed).openFor = counted.openFor
  BY <1>1, SetStateFacts DEF States, Closed, Open
<1> HIDE DEF counted
<1>4. CASE closes
  BY <1>1, <1>2, <1>3, <1>4
<1>5. CASE ~closes
  BY <1>1, <1>2, <1>5
<1>6. QED
  BY <1>4, <1>5

\* What the return of c does to the breaker: the probe slot is given back, a
\* change of state is one of the machine's edges, and the timer restarts
\* exactly when the breaker opens.
LEMMA RecordedFacts ==
  ASSUME TypeOK, NEW c \in Callers, NEW ok \in BOOLEAN
  PROVE  /\ Recorded(c, ok) \in Breakers
         /\ isProbe[c] => Recorded(c, ok).halfOpenProbing = FALSE
         /\ Recorded(c, ok).halfOpenProbing => cb.halfOpenProbing
         /\ \/ /\ Recorded(c, ok).state = cb.state
               /\ Recorded(c, ok).openFor = cb.openFor
               /\ ~isProbe[c] => Recorded(c, ok).halfOpenProbing = cb.halfOpenProbing
            \/ /\ cb.state \in {Closed, HalfOpen}
               /\ Recorded(c, ok).state = Open
               /\ Recorded(c, ok).openFor = 0
               /\ Recorded(c, ok).halfOpenProbing = FALSE
            \/ /\ cb.state = HalfOpen
               /\ Recorded(c, ok).state = Closed
               /\ Recorded(c, ok).openFor = cb.openFor
               /\ Recorded(c, ok).halfOpenProbing = FALSE
<1> DEFINE r == release(cb, isProbe[c])
<1>1. /\ cb \in Breakers
      /\ isProbe[c] \in BOOLEAN
      /\ cb.state \in {Closed, Open, HalfOpen}
  BY DEF TypeOK, Breakers, States
<1>2. /\ r \in Breakers
      /\ r.state = cb.state
      /\ r.openFor = cb.openFor
      /\ isProbe[c] => r.halfOpenProbing = FALSE
      /\ ~isProbe[c] => r.halfOpenProbing = cb.halfOpenProbing
  BY <1>1, ReleaseFacts
<1> HIDE DEF r
<1>3. CASE ok
  <2>1. Recorded(c, ok) = recordSuccess(r)
    BY <1>3 DEF Recorded, r
  <2>2. /\ Recorded(c, ok) \in Breakers
        /\ Recorded(c, ok).openFor = r.openFor
        /\ \/ /\ Recorded(c, ok).state = r.state
              /\ Recorded(c, ok).halfOpenProbing = r.halfOpenProbing
           \/ /\ r.state = HalfOpen
              /\ Recorded(c, ok).state = Closed
              /\ Recorded(c, ok).halfOpenProbing = FALSE
    BY <1>2, <2>1, RecordSuccessFacts
  <2>3. QED
    BY <1>1, <1>2, <2>2
<1>4. CASE ~ok
  <2>1. Recorded(c, ok) = recordFailure(r)
    BY <1>4 DEF Recorded, r
  <2>2. QED
    BY <1>1, <1>2, <2>1, RecordFailureFacts, ZenonT(40) DEF Closed, Open, HalfOpen
<1>5. QED
  BY <1>3, <1>4

(***************************************************************************)
(* Type correctness.                                                       *)
(***************************************************************************)

\* Every step of the breaker keeps every field in its range.
LEMMA TypeStep == TypeOK /\ [Next]_vars => TypeOK'
<1> SUFFICES ASSUME TypeOK, [Next]_vars PROVE TypeOK'
  OBVIOUS
<1> USE DEF Points
<1>1. CASE Tick
  <2>1. Saturate(cb.openFor, Timeout) \in 0..Timeout
    BY DEF TypeOK, Breakers, Saturate
  <2>2. cb' \in Breakers
    BY <1>1, <2>1 DEF Tick, TypeOK, Breakers
  <2>3. callFor' \in [Callers -> 0..CallTimeout]
    BY <1>1 DEF Tick, TypeOK
  <2>4. QED
    BY <1>1, <2>2, <2>3 DEF Tick, TypeOK
<1>2. ASSUME NEW c \in Callers, AdmitClosed(c) PROVE TypeOK'
  BY <1>2 DEF AdmitClosed, Enter, TypeOK
<1>3. ASSUME NEW c \in Callers, AdmitProbe(c) PROVE TypeOK'
  <2>1. cb' \in Breakers
    BY <1>3 DEF AdmitProbe, TypeOK, Breakers
  <2>2. QED
    BY <1>3, <2>1 DEF AdmitProbe, Enter, TypeOK
<1>4. ASSUME NEW c \in Callers, EnterHalfOpen(c) PROVE TypeOK'
  <2>1. setState(cb, HalfOpen) \in Breakers
    BY SetStateFacts DEF TypeOK, States
  <2>2. cb' \in Breakers
    BY <1>4, <2>1 DEF EnterHalfOpen, Breakers
  <2>3. [from |-> Open, to |-> HalfOpen] \in [from : States, to : States]
    BY DEF States
  <2>4. QED
    BY <1>4, <2>2, <2>3 DEF EnterHalfOpen, Enter, TypeOK
<1>5. ASSUME NEW c \in Callers, Reject(c) PROVE TypeOK'
  BY <1>5 DEF Reject, vars, TypeOK
<1>6. ASSUME NEW c \in Callers, NEW ok \in BOOLEAN, Complete(c, ok) PROVE TypeOK'
  <2>1. Recorded(c, ok) \in Breakers
    BY RecordedFacts
  <2>2. [from |-> cb.state, to |-> Recorded(c, ok).state] \in [from : States, to : States]
    BY <2>1 DEF TypeOK, Breakers
  <2>3. QED
    BY <1>6, <2>1, <2>2 DEF Complete, TypeOK
<1>7. ASSUME NEW c \in Callers, Panic(c) PROVE TypeOK'
  BY <1>7 DEF Panic, TypeOK
<1>8. ASSUME NEW c \in Callers, SetTo(c) PROVE TypeOK'
  BY <1>8 DEF SetTo, TypeOK
<1>9. ASSUME NEW c \in Callers, ClearFrom(c) PROVE TypeOK'
  <2>1. NoChange \in [from : States, to : States]
    BY DEF NoChange, States
  <2>2. QED
    BY <1>9, <2>1 DEF ClearFrom, TypeOK
<1>10. CASE UNCHANGED vars
  BY <1>10 DEF vars, TypeOK
<1>11. QED
  BY <1>1, <1>2, <1>3, <1>4, <1>5, <1>6, <1>7, <1>8, <1>9, <1>10 DEF Next

\* New builds a well-formed breaker.
LEMMA TypeInit == Init => TypeOK
<1>1. New \in Breakers
  BY DEF New, Breakers, States
<1>2. NoChange \in [from : States, to : States]
  BY DEF NoChange, States
<1>3. QED
  BY <1>1, <1>2 DEF Init, TypeOK, Points

\* Execute never drives a field of the breaker out of its range, whatever the
\* number of goroutines and whatever the thresholds and timeouts.
THEOREM TypeCorrect == Spec => []TypeOK
  BY TypeInit, TypeStep, PTL DEF Spec

(***************************************************************************)
(* The probe slot.                                                         *)
(***************************************************************************)

\* The slot is given back by the goroutine that took it: as long as fn does
\* not panic, an occupied slot always has a probe in flight behind it, for
\* every mix of fast, slow and late calls.
THEOREM SlotBacked == ~FnPanics => (Spec => []ProbeSlotBacked)
<1> SUFFICES ASSUME ~FnPanics PROVE Spec => []ProbeSlotBacked
  OBVIOUS
<1> USE DEF Probes, InCall
<1>1. Init => ProbeSlotBacked
  BY DEF Init, New, ProbeSlotBacked
<1>2. TypeOK /\ ProbeSlotBacked /\ [Next]_vars => ProbeSlotBacked'
  <2> SUFFICES ASSUME TypeOK, ProbeSlotBacked, [Next]_vars, cb'.halfOpenProbing
               PROVE  \E p \in Callers : InCall(p)' /\ isProbe'[p]
    BY DEF ProbeSlotBacked
  <2>1. CASE Tick \/ UNCHANGED vars
    BY <2>1 DEF Tick, vars, TypeOK, Breakers, ProbeSlotBacked
  <2>2. ASSUME NEW c \in Callers, AdmitClosed(c) PROVE \E p \in Callers : InCall(p)' /\ isProbe'[p]
    BY <2>2 DEF AdmitClosed, Enter, TypeOK, ProbeSlotBacked
  <2>3. ASSUME NEW c \in Callers, AdmitProbe(c) PROVE \E p \in Callers : InCall(p)' /\ isProbe'[p]
    BY <2>3 DEF AdmitProbe, Enter, TypeOK
  <2>4. ASSUME NEW c \in Callers, EnterHalfOpen(c) PROVE \E p \in Callers : InCall(p)' /\ isProbe'[p]
    BY <2>4 DEF EnterHalfOpen, Enter, TypeOK
  <2>5. ASSUME NEW c \in Callers, Reject(c) PROVE \E p \in Callers : InCall(p)' /\ isProbe'[p]
    BY <2>5 DEF Reject, vars, ProbeSlotBacked
  <2>6. ASSUME NEW c \in Callers, NEW ok \in BOOLEAN, Complete(c, ok)
        PROVE  \E p \in Callers : InCall(p)' /\ isProbe'[p]
    <3>1. cb' = Recorded(c, ok)
      BY <2>6 DEF Complete
    <3>2. cb.halfOpenProbing /\ ~isProbe[c]
      BY <3>1, RecordedFacts
    <3>3. PICK p \in Callers : InCall(p) /\ isProbe[p]
      BY <3>2 DEF ProbeSlotBacked
    <3>4. QED
      BY <2>6, <3>2, <3>3 DEF Complete, TypeOK
  <2>7. ASSUME NEW c \in Callers, Panic(c) PROVE \E p \in Callers : InCall(p)' /\ isProbe'[p]
    BY <2>7 DEF Panic
  <2>8. ASSUME NEW c \in Callers, SetTo(c) PROVE \E p \in Callers : InCall(p)' /\ isProbe'[p]
    BY <2>8 DEF SetTo, TypeOK, ProbeSlotBacked
  <2>9. ASSUME NEW c \in Callers, ClearFrom(c) PROVE \E p \in Callers : InCall(p)' /\ isProbe'[p]
    BY <2>9 DEF ClearFrom, TypeOK, ProbeSlotBacked
  <2>10. QED
    BY <2>1, <2>2, <2>3, <2>4, <2>5, <2>6, <2>7, <2>8, <2>9 DEF Next
<1>3. QED
  BY <1>1, <1>2, TypeCorrect, PTL DEF Spec

(***************************************************************************)
(* The edges of the state machine.                                         *)
(***************************************************************************)

\* No return, however late, moves the breaker along an edge the machine does
\* not have, and an open breaker rests for the whole timeout.
THEOREM EdgesLegal == Spec => LegalTransitions
<1> DEFINE Legal == /\ cb.state = Closed => cb'.state \in {Closed, Open}
                    /\ cb.state = Open => \/ cb'.state = Open
                                          \/ cb'.state = HalfOpen /\ cb.openFor >= Timeout
<1>1. TypeOK /\ [Next]_vars => [Legal]_vars
  <2> SUFFICES ASSUME TypeOK, [Next]_vars PROVE Legal
    OBVIOUS
  <2> USE DEF Closed, Open, HalfOpen
  <2>1. CASE UNCHANGED cb
    BY <2>1
  <2>2. CASE Tick
    BY <2>2 DEF Tick, TypeOK, Breakers
  <2>3. ASSUME NEW c \in Callers, AdmitProbe(c) PROVE Legal
    BY <2>3 DEF AdmitProbe
  <2>4. ASSUME NEW c \in Callers, EnterHalfOpen(c) PROVE Legal
    BY <2>4 DEF EnterHalfOpen, TimedOut, setState
  <2>5. ASSUME NEW c \in Callers, NEW ok \in BOOLEAN, Complete(c, ok) PROVE Legal
    <3>1. cb' = Recorded(c, ok)
      BY <2>5 DEF Complete
    <3>2. QED
      BY <3>1, RecordedFacts
  <2>6. QED
    BY <2>1, <2>2, <2>3, <2>4, <2>5
    DEF Next, AdmitClosed, Reject, Panic, SetTo, ClearFrom, vars
<1>2. QED
  BY <1>1, TypeCorrect, PTL DEF Spec, LegalTransitions

(***************************************************************************)
(* Calls shorter than the breaker's rest.  The inductive invariant says    *)
(* which goroutines can be in flight in which state; its clause on timers  *)
(* is the heart of the argument: while the breaker is open, every call     *)
(* still in flight is at least as old as the opening, so that none is left *)
(* when the timeout has passed.                                            *)
(***************************************************************************)

CallbackOfProbe == \A c \in Callers : pc[c] \in {"pre", "preClear"} => isProbe[c]
OnlyProbesInHalfOpen ==
  cb.state = HalfOpen => \A c \in Callers : InCall(c) => isProbe[c]
ProbesOnlyInHalfOpen ==
  cb.state # HalfOpen => \A c \in Callers : InCall(c) => ~isProbe[c]
CallsOlderThanOpening ==
  cb.state = Open => \A c \in Callers : InCall(c) => callFor[c] >= cb.openFor
ProbeHoldsSlot == \A c \in Callers : InCall(c) /\ isProbe[c] => cb.halfOpenProbing

FlightInv ==
  /\ CallbackOfProbe
  /\ OnlyProbesInHalfOpen
  /\ ProbesOnlyInHalfOpen
  /\ CallsOlderThanOpening
  /\ ProbeHoldsSlot
  /\ SingleProbe

\* When the rest is over nothing is in flight any more.
LEMMA QuietAtTimeout ==
  ASSUME CallTimeout < Timeout, TypeOK, FlightInv, cb.state = Open, TimedOut
  PROVE  \A c \in Callers : ~InCall(c)
<1> SUFFICES ASSUME NEW c \in Callers, InCall(c) PROVE FALSE
  OBVIOUS
<1>1. callFor[c] >= cb.openFor
  BY DEF FlightInv, CallsOlderThanOpening
<1>2. callFor[c] \in 0..CallTimeout /\ cb.openFor \in 0..Timeout
  BY DEF TypeOK, Breakers
<1>3. QED
  BY <1>1, <1>2 DEF TimedOut

\* Every step preserves the invariant on what is in flight.
LEMMA FlightStep ==
  ASSUME CallTimeout < Timeout
  PROVE  TypeOK /\ FlightInv /\ [Next]_vars => FlightInv'
<1> SUFFICES ASSUME TypeOK, FlightInv, [Next]_vars PROVE FlightInv'
  OBVIOUS
<1> USE DEF FlightInv, CallbackOfProbe, OnlyProbesInHalfOpen, ProbesOnlyInHalfOpen,
            CallsOlderThanOpening, ProbeHoldsSlot, SingleProbe, Probes, InCall
<1>1. CASE Tick
  <2>1. /\ cb'.state = cb.state
        /\ cb'.halfOpenProbing = cb.halfOpenProbing
        /\ cb'.openFor = Saturate(cb.openFor, Timeout)
    BY <1>1 DEF Tick, TypeOK, Breakers
  <2>2. cb.openFor \in 0..Timeout /\ \A c \in Callers : callFor[c] \in 0..CallTimeout
    BY DEF TypeOK, Breakers
  <2>3. CallsOlderThanOpening'
    BY <1>1, <2>1, <2>2 DEF Tick, Saturate, Open, HalfOpen
  <2>4. QED
    BY <1>1, <2>1, <2>3 DEF Tick
<1>2. ASSUME NEW c \in Callers, AdmitClosed(c) PROVE FlightInv'
  BY <1>2 DEF AdmitClosed, Enter, TypeOK, Closed, Open, HalfOpen
<1>3. ASSUME NEW c \in Callers, AdmitProbe(c) PROVE FlightInv'
  <2>1. cb'.state = HalfOpen /\ cb'.halfOpenProbing
    BY <1>3 DEF AdmitProbe, TypeOK, Breakers
  <2>2. \A d \in Callers : ~InCall(d)
    BY <1>3 DEF AdmitProbe
  <2>3. QED
    BY <1>3, <2>1, <2>2 DEF AdmitProbe, Enter, TypeOK, Open, HalfOpen
<1>4. ASSUME NEW c \in Callers, EnterHalfOpen(c) PROVE FlightInv'
  <2>1. cb'.state = HalfOpen /\ cb'.halfOpenProbing
    BY <1>4 DEF EnterHalfOpen, setState
  <2>2. \A d \in Callers : ~InCall(d)
    BY <1>4, QuietAtTimeout DEF EnterHalfOpen
  <2>3. QED
    BY <1>4, <2>1, <2>2 DEF EnterHalfOpen, Enter, TypeOK, Open, HalfOpen
<1>5. ASSUME NEW c \in Callers, NEW ok \in BOOLEAN, Complete(c, ok) PROVE FlightInv'
  <2>1. /\ cb' = Recorded(c, ok)
        /\ InCall(c) /\ ~InCall(c)'
        /\ \A d \in Callers \ {c} : /\ pc'[d] = pc[d]
                                    /\ isProbe'[d] = isProbe[d]
                                    /\ callFor'[d] = callFor[d]
    BY <1>5 DEF Complete, TypeOK
  <2>2. CASE isProbe[c]
    <3>1. cb.state = HalfOpen /\ \A d \in Callers \ {c} : ~InCall(d)
      BY <2>1, <2>2
    <3>2. \A d \in Callers : ~InCall(d)'
      BY <2>1, <3>1
    <3>3. QED
      BY <3>2
  <2>3. CASE ~isProbe[c]
    <3>1. /\ cb.state \in {Closed, Open}
          /\ \A d \in Callers : InCall(d) => ~isProbe[d] /\ pc[d] = "fn"
      BY <2>1, <2>3 DEF TypeOK, Breakers, States
    <3>2. /\ cb'.state \in {Closed, Open}
          /\ \/ cb'.state = cb.state /\ cb'.openFor = cb.openFor
             \/ cb'.state = Open /\ cb'.openFor = 0
      BY <2>1, <3>1, RecordedFacts DEF Closed, Open, HalfOpen
    <3>3. \A d \in Callers : callFor[d] \in 0..CallTimeout
      BY DEF TypeOK
    <3>4. QED
      BY <2>1, <3>1, <3>2, <3>3 DEF Closed, Open, HalfOpen
  <2>4. QED
    BY <2>2, <2>3
<1>6. ASSUME NEW c \in Callers, Panic(c) PROVE FlightInv'
  BY <1>6 DEF Panic, TypeOK
<1>7. ASSUME NEW c \in Callers, SetTo(c) PROVE FlightInv'
  BY <1>7 DEF SetTo, TypeOK
<1>8. ASSUME NEW c \in Callers, ClearFrom(c) PROVE FlightInv'
  BY <1>8 DEF ClearFrom, TypeOK
<1>9. CASE UNCHANGED vars
  BY <1>9 DEF vars
<1>10. QED
  BY <1>1, <1>2, <1>3, <1>4, <1>5, <1>6, <1>7, <1>8, <1>9 DEF Next, Reject

\* With calls shorter than the rest, the breaker's state determines what can
\* be in flight.
LEMMA FlightInvariant == CallTimeout < Timeout => (Spec => [](TypeOK /\ FlightInv))
<1> SUFFICES ASSUME CallTimeout < Timeout PROVE Spec => [](TypeOK /\ FlightInv)
  OBVIOUS
<1>1. Init => FlightInv
  BY DEF Init, New, Closed, Open, HalfOpen, FlightInv, CallbackOfProbe,
         OnlyProbesInHalfOpen, ProbesOnlyInHalfOpen, CallsOlderThanOpening,
         ProbeHoldsSlot, SingleProbe, Probes, InCall
<1>2. TypeOK /\ FlightInv /\ [Next]_vars => FlightInv'
  BY FlightStep
<1>3. QED
  BY <1>1, <1>2, TypeCorrect, PTL DEF Spec

\* As the comment on CircuitBreaker promises, a half-open breaker has a single
\* probe in flight, if upstream calls end before the breaker's timeout does.
THEOREM SingleProbeHolds == CallTimeout < Timeout => (Spec => []SingleProbe)
<1> SUFFICES ASSUME CallTimeout < Timeout PROVE Spec => []SingleProbe
  OBVIOUS
<1>1. FlightInv => SingleProbe
  BY DEF FlightInv
<1>2. QED
  BY <1>1, FlightInvariant, PTL

\* Under the same condition only the return of a probe settles a half-open
\* breaker ("success closes, failure re-opens").
THEOREM ProbeDecides == CallTimeout < Timeout => (Spec => ProbeDecidesRecovery)
<1> SUFFICES ASSUME CallTimeout < Timeout PROVE Spec => ProbeDecidesRecovery
  OBVIOUS
<1> DEFINE Decided == cb.state = HalfOpen /\ cb'.state # HalfOpen
                        => \E c \in Probes : c \notin Probes'
<1>1. TypeOK /\ FlightInv /\ [Next]_vars => [Decided]_vars
  <2> SUFFICES ASSUME TypeOK, FlightInv, [Next]_vars, cb.state = HalfOpen, cb'.state # HalfOpen
               PROVE  \E c \in Probes : c \notin Probes'
    OBVIOUS
  <2>1. cb' # cb
    OBVIOUS
  <2>2. ~Tick /\ \A c \in Callers : ~AdmitProbe(c) /\ ~EnterHalfOpen(c)
    BY DEF Tick, AdmitProbe, EnterHalfOpen, TypeOK, Breakers, Open, HalfOpen
  <2>3. PICK c \in Callers : \E ok \in BOOLEAN : Complete(c, ok)
    BY <2>1, <2>2 DEF Next, AdmitClosed, Reject, Panic, SetTo, ClearFrom, vars
  <2>4. InCall(c) /\ ~InCall(c)'
    BY <2>3 DEF Complete, InCall, TypeOK
  <2>5. isProbe[c]
    BY <2>4 DEF FlightInv, OnlyProbesInHalfOpen
  <2>6. QED
    BY <2>4, <2>5 DEF Probes
<1>2. QED
  BY <1>1, FlightInvariant, PTL DEF Spec, ProbeDecidesRecovery

\* With calls shorter than the rest, Execute implements the contract: every
\* critical section is one step of BreakerContract and everything else,
\* callbacks included, a stutter.
THEOREM ContractKept == CallTimeout < Timeout => (Spec => ContractSpec)
<1> SUFFICES ASSUME CallTimeout < Timeout PROVE Spec => ContractSpec
  OBVIOUS
<1> USE DEF Calls, Probes, InCall
<1>1. Init => Contract!Init
  BY DEF Init, New, Contract!Init, Closed
<1>2. TypeOK /\ FlightInv /\ [Next]_vars => [Contract!Next]_(Contract!vars)
  <2> SUFFICES ASSUME TypeOK, FlightInv, [Next]_vars,
                      ~(UNCHANGED <<cb.state, cb.openFor, Calls, Probes>>)
               PROVE  Contract!Next
    BY DEF Contract!vars
  <2>1. CASE Tick
    <3>1. Contract!Pass
      BY <2>1 DEF Contract!Pass, Tick, TypeOK, Breakers, Saturate
    <3>2. QED
      BY <3>1 DEF Contract!Next
  <2>2. ASSUME NEW c \in Callers, AdmitClosed(c) PROVE Contract!Next
    <3>1. Calls' = Calls \cup {c} /\ Probes' = Probes
      BY <2>2 DEF AdmitClosed, Enter, TypeOK
    <3>2. Contract!Call(c)
      BY <2>2, <3>1 DEF Contract!Call, AdmitClosed, Closed
    <3>3. QED
      BY <3>2 DEF Contract!Next
  <2>3. ASSUME NEW c \in Callers, AdmitProbe(c) PROVE Contract!Next
    <3>1. /\ cb'.state = cb.state /\ cb.state = HalfOpen
          /\ cb'.openFor = cb.openFor
      BY <2>3 DEF AdmitProbe, TypeOK, Breakers
    <3>2. \A d \in Callers : ~InCall(d)
      BY <2>3 DEF AdmitProbe, FlightInv, OnlyProbesInHalfOpen, ProbeHoldsSlot
    <3>3. Calls = {} /\ Probes = {} /\ Calls' = {} /\ Probes' = {c}
      BY <2>3, <3>2 DEF AdmitProbe, Enter, TypeOK
    <3>4. Contract!StartProbe(c)
      BY <3>1, <3>3 DEF Contract!StartProbe, HalfOpen
    <3>5. QED
      BY <3>4 DEF Contract!Next
  <2>4. ASSUME NEW c \in Callers, EnterHalfOpen(c) PROVE Contract!Next
    <3>1. /\ cb.state = Open /\ cb.openFor >= Timeout /\ cb'.state = HalfOpen
          /\ cb'.openFor = cb.openFor
      BY <2>4 DEF EnterHalfOpen, TimedOut, setState, Open, HalfOpen
    <3>2. \A d \in Callers : ~InCall(d)
      BY <2>4, QuietAtTimeout DEF EnterHalfOpen
    <3>3. Calls = {} /\ Probes = {} /\ Calls' = {} /\ Probes' = {c}
      BY <2>4, <3>2 DEF EnterHalfOpen, Enter, TypeOK
    <3>4. Contract!StartProbe(c)
      BY <3>1, <3>3 DEF Contract!StartProbe, Open, HalfOpen
    <3>5. QED
      BY <3>4 DEF Contract!Next
  <2>5. ASSUME NEW c \in Callers, NEW ok \in BOOLEAN, Complete(c, ok) PROVE Contract!Next
    <3>1. /\ cb' = Recorded(c, ok)
          /\ Calls' = Calls \ {c} /\ Probes' = Probes \ {c}
      BY <2>5 DEF Complete, TypeOK
    <3>2. CASE isProbe[c]
      <4>1. cb.state = HalfOpen /\ c \in Probes /\ c \notin Calls
        BY <2>5, <3>2 DEF Complete, FlightInv, ProbesOnlyInHalfOpen
      <4>2. Contract!EndProbe(c)
        BY <3>1, <4>1, RecordedFacts, ZenonT(40) DEF Contract!EndProbe, Closed, Open, HalfOpen
      <4>3. QED
        BY <4>2 DEF Contract!Next
    <3>3. CASE ~isProbe[c]
      <4>1. cb.state # HalfOpen /\ c \in Calls /\ c \notin Probes
        BY <2>5, <3>3 DEF Complete, FlightInv, OnlyProbesInHalfOpen
      <4>2. Contract!Return(c)
        BY <3>1, <4>1, RecordedFacts, ZenonT(40) DEF Contract!Return, Closed, Open, HalfOpen
      <4>3. QED
        BY <4>2 DEF Contract!Next
    <3>4. QED
      BY <3>2, <3>3
  <2>6. ASSUME NEW c \in Callers, Panic(c) PROVE Contract!Next
    <3>1. Calls' = Calls \ {c} /\ Probes' = Probes \ {c} /\ cb' = cb
      BY <2>6 DEF Panic, TypeOK
    <3>2. CASE isProbe[c]
      <4>1. cb.state = HalfOpen /\ c \in Probes /\ c \notin Calls
        BY <2>6, <3>2 DEF Panic, FlightInv, ProbesOnlyInHalfOpen
      <4>2. Contract!EndProbe(c)
        BY <3>1, <4>1 DEF Contract!EndProbe, HalfOpen
      <4>3. QED
        BY <4>2 DEF Contract!Next
    <3>3. CASE ~isProbe[c]
      <4>1. cb.state # HalfOpen /\ c \in Calls /\ c \notin Probes
        BY <2>6, <3>3 DEF Panic, FlightInv, OnlyProbesInHalfOpen
      <4>2. Contract!Return(c)
        BY <3>1, <4>1 DEF Contract!Return, HalfOpen
      <4>3. QED
        BY <4>2 DEF Contract!Next
    <3>4. QED
      BY <3>2, <3>3
  <2>7. \A c \in Callers : ~SetTo(c) /\ ~ClearFrom(c) /\ ~Reject(c)
    <3> SUFFICES ASSUME NEW c \in Callers, SetTo(c) \/ ClearFrom(c) \/ Reject(c)
                 PROVE  UNCHANGED <<cb, Calls, Probes>>
      OBVIOUS
    <3>1. /\ UNCHANGED <<cb, isProbe>>
          /\ \A d \in Callers : InCall(d)' <=> InCall(d)
      BY DEF SetTo, ClearFrom, Reject, vars, TypeOK
    <3>2. QED
      BY <3>1
  <2>8. ~UNCHANGED vars
    BY DEF vars
  <2>9. QED
    BY <2>1, <2>2, <2>3, <2>4, <2>5, <2>6, <2>7, <2>8 DEF Next
<1>3. QED
  BY <1>1, <1>2, FlightInvariant, PTL DEF Spec, ContractSpec, Contract!Spec

=============================================================================
