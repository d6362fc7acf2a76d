--------------------------- MODULE BreakerContract ---------------------------
(***************************************************************************)
(* What a circuit breaker promises its route, independently of counters,   *)
(* locks and callbacks: Closed -> Open -> HalfOpen -> Closed, where an     *)
(* open breaker rests for Timeout before it lets anything through, a       *)
(* half-open breaker has at most one probe outstanding and nothing else,   *)
(* and only the outcome of that probe decides whether it closes or         *)
(* re-opens (the comment on type CircuitBreaker in circuitbreaker.go).     *)
(***************************************************************************)
EXTENDS Naturals

CONSTANTS
  Callers,   \* the goroutines that may have a call outstanding
  Timeout    \* how long an open breaker rests

VARIABLES
  phase,     \* "closed", "open" or "half_open"
  rest,      \* time since the breaker last opened, up to Timeout
  calls,     \* callers with an ordinary call outstanding
  probes     \* callers with a probe outstanding

vars == <<phase, rest, calls, probes>>

Init ==
  /\ phase = "closed"
  /\ rest = 0
  /\ calls = {}
  /\ probes = {}

\* Ordinary calls start only while the breaker is closed.
Call(c) ==
  /\ phase = "closed"
  /\ c \notin calls \cup probes
  /\ calls' = calls \cup {c}
  /\ UNCHANGED <<phase, rest, probes>>

\* An ordinary call returns; it may trip a closed breaker, nothing else.
Return(c) ==
  /\ phase # "half_open"
  /\ c \in calls
  /\ calls' = calls \ {c}
  /\ \/ UNCHANGED <<phase, rest>>
     \/ phase = "closed" /\ phase' = "open" /\ rest' = 0
  /\ UNCHANGED probes

\* A probe starts alone, and after the rest.
StartProbe(c) ==
  /\ phase = "half_open" \/ (phase = "open" /\ rest >= Timeout)
  /\ calls = {} /\ probes = {}
  /\ phase' = "half_open"
  /\ probes' = {c}
  /\ UNCHANGED <<rest, calls>>

\* The probe returns and settles what comes next.
EndProbe(c) ==
  /\ phase = "half_open"
  /\ c \in probes
  /\ probes' = probes \ {c}
  /\ \/ phase' \in {"half_open", "closed"} /\ UNCHANGED rest
     \/ phase' = "open" /\ rest' = 0
  /\ UNCHANGED calls

Pass ==
  /\ rest' = IF rest < Timeout THEN rest + 1 ELSE rest
  /\ UNCHANGED <<phase, calls, probes>>

Next ==
  \/ Pass
  \/ \E c \in Callers : Call(c) \/ Return(c) \/ StartProbe(c) \/ EndProbe(c)

Spec == Init /\ [][Next]_vars

==============================================================================
