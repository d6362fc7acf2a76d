--------------------------- MODULE BreakerRecovery ---------------------------
(***************************************************************************)
(* Does a breaker recover once its upstream has?  The upstream is sick at  *)
(* first: calls fail or hang until the deadline.  At some moment it heals, *)
(* and from then on every call returns successfully.  fn does not panic    *)
(* here: what a panic does to the probe slot is CircuitBreaker's own       *)
(* question.                                                               *)
(*                                                                         *)
(* Fairness: the clock advances, a goroutine inside Execute keeps running, *)
(* fn ends (the proxy's context has a deadline) and the route keeps        *)
(* receiving requests.  Nothing is assumed about which caller comes next.  *)
(***************************************************************************)
EXTENDS CircuitBreaker

VARIABLE healthy

rvars == <<vars, healthy>>

Heal == ~healthy /\ healthy' = TRUE /\ UNCHANGED vars

Advance(c) ==
  \/ Complete(c, TRUE)
  \/ ~healthy /\ Complete(c, FALSE)
  \/ SetTo(c)
  \/ ClearFrom(c)

RInit == Init /\ healthy = FALSE

RNext ==
  \/ Heal
  \/ /\ \/ Tick
        \/ \E c \in Callers : Admit(c) \/ Reject(c) \/ Advance(c)
     /\ UNCHANGED healthy

Fairness ==
  /\ WF_rvars(Tick /\ UNCHANGED healthy)
  /\ WF_rvars((\E c \in Callers : Admit(c)) /\ UNCHANGED healthy)
  /\ \A c \in Callers : WF_rvars(Advance(c) /\ UNCHANGED healthy)

RSpec == RInit /\ [][RNext]_rvars /\ Fairness

-----------------------------------------------------------------------------
\* Once the upstream is healthy the breaker closes for good, whatever state,
\* counters, late calls and pending probes the sickness left behind.
Recovers == healthy ~> [](cb.state = Closed)

==============================================================================
