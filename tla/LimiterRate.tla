---------------------------- MODULE LimiterRate ----------------------------
(***************************************************************************)
(* What the in-memory limiter promises about the rate: an observer of      *)
(* MemoryLimiter that starts, at a moment of its choice, to count the      *)
(* requests that are admitted for the key, whichever bucket they are       *)
(* charged to, and the buckets that are in play.                           *)
(***************************************************************************)
EXTENDS MemoryLimiter, FiniteSets, TLC

\* There are finitely many goroutines at a time.
ASSUME RateAssumption == IsFiniteSet(Requests)

VARIABLE watch   \* whether and since when the observer counts; the requests
                 \* admitted and the buckets in play since then

wvars == <<vars, watch>>

Admitted(r) ==
  LET b == call[r].bucket
  IN  Take(r) /\ heap'[b].granted > heap[b].granted

\* Buckets that are no longer the key's, and still about to be charged.
Orphans == {b \in Buckets \ {entry} : Referenced(b)}

WInit == Init /\ watch = [on |-> FALSE, since |-> 0, admitted |-> 0, buckets |-> 0]

Observe ==
  /\ ~watch.on
  /\ watch' = [on |-> TRUE, since |-> clock, admitted |-> 0,
               buckets |-> 1 + Cardinality(Orphans)]
  /\ UNCHANGED vars

Count ==
  watch' = IF ~watch.on THEN watch
           ELSE [watch EXCEPT
                   !.admitted = IF \E r \in Requests : Admitted(r) THEN @ + 1 ELSE @,
                   !.buckets = IF entry # Nil /\ entry' = Nil THEN @ + 1 ELSE @]

WNext == Observe \/ (Next /\ Count)

WSpec == WInit /\ [][WNext]_wvars

Allowance(l) == l * (Window + clock - watch.since + MaxDelay)

\* "Tokens refill at a steady rate of limit/window and each request consumes
\* one token": from any moment on, each bucket in play admits at most limit
\* requests and limit/window times the time since, MaxDelay more for requests
\* that had read the clock before; and only an eviction brings another bucket
\* into play, though goroutines go on using the bucket that was evicted.
RateBound ==
  \A l \in Limits :
    (\A m \in Limits : m <= l) => watch.admitted * Cost <= watch.buckets * Allowance(l)

Symmetry == Permutations(Requests) \cup Permutations(Buckets)

=============================================================================
