---------------------------- MODULE MemoryLimiter ----------------------------
(***************************************************************************)
(* The in-memory token-bucket limiter: Allow, called by any number of      *)
(* request goroutines, and the cleanup goroutine that evicts idle buckets. *)
(*                                                                         *)
(* One key is modelled; keys share nothing but the clock.  Buckets are     *)
(* heap objects: a goroutine keeps the pointer LoadOrStore gave it while   *)
(* cleanup may take the bucket out of the map.  Allow reads the clock      *)
(* first, then loads the bucket, then locks it, and cleanup tests a bucket *)
(* under its lock and deletes the key after it: each of these is a step.   *)
(*                                                                         *)
(* Tokens are counted in units of 1/Window token, so that a tick refills   *)
(* exactly limit units and a request costs Window units: the float64       *)
(* arithmetic without its rounding.                                        *)
(***************************************************************************)
EXTENDS Integers

CONSTANTS
  Requests,     \* goroutines calling Allow
  Buckets,      \* addresses of bucket objects; unreferenced ones are reused
  Nil,          \* no bucket
  Limits,       \* the limits the route may be configured with
  Window,       \* the window, in ticks
  EvictionTTL,  \* evictionTTL, in ticks
  MaxDelay,     \* longest time between a goroutine's clock read and its lock
  MaxTime       \* bound on the clock

ASSUME LimiterAssumption ==
  /\ Nil \notin Buckets
  /\ Limits \subseteq Nat \ {0}
  /\ Window \in Nat \ {0}
  /\ EvictionTTL \in Nat
  /\ MaxDelay \in Nat
  /\ MaxTime \in Nat

VARIABLES
  clock,    \* time.Now
  limit,    \* the limit of the current configuration
  heap,     \* the bucket objects
  entry,    \* the key's entry in ml.buckets
  call,     \* each Allow: its place, its now, its limit and its bucket
  sweep     \* evictStale: its place and its now

vars == <<clock, limit, heap, entry, call, sweep>>

Cost == Window

Idle == [at |-> "idle", now |-> 0, limit |-> 0, bucket |-> Nil]
NoSweep == [at |-> "idle", now |-> 0]

\* maxTokens and refillRate are set from the caller's arguments before every
\* use, so a bucket does not carry them here.  born and granted are not in the
\* code: they record what a bucket has given.
NewBucket(lim, now) ==
  [tokens |-> lim * Window, lastRefill |-> now, lastAccess |-> now, born |-> now,
   granted |-> 0]

Init ==
  /\ clock = 0
  /\ limit \in Limits
  /\ heap = [b \in Buckets |-> NewBucket(limit, 0)]
  /\ entry = Nil
  /\ call = [r \in Requests |-> Idle]
  /\ sweep = NoSweep

-----------------------------------------------------------------------------
(* Allow.                                                                  *)

ReadClock(r) ==
  /\ call[r].at = "idle"
  /\ call' = [call EXCEPT ![r] = [at |-> "load", now |-> clock, limit |-> limit, bucket |-> Nil]]
  /\ UNCHANGED <<clock, limit, heap, entry, sweep>>

Referenced(b) == b = entry \/ \E r \in Requests : call[r].bucket = b

Loaded(a, b) == [at |-> "lock", now |-> a.now, limit |-> a.limit, bucket |-> b]

\* LoadOrStore: one atomic step of the sync.Map.
LoadOrStore(r) ==
  /\ call[r].at = "load"
  /\ \/ /\ entry # Nil
        /\ call' = [call EXCEPT ![r] = Loaded(@, entry)]
        /\ UNCHANGED <<heap, entry>>
     \/ /\ entry = Nil
        /\ \E b \in Buckets :
             /\ ~Referenced(b)
             /\ heap' = [heap EXCEPT ![b] = NewBucket(call[r].limit, call[r].now)]
             /\ entry' = b
             /\ call' = [call EXCEPT ![r] = Loaded(@, b)]
  /\ UNCHANGED <<clock, limit, sweep>>

AtMost(n, m) == IF n > m THEN m ELSE n

\* Fault: an overtaken request sets the time of the last refill back.
refill_Rewinds(b, lim, now) ==
  [b EXCEPT !.tokens = IF now > b.lastRefill
                       THEN AtMost(@ + (now - b.lastRefill) * lim, lim * Window)
                       ELSE @,
            !.lastRefill = now]

\* Fault: a refill does not stop at the maximum.
refill_Uncapped(b, lim, now) ==
  IF now > b.lastRefill
  THEN [b EXCEPT !.tokens = @ + (now - b.lastRefill) * lim,
                 !.lastRefill = now]
  ELSE b

\* The parameters are brought up to date and elapsed time is credited; a clock
\* read that is not newer than the last refill credits nothing.
refill(b, lim, now) ==
  IF now > b.lastRefill
  THEN [b EXCEPT !.tokens = AtMost(@ + (now - b.lastRefill) * lim, lim * Window),
                 !.lastRefill = now]
  ELSE b

\* Fault: an empty bucket is charged as well.
Taken_Overdraws(b, lim, now) ==
  [refill(b, lim, now) EXCEPT !.lastAccess = now, !.tokens = @ - Cost, !.granted = @ + 1]

\* The bucket after the critical section.
Taken(b, lim, now) ==
  LET full == refill(b, lim, now)
  IN  IF full.tokens >= Cost
      THEN [full EXCEPT !.lastAccess = now, !.tokens = @ - Cost, !.granted = @ + 1]
      ELSE [full EXCEPT !.lastAccess = now]

Take(r) ==
  LET a == call[r]
  IN  /\ a.at = "lock"
      /\ heap' = [heap EXCEPT ![a.bucket] = Taken(@, a.limit, a.now)]
      /\ call' = [call EXCEPT ![r] = Idle]
      /\ UNCHANGED <<clock, limit, entry, sweep>>

-----------------------------------------------------------------------------
(* cleanup.  The ticker's phase is arbitrary: a sweep may start any time.  *)

StartSweep ==
  /\ sweep.at = "idle"
  /\ sweep' = [at |-> "range", now |-> clock]
  /\ UNCHANGED <<clock, limit, heap, entry, call>>

\* Fault: a bucket that has been idle for the TTL less a tick is stale too.
Stale_Early(b) == sweep.now - heap[b].lastAccess >= EvictionTTL

Stale(b) == sweep.now - heap[b].lastAccess > EvictionTTL

\* Range visits the key, if it is there, and tests its bucket under the lock.
Inspect ==
  /\ sweep.at = "range"
  /\ sweep' = IF entry # Nil /\ Stale(entry)
              THEN [sweep EXCEPT !.at = "delete"]
              ELSE NoSweep
  /\ UNCHANGED <<clock, limit, heap, entry, call>>

\* Delete removes the key, whatever its bucket is by now.
Delete ==
  /\ sweep.at = "delete"
  /\ entry' = Nil
  /\ sweep' = NoSweep
  /\ UNCHANGED <<clock, limit, heap, call>>

-----------------------------------------------------------------------------
\* A reload gives later requests another limit.
Reconfigure ==
  /\ \E l \in Limits \ {limit} : limit' = l
  /\ UNCHANGED <<clock, heap, entry, call, sweep>>

\* A goroutine is not suspended for more than MaxDelay inside Allow.
Tick ==
  /\ clock < MaxTime
  /\ \A r \in Requests : call[r].at # "idle" => clock - call[r].now < MaxDelay
  /\ clock' = clock + 1
  /\ UNCHANGED <<limit, heap, entry, call, sweep>>

Next ==
  \/ Tick
  \/ Reconfigure
  \/ StartSweep \/ Inspect \/ Delete
  \/ \E r \in Requests : ReadClock(r) \/ LoadOrStore(r) \/ Take(r)

Spec == Init /\ [][Next]_vars

-----------------------------------------------------------------------------
Times == 0..MaxTime

BucketRecords ==
  [tokens : Nat, lastRefill : Times, lastAccess : Times,
   born : Times, granted : Nat]

\* Tokens never go below zero, and every goroutine past LoadOrStore has a
\* bucket, even when cleanup has taken it out of the map.
TypeOK ==
  /\ clock \in Times
  /\ limit \in Limits
  /\ heap \in [Buckets -> BucketRecords]
  /\ entry \in Buckets \cup {Nil}
  /\ call \in [Requests -> [at : {"idle", "load", "lock"}, now : Times,
                            limit : Limits \cup {0}, bucket : Buckets \cup {Nil}]]
  /\ \A r \in Requests : /\ call[r].at = "lock" <=> call[r].bucket # Nil
                         /\ call[r].at # "idle" => call[r].limit \in Limits
  /\ sweep \in [at : {"idle", "range", "delete"}, now : Times]

\* However the goroutines' clock reads overtake each other, a bucket never
\* gives more than its initial fill and a steady rate of limit per window
\* since it was made.
BucketConserves ==
  \A b \in Buckets : \A l \in Limits :
    (\A m \in Limits : m <= l)
      => heap[b].granted * Cost + heap[b].tokens
           <= l * Window + l * (heap[b].lastRefill - heap[b].born)

\* A bucket found stale could not have refused a request any more: it has had
\* the time to refill completely.  (Needs a window that is not longer than the
\* TTL, less the delay of a goroutine that touches the bucket late.)
StaleIsFull ==
  [][sweep.at = "range" /\ sweep'.at = "delete" =>
       heap[entry].tokens + (clock - heap[entry].lastRefill) * limit >= limit * Window]_vars

==============================================================================
