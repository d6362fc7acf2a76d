------------------------ MODULE MemoryLimiterProofs ------------------------
(***************************************************************************)
(* Proofs about MemoryLimiter: for any number of requests, any limits and  *)
(* any window, and whatever cleanup takes out of the map, tokens never go  *)
(* negative, a bucket never gives more than it has earned, and only a full *)
(* one is evicted.                                                         *)
(***************************************************************************)
EXTENDS MemoryLimiter, TLAPS

USE LimiterAssumption

(***************************************************************************)
(* Arithmetic.                                                             *)
(***************************************************************************)

\* A product of naturals is a natural.
LEMMA ProductNat == ASSUME NEW a \in Nat, NEW b \in Nat PROVE a * b \in Nat
OBVIOUS

\* Multiplication is monotone in its first factor.
LEMMA ProductMono ==
  ASSUME NEW a \in Nat, NEW b \in Nat, NEW n \in Nat, a <= b
  PROVE  a * n <= b * n
OBVIOUS

\* Multiplication distributes over consecutive spans of time.
LEMMA ProductSpans ==
  ASSUME NEW l \in Int, NEW x \in Int, NEW y \in Int, NEW z \in Int
  PROVE  l * (z - x) = l * (y - x) + l * (z - y)
OBVIOUS

(***************************************************************************)
(* What the critical section does to a bucket.                             *)
(***************************************************************************)

\* Refilling keeps the bucket well formed; it either moves lastRefill forward
\* and adds at most the elapsed time's worth, to no more than a full bucket, or
\* changes no token.
LEMMA RefillFacts ==
  ASSUME NEW b \in BucketRecords, NEW lim \in Limits, NEW now \in Times
  PROVE  LET c == refill(b, lim, now)
         IN  /\ c \in BucketRecords
             /\ c.born = b.born /\ c.granted = b.granted
             /\ \/ /\ now <= b.lastRefill
                   /\ c.tokens = b.tokens /\ c.lastRefill = b.lastRefill
                \/ /\ now > b.lastRefill
                   /\ c.lastRefill = now
                   /\ c.tokens <= b.tokens + (now - b.lastRefill) * lim
                   /\ c.tokens <= lim * Window
<1> DEFINE max == lim * Window
           up == AtMost(b.tokens + (now - b.lastRefill) * lim, max)
<1>1. lim \in Nat /\ max \in Nat /\ now \in Nat /\ b.lastRefill \in Nat /\ b.tokens \in Nat
  BY ProductNat DEF BucketRecords, Times
<1>2. CASE now > b.lastRefill
  <2>1. now - b.lastRefill \in Nat
    BY <1>1, <1>2
  <2>2. (now - b.lastRefill) * lim \in Nat
    BY <1>1, <2>1, ProductNat
  <2>3. up \in Nat /\ up <= b.tokens + (now - b.lastRefill) * lim /\ up <= lim * Window
    BY <1>1, <2>2 DEF AtMost
  <2>4. refill(b, lim, now) = [b EXCEPT !.tokens = up, !.lastRefill = now]
    BY <1>2 DEF refill
  <2> HIDE DEF max, up
  <2>5. refill(b, lim, now) = [tokens |-> up, lastRefill |-> now,
                               lastAccess |-> b.lastAccess, born |-> b.born,
                               granted |-> b.granted]
    BY <2>4 DEF BucketRecords
  <2>6. refill(b, lim, now) \in BucketRecords
    BY <1>1, <2>3, <2>5 DEF BucketRecords
  <2>7. QED
    BY <1>2, <2>3, <2>5, <2>6
<1>3. CASE ~(now > b.lastRefill)
  <2>1. refill(b, lim, now) = b
    BY <1>3 DEF refill
  <2>2. QED
    BY <1>1, <1>3, <2>1
<1>4. QED
  BY <1>2, <1>3

\* A grant costs exactly one token, which the bucket has.
LEMMA TakenFacts ==
  ASSUME NEW b \in BucketRecords, NEW lim \in Limits, NEW now \in Times
  PROVE  LET c == refill(b, lim, now)
             d == Taken(b, lim, now)
         IN  /\ d \in BucketRecords
             /\ d.born = b.born /\ d.lastRefill = c.lastRefill /\ d.lastAccess = now
             /\ \/ d.granted = b.granted /\ d.tokens = c.tokens
                \/ /\ d.granted = b.granted + 1
                   /\ d.tokens = c.tokens - Cost
<1> DEFINE c == refill(b, lim, now)
<1>1. c \in BucketRecords /\ c.born = b.born /\ c.granted = b.granted
  BY RefillFacts
<1>2. Taken(b, lim, now) =
        IF c.tokens >= Cost
        THEN [c EXCEPT !.lastAccess = now, !.tokens = @ - Cost, !.granted = @ + 1]
        ELSE [c EXCEPT !.lastAccess = now]
  BY DEF Taken
<1> HIDE DEF c
<1>3. CASE c.tokens >= Cost
  <2>1. c.tokens - Cost \in Nat /\ c.granted + 1 \in Nat
    BY <1>1, <1>3 DEF BucketRecords, Cost
  <2>2. Taken(b, lim, now) = [tokens |-> c.tokens - Cost,
                              lastRefill |-> c.lastRefill, lastAccess |-> now,
                              born |-> c.born, granted |-> c.granted + 1]
    BY <1>1, <1>2, <1>3 DEF BucketRecords
  <2>3. Taken(b, lim, now) \in BucketRecords
    BY <1>1, <2>1, <2>2 DEF BucketRecords
  <2>4. QED
    BY <1>1, <2>2, <2>3 DEF c
<1>4. CASE ~(c.tokens >= Cost)
  <2>1. Taken(b, lim, now) \in BucketRecords
    BY <1>1, <1>2, <1>4 DEF BucketRecords
  <2>2. QED
    BY <1>1, <1>2, <1>4, <2>1 DEF BucketRecords, c
<1>5. QED
  BY <1>3, <1>4

\* A fresh bucket is well formed and exactly full.
LEMMA NewBucketFacts ==
  ASSUME NEW lim \in Limits, NEW now \in Times
  PROVE  /\ NewBucket(lim, now) \in BucketRecords
         /\ NewBucket(lim, now).tokens = lim * Window
         /\ NewBucket(lim, now).granted = 0
         /\ NewBucket(lim, now).lastRefill = now
         /\ NewBucket(lim, now).lastAccess = now
         /\ NewBucket(lim, now).born = now
<1>1. lim * Window \in Nat
  BY ProductNat
<1>2. QED
  BY <1>1 DEF NewBucket, BucketRecords

(***************************************************************************)
(* Type correctness.                                                       *)
(***************************************************************************)

Calls == [at : {"idle", "load", "lock"}, now : Times,
          limit : Limits \cup {0}, bucket : Buckets \cup {Nil}]
Sweeps == [at : {"idle", "range", "delete"}, now : Times]

\* The initial state is well typed.
LEMMA TypeInit == Init => TypeOK
<1> SUFFICES ASSUME Init PROVE TypeOK
  OBVIOUS
<1>1. 0 \in Times /\ limit \in Limits
  BY DEF Init, Times
<1>2. heap \in [Buckets -> BucketRecords]
  BY <1>1, NewBucketFacts DEF Init
<1>3. Idle \in Calls /\ NoSweep \in Sweeps
  BY <1>1 DEF Idle, NoSweep, Calls, Sweeps
<1>4. QED
  BY <1>1, <1>2, <1>3 DEF Init, TypeOK, Calls, Sweeps, Idle

\* Every step keeps the state well typed.
LEMMA TypeStep == TypeOK /\ [Next]_vars => TypeOK'
<1> SUFFICES ASSUME TypeOK, [Next]_vars PROVE TypeOK'
  OBVIOUS
<1>1. ASSUME NEW r \in Requests, ReadClock(r) PROVE TypeOK'
  <2> DEFINE a == [at |-> "load", now |-> clock, limit |-> limit, bucket |-> Nil]
  <2>1. a \in Calls
    BY DEF TypeOK, Calls
  <2>2. call' = [call EXCEPT ![r] = a]
    BY <1>1 DEF ReadClock
  <2> HIDE DEF a
  <2>3. call' \in [Requests -> Calls]
    BY <2>1, <2>2 DEF TypeOK, Calls
  <2>4. \A q \in Requests : call'[q] = IF q = r THEN a ELSE call[q]
    BY <2>2 DEF TypeOK
  <2>5. a.at = "load" /\ a.bucket = Nil /\ a.limit \in Limits
    BY DEF a, TypeOK
  <2>6. QED
    BY <1>1, <2>3, <2>4, <2>5 DEF ReadClock, TypeOK, Calls
<1>2. ASSUME NEW r \in Requests, LoadOrStore(r) PROVE TypeOK'
  <2>1. PICK b \in Buckets :
          /\ call' = [call EXCEPT ![r] = Loaded(call[r], b)]
          /\ entry' = b
          /\ \/ heap' = heap
             \/ heap' = [heap EXCEPT ![b] = NewBucket(call[r].limit, call[r].now)]
    BY <1>2 DEF LoadOrStore, TypeOK
  <2> DEFINE a == [at |-> "lock", now |-> call[r].now, limit |-> call[r].limit, bucket |-> b]
  <2>2. call[r].limit \in Limits /\ call[r].now \in Times
    BY <1>2 DEF LoadOrStore, TypeOK
  <2>3. heap' \in [Buckets -> BucketRecords]
    BY <2>1, <2>2, NewBucketFacts DEF TypeOK
  <2>4. a \in Calls
    BY <2>2 DEF Calls
  <2>5. call' = [call EXCEPT ![r] = a]
    BY <2>1 DEF Loaded
  <2>6. a.at = "lock" /\ a.bucket # Nil /\ a.limit \in Limits
    BY <2>2
  <2> HIDE DEF a
  <2>7. call' \in [Requests -> Calls]
    BY <2>4, <2>5 DEF TypeOK, Calls
  <2>8. \A q \in Requests : call'[q] = IF q = r THEN a ELSE call[q]
    BY <2>5 DEF TypeOK
  <2>9. QED
    BY <1>2, <2>1, <2>3, <2>6, <2>7, <2>8 DEF LoadOrStore, TypeOK, Calls
<1>3. ASSUME NEW r \in Requests, Take(r) PROVE TypeOK'
  <2>1. call[r].bucket \in Buckets /\ call[r].limit \in Limits /\ call[r].now \in Times
    BY <1>3 DEF Take, TypeOK
  <2>2. heap' \in [Buckets -> BucketRecords]
    BY <1>3, <2>1, TakenFacts DEF Take, TypeOK
  <2>3. Idle \in Calls /\ Idle.at = "idle" /\ Idle.bucket = Nil
    BY DEF Idle, Calls, Times
  <2>4. call' = [call EXCEPT ![r] = Idle]
    BY <1>3 DEF Take
  <2>5. call' \in [Requests -> Calls]
    BY <2>3, <2>4 DEF TypeOK, Calls
  <2>6. \A q \in Requests : call'[q] = IF q = r THEN Idle ELSE call[q]
    BY <2>4 DEF TypeOK
  <2>7. QED
    BY <1>3, <2>2, <2>3, <2>5, <2>6 DEF Take, TypeOK, Calls
<1>4. CASE StartSweep \/ Inspect \/ Delete
  <2>1. sweep' \in Sweeps
    BY <1>4 DEF StartSweep, Inspect, Delete, NoSweep, TypeOK, Sweeps, Times
  <2>2. QED
    BY <1>4, <2>1 DEF StartSweep, Inspect, Delete, TypeOK, Sweeps
<1>5. CASE Reconfigure
  BY <1>5 DEF Reconfigure, TypeOK
<1>6. CASE Tick
  BY <1>6 DEF Tick, TypeOK, Times
<1>7. CASE UNCHANGED vars
  BY <1>7 DEF vars, TypeOK
<1>8. QED
  BY <1>1, <1>2, <1>3, <1>4, <1>5, <1>6, <1>7 DEF Next

\* Tokens never go below zero and no goroutine loses its bucket, whatever the
\* interleaving with cleanup.
THEOREM TypeCorrect == Spec => []TypeOK
  BY TypeInit, TypeStep, PTL DEF Spec

(***************************************************************************)
(* Conservation.                                                           *)
(***************************************************************************)

\* The conservation law for one bucket under the largest limit l.
Earned(b, l) == b.granted * Cost + b.tokens <= l * Window + l * (b.lastRefill - b.born)

\* A fresh bucket satisfies it.
LEMMA NewBucketEarned ==
  ASSUME NEW lim \in Limits, NEW now \in Times, NEW l \in Limits, lim <= l
  PROVE  Earned(NewBucket(lim, now), l)
<1>1. lim * Window <= l * Window
  BY ProductMono
<1>2. lim * Window \in Nat /\ l * Window \in Nat /\ l * (now - now) = 0 /\ 0 * Cost = 0
  BY ProductNat DEF Times, Cost
<1>3. QED
  BY <1>1, <1>2, NewBucketFacts DEF Earned

\* Allow's critical section preserves it: a refill is paid for by the time it
\* covers, a grant by the token it takes.
LEMMA TakenEarned ==
  ASSUME NEW b \in BucketRecords, NEW lim \in Limits, NEW now \in Times,
         NEW l \in Limits, lim <= l, Earned(b, l)
  PROVE  Earned(Taken(b, lim, now), l)
<1> DEFINE c == refill(b, lim, now)
           d == Taken(b, lim, now)
<1>1. /\ c \in BucketRecords
      /\ c.born = b.born /\ c.granted = b.granted
      /\ \/ c.tokens = b.tokens /\ c.lastRefill = b.lastRefill
         \/ /\ now > b.lastRefill
            /\ c.lastRefill = now
            /\ c.tokens <= b.tokens + (now - b.lastRefill) * lim
  BY RefillFacts, SMTT(40)
<1>2. /\ d \in BucketRecords
      /\ d.born = b.born /\ d.lastRefill = c.lastRefill
      /\ \/ d.granted = b.granted /\ d.tokens = c.tokens
         \/ d.granted = b.granted + 1 /\ d.tokens = c.tokens - Cost
  BY TakenFacts
<1> HIDE DEF c, d
<1>3. /\ b.born \in Int /\ b.lastRefill \in Int /\ now \in Int /\ l \in Nat /\ lim \in Nat
      /\ b.granted \in Nat /\ b.tokens \in Nat /\ c.tokens \in Nat /\ Cost \in Nat
      /\ c.lastRefill \in Int
  BY <1>1 DEF BucketRecords, Times, Cost
<1>4. Earned(c, l)
  <2>1. CASE c.tokens = b.tokens /\ c.lastRefill = b.lastRefill
    BY <1>1, <2>1 DEF Earned
  <2>2. CASE /\ now > b.lastRefill
             /\ c.lastRefill = now
             /\ c.tokens <= b.tokens + (now - b.lastRefill) * lim
    <3>1. now - b.lastRefill \in Nat
      BY <1>3, <2>2
    <3>2. lim * (now - b.lastRefill) <= l * (now - b.lastRefill)
      BY <1>3, <3>1, ProductMono
    <3>3. l * (now - b.born) = l * (b.lastRefill - b.born) + l * (now - b.lastRefill)
      BY <1>3, ProductSpans
    <3>4. (now - b.lastRefill) * lim = lim * (now - b.lastRefill)
      BY <1>3, <3>1
    <3>5. QED
      BY <1>1, <1>3, <2>2, <3>1, <3>2, <3>3, <3>4 DEF Earned
  <2>3. QED
    BY <1>1, <2>1, <2>2
<1>5. (b.granted + 1) * Cost = b.granted * Cost + Cost
  BY <1>3
<1>6. QED
  BY <1>1, <1>2, <1>3, <1>4, <1>5 DEF Earned, d

\* "Tokens refill at a steady rate of limit/window and each request consumes
\* one token", for every bucket there ever is, whatever order the goroutines'
\* clock reads reach its lock in.
THEOREM Conserves == Spec => []BucketConserves
<1>1. Init => BucketConserves
  <2> SUFFICES ASSUME Init, NEW b \in Buckets, NEW l \in Limits, \A m \in Limits : m <= l
               PROVE  Earned(heap[b], l)
    BY DEF BucketConserves, Earned
  <2>1. heap[b] = NewBucket(limit, 0) /\ limit \in Limits /\ 0 \in Times
    BY DEF Init, Times
  <2>2. QED
    BY <2>1, NewBucketEarned
<1>2. TypeOK /\ BucketConserves /\ [Next]_vars => BucketConserves'
  <2> SUFFICES ASSUME TypeOK, BucketConserves, [Next]_vars,
                      NEW b \in Buckets, NEW l \in Limits, \A m \in Limits : m <= l
               PROVE  Earned(heap'[b], l)
    BY DEF BucketConserves, Earned
  <2>1. Earned(heap[b], l) /\ heap[b] \in BucketRecords
    BY DEF BucketConserves, Earned, TypeOK
  <2>2. CASE UNCHANGED heap
    BY <2>1, <2>2
  <2>3. ASSUME NEW r \in Requests, LoadOrStore(r) PROVE Earned(heap'[b], l)
    <3>1. call[r].limit \in Limits /\ call[r].now \in Times
      BY <2>3 DEF LoadOrStore, TypeOK
    <3>2. heap'[b] = heap[b] \/ heap'[b] = NewBucket(call[r].limit, call[r].now)
      BY <2>3 DEF LoadOrStore, TypeOK
    <3>3. QED
      BY <2>1, <3>1, <3>2, NewBucketEarned
  <2>4. ASSUME NEW r \in Requests, Take(r) PROVE Earned(heap'[b], l)
    <3>1. call[r].limit \in Limits /\ call[r].now \in Times
      BY <2>4 DEF Take, TypeOK
    <3>2. heap'[b] = heap[b] \/ heap'[b] = Taken(heap[b], call[r].limit, call[r].now)
      BY <2>4 DEF Take, TypeOK
    <3>3. QED
      BY <2>1, <3>1, <3>2, TakenEarned
  <2>5. QED
    BY <2>2, <2>3, <2>4
    DEF Next, ReadClock, StartSweep, Inspect, Delete, Reconfigure, Tick, vars
<1>3. QED
  BY <1>1, <1>2, TypeCorrect, PTL DEF Spec

(***************************************************************************)
(* Time.                                                                   *)
(***************************************************************************)

\* What the clock reads of Allow have to do with the time they are used at: a
\* call in progress is not older than MaxDelay, no bucket was refilled in the
\* future, and its last access, which an overtaken call sets back, is not
\* further back than that.
Punctual ==
  /\ sweep.now <= clock
  /\ \A r \in Requests :
       call[r].at # "idle" => call[r].now <= clock /\ clock - call[r].now <= MaxDelay
  /\ \A b \in Buckets : /\ heap[b].lastRefill <= clock
                        /\ heap[b].lastRefill <= heap[b].lastAccess + MaxDelay

\* A bucket that a call in progress has made or used is punctual.
LEMMA UsedPunctually ==
  ASSUME NEW b \in BucketRecords, NEW lim \in Limits, NEW now \in Times,
         NEW time \in Times, now <= time, time - now <= MaxDelay, b.lastRefill <= time
  PROVE  \A d \in {NewBucket(lim, now), Taken(b, lim, now)} :
           d.lastRefill <= time /\ d.lastRefill <= d.lastAccess + MaxDelay
<1> DEFINE d == Taken(b, lim, now)
<1>1. now \in Nat /\ time \in Nat /\ b.lastRefill \in Nat
  BY DEF Times, BucketRecords
<1>2. NewBucket(lim, now).lastRefill = now /\ NewBucket(lim, now).lastAccess = now
  BY NewBucketFacts
<1>3. d.lastAccess = now /\ (d.lastRefill = b.lastRefill \/ d.lastRefill = now)
  <2>1. d.lastAccess = now /\ d.lastRefill = refill(b, lim, now).lastRefill
    BY TakenFacts
  <2>2. \/ refill(b, lim, now).lastRefill = b.lastRefill
        \/ refill(b, lim, now).lastRefill = now
    BY RefillFacts
  <2>3. QED
    BY <2>1, <2>2
<1> HIDE DEF d
<1>4. d.lastRefill <= time /\ d.lastRefill <= d.lastAccess + MaxDelay
  BY <1>1, <1>3
<1>5. QED
  BY <1>1, <1>2, <1>4 DEF d

\* Every step keeps the reads punctual: a tick waits for calls that are about
\* to be late.
LEMMA PunctualStep == TypeOK /\ Punctual /\ [Next]_vars => Punctual'
<1> SUFFICES ASSUME TypeOK, Punctual, [Next]_vars PROVE Punctual'
  OBVIOUS
<1>1. /\ clock \in Nat /\ sweep.now \in Nat /\ MaxDelay \in Nat
      /\ \A r \in Requests : call[r].now \in Nat
      /\ \A b \in Buckets : /\ heap[b] \in BucketRecords
                            /\ heap[b].lastRefill \in Nat /\ heap[b].lastAccess \in Nat
  BY DEF TypeOK, Times, BucketRecords
<1>2. ASSUME NEW r \in Requests, ReadClock(r) PROVE Punctual'
  <2>1. \A q \in Requests : call'[q] = IF q = r
          THEN [at |-> "load", now |-> clock, limit |-> limit, bucket |-> Nil] ELSE call[q]
    BY <1>2 DEF ReadClock, TypeOK
  <2>2. clock' = clock /\ heap' = heap /\ sweep' = sweep
    BY <1>2 DEF ReadClock
  <2>3. QED
    BY <1>1, <2>1, <2>2 DEF Punctual
<1>3. ASSUME NEW r \in Requests, LoadOrStore(r) \/ Take(r) PROVE Punctual'
  <2> DEFINE a == call[r]
  <2>1. /\ a.at # "idle" /\ a.now <= clock /\ clock - a.now <= MaxDelay
        /\ a.limit \in Limits /\ a.now \in Times /\ clock \in Times
    BY <1>3 DEF LoadOrStore, Take, TypeOK, Punctual
  <2>2. \A b \in Buckets : heap'[b] \in {heap[b], NewBucket(a.limit, a.now),
                                         Taken(heap[b], a.limit, a.now)}
    BY <1>3 DEF LoadOrStore, Take, TypeOK
  <2>3. /\ clock' = clock /\ sweep' = sweep
        /\ \A q \in Requests : call'[q].at # "idle" =>
             call[q].at # "idle" /\ call'[q].now = call[q].now
    BY <1>3 DEF LoadOrStore, Take, Loaded, Idle, TypeOK
  <2> HIDE DEF a
  <2>4. ASSUME NEW b \in Buckets
        PROVE  /\ heap'[b].lastRefill <= clock
               /\ heap'[b].lastRefill <= heap'[b].lastAccess + MaxDelay
    <3>1. heap[b].lastRefill <= clock /\ heap[b].lastRefill <= heap[b].lastAccess + MaxDelay
      BY DEF Punctual
    <3>2. CASE heap'[b] = heap[b]
      BY <3>1, <3>2
    <3>3. CASE heap'[b] \in {NewBucket(a.limit, a.now), Taken(heap[b], a.limit, a.now)}
      BY <1>1, <2>1, <3>1, <3>3, UsedPunctually
    <3>4. QED
      BY <2>2, <3>2, <3>3
  <2>5. QED
    BY <2>3, <2>4 DEF Punctual
<1>4. CASE StartSweep \/ Inspect \/ Delete
  <2>1. sweep'.now \in {sweep.now, 0, clock}
    BY <1>4 DEF StartSweep, Inspect, Delete, NoSweep, TypeOK
  <2>2. clock' = clock /\ heap' = heap /\ call' = call
    BY <1>4 DEF StartSweep, Inspect, Delete
  <2>3. QED
    BY <1>1, <2>1, <2>2 DEF Punctual
<1>5. CASE Tick
  BY <1>1, <1>5 DEF Tick, Punctual
<1>6. CASE Reconfigure \/ UNCHANGED vars
  BY <1>6 DEF Reconfigure, vars, Punctual
<1>7. QED
  BY <1>2, <1>3, <1>4, <1>5, <1>6 DEF Next

\* A clock read is used within MaxDelay, whatever overtakes it.
LEMMA PunctualInvariant == Spec => []Punctual
<1>1. Init => Punctual
  BY DEF Init, Punctual, NewBucket, Idle, NoSweep
<1>2. QED
  BY <1>1, PunctualStep, TypeCorrect, PTL DEF Spec

\* Where a window is not longer than the TTL, but for the delay of a call, a
\* bucket is evicted only when it is as good as the fresh one that will take
\* its place: nobody is admitted because of cleanup, and nobody is refused.
THEOREM EvictedFull ==
  ASSUME Window + MaxDelay <= EvictionTTL + 1
  PROVE  Spec => StaleIsFull
<1>1. TypeOK /\ Punctual /\ [Next]_vars =>
        [sweep.at = "range" /\ sweep'.at = "delete" =>
           heap[entry].tokens + (clock - heap[entry].lastRefill) * limit >= limit * Window]_vars
  <2> SUFFICES ASSUME TypeOK, Punctual, [Next]_vars,
                      sweep.at = "range", sweep'.at = "delete"
               PROVE  heap[entry].tokens + (clock - heap[entry].lastRefill) * limit >= limit * Window
    OBVIOUS
  <2> DEFINE b == heap[entry]
             d == clock - b.lastRefill
  <2>1. entry \in Buckets /\ Stale(entry)
    <3>1. Inspect
      BY DEF Next, vars, Tick, Reconfigure, StartSweep, Delete, NoSweep,
             ReadClock, LoadOrStore, Take, TypeOK
    <3>2. QED
      BY <3>1 DEF Inspect, NoSweep, TypeOK
  <2>2. /\ b.tokens \in Nat /\ b.lastRefill \in Nat /\ b.lastAccess \in Nat
        /\ clock \in Nat /\ sweep.now \in Nat /\ limit \in Nat
    BY <2>1 DEF TypeOK, BucketRecords, Times
  <2>3. d \in Nat /\ Window <= d
    BY <2>1, <2>2 DEF Stale, Punctual
  <2> HIDE DEF b, d
  <2>4. Window * limit <= d * limit /\ Window * limit = limit * Window /\ d * limit \in Nat
    BY <2>2, <2>3, ProductMono, ProductNat
  <2>5. QED
    BY <2>2, <2>4, ProductNat DEF b, d
<1>2. QED
  BY <1>1, TypeCorrect, PunctualInvariant, PTL DEF Spec, StaleIsFull

=============================================================================
