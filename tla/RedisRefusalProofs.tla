------------------------- MODULE RedisRefusalProofs -------------------------
(***************************************************************************)
(* What the Redis limiter tells the clients it turns away, for every       *)
(* number of requests, every limit and window, every lag, lead and number  *)
(* of retries: a refusal is justified, and the time it names is right.     *)
(***************************************************************************)
EXTENDS RedisLimiterProofs, WellFoundedInduction

USE RedisAssumption DEF RedisAssumption

(***************************************************************************)
(* What the scripts return.                                                *)
(***************************************************************************)

\* A full bucket and the cost of a request are numbers, and a request fits
\* into an empty bucket.
LEMMA CapacityFacts == Capacity \in Nat /\ Cost \in Nat \ {0} /\ Cost <= Capacity
<1>1. Limit * Window \in Nat /\ 1 * Window <= Limit * Window
  OBVIOUS
<1>2. QED
  BY <1>1 DEF Capacity, Cost

\* What has leaked is never more than what was there, and never negative.
LEMMA LeakedFacts ==
  ASSUME NEW level \in 0..Capacity, NEW last \in Nat, NEW now \in Nat
  PROVE  leaked([level |-> level, last_update |-> last], now) \in 0..Capacity
<1> DEFINE out == (now - last) * Limit
<1>1. now > last => out \in Nat
  OBVIOUS
<1>2. Capacity \in Nat
  BY CapacityFacts
<1>3. now > last => Max({level - out, 0}) = IF level - out >= 0 THEN level - out ELSE 0
  BY <1>1, <1>2, MaxPair
<1> HIDE DEF out
<1>4. leaked([level |-> level, last_update |-> last], now)
        = IF now > last THEN Max({level - out, 0}) ELSE level
  BY DEF leaked, out
<1>5. QED
  BY <1>1, <1>2, <1>3, <1>4

\* The sliding window's verdict: either a place was free and is taken, or the
\* window is as full as the limit and nothing is added.
LEMMA SlidingVerdict ==
  ASSUME NEW r \in Requests, NEW members \in SUBSET Requests, NEW now,
         Cardinality(members) <= Limit
  PROVE  LET kept == Trimmed(members, now)
             v == slidingWindow(r, members, now)
         IN  /\ kept \subseteq members /\ IsFiniteSet(kept) /\ Cardinality(kept) \in Nat
             /\ v.ok <=> Cardinality(kept) < Limit
             /\ v.ok \in BOOLEAN
             /\ v.ok => v.members = kept \cup {r}
             /\ ~v.ok => /\ v.members = kept /\ Cardinality(kept) = Limit
                         /\ v.resetAt = Min({Score(m) : m \in kept}) + Window
             /\ v.members \subseteq Requests /\ Cardinality(v.members) <= Limit
             /\ v.level = 0 /\ v.last_update = 0
<1> DEFINE kept == Trimmed(members, now)
           v == slidingWindow(r, members, now)
<1>1. kept \subseteq members
  BY DEF Trimmed
<1>2. /\ IsFiniteSet(kept) /\ Cardinality(kept) \in Nat
      /\ Cardinality(members) \in Nat /\ Cardinality(kept) <= Cardinality(members)
  BY <1>1, Counting
<1> HIDE DEF kept
<1>3. Cardinality(kept \cup {r}) = IF r \in kept THEN Cardinality(kept) ELSE Cardinality(kept) + 1
  BY <1>2, FS_AddElement
<1> DEFINE ok == Cardinality(kept) < Limit
<1>4. v = IF ok THEN Verdict(ok, kept \cup {r}, 0, 0, now + Window)
                ELSE Verdict(ok, kept, 0, 0, Min({Score(m) : m \in kept}) + Window)
  BY Zenon DEF slidingWindow, kept
<1> HIDE DEF v
<1>5. v.ok \in BOOLEAN /\ (v.ok <=> ok)
  <2>1. ok \in BOOLEAN
    OBVIOUS
  <2> HIDE DEF ok
  <2>2. v.ok = ok
    BY <1>4, Zenon DEF Verdict
  <2>3. QED
    BY <2>1, <2>2, Zenon
<1>6. CASE ok
  BY <1>1, <1>2, <1>3, <1>4, <1>5, <1>6 DEF Verdict, kept, v
<1>7. CASE ~ok
  BY <1>1, <1>2, <1>4, <1>5, <1>7 DEF Verdict, kept, v
<1>8. QED
  BY <1>6, <1>7

\* A script of the sliding window adds no request but its own, and that only
\* when it admits it.
LEMMA SlidingMembers ==
  ASSUME NEW r, NEW members, NEW now
  PROVE  /\ slidingWindow(r, members, now).members \subseteq members \cup {r}
         /\ \/ slidingWindow(r, members, now).ok
            \/ slidingWindow(r, members, now).members \subseteq members
<1> DEFINE kept == Trimmed(members, now)
           v == slidingWindow(r, members, now)
           ok == Cardinality(kept) < Limit
<1>1. kept \subseteq members
  BY DEF Trimmed
<1>2. v = IF ok THEN Verdict(ok, kept \cup {r}, 0, 0, now + Window)
                ELSE Verdict(ok, kept, 0, 0, Min({Score(m) : m \in kept}) + Window)
  BY Zenon DEF slidingWindow
<1> HIDE DEF kept, v, ok
<1>3. CASE ok
  <2>1. v.ok /\ v.members = kept \cup {r}
    BY <1>2, <1>3, Zenon DEF Verdict
  <2>2. QED
    BY <1>1, <2>1 DEF v
<1>4. CASE ~ok
  <2>1. v.members = kept
    BY <1>2, <1>4, Zenon DEF Verdict
  <2>2. QED
    BY <1>1, <2>1 DEF v
<1>5. QED
  BY <1>3, <1>4

\* The leaky bucket's verdict: it admits exactly when there is room, stores the
\* level and its own time, and names the time at which there will be room.
LEMMA LeakyVerdict ==
  ASSUME NEW level \in 0..Capacity, NEW last \in Nat, NEW now \in Nat
  PROVE  LET h == [level |-> level, last_update |-> last]
             left == leaked(h, now)
             v == leakyBucket(h, now)
         IN  /\ left \in 0..Capacity
             /\ v.ok <=> left + Cost <= Capacity
             /\ v.ok \in BOOLEAN
             /\ v.members = {} /\ v.level \in 0..Capacity /\ v.last_update = now
             /\ ~v.ok => /\ v.level = left
                         /\ v.resetAt = now + Ceil(left + Cost - Capacity, Limit)
<1> DEFINE h == [level |-> level, last_update |-> last]
           left == leaked(h, now)
           v == leakyBucket(h, now)
           ok == left + Cost <= Capacity
<1>1. left \in 0..Capacity /\ Capacity \in Nat /\ Cost \in Nat
  BY LeakedFacts, CapacityFacts
<1>2. v = IF ok THEN Verdict(ok, {}, left + Cost, now, now + Ceil(left + Cost, Limit))
                ELSE Verdict(ok, {}, left, now, now + Ceil(left + Cost - Capacity, Limit))
  BY Zenon DEF leakyBucket
<1>3. v.ok \in BOOLEAN /\ (v.ok <=> ok)
  <2>1. ok \in BOOLEAN
    OBVIOUS
  <2> HIDE DEF ok, v, left, h
  <2>2. v.ok = ok
    BY <1>2, Zenon DEF Verdict
  <2>3. QED
    BY <2>1, <2>2, Zenon
<1> HIDE DEF v, left, h
<1>4. CASE ok
  BY <1>1, <1>2, <1>3, <1>4 DEF Verdict, v, left, h
<1>5. CASE ~ok
  BY <1>1, <1>2, <1>3, <1>5 DEF Verdict, v, left, h
<1>6. QED
  BY <1>4, <1>5

\* A set of times has an earliest one.
LEMMA MinFacts ==
  ASSUME NEW S \in SUBSET Nat, S # {}
  PROVE  Min(S) \in S /\ \A x \in S : Min(S) <= x
<1>1. \E x \in S : \A y \in S : ~(<<y, x>> \in OpToRel(<, Nat))
  BY NatLessThanWellFounded, WFMin
<1>2. \A x, y \in Nat : y < x => <<y, x>> \in OpToRel(<, Nat)
  <2>1. \A x, y \in Nat : <<y, x>> \in Nat \X Nat /\ <<y, x>>[1] = y /\ <<y, x>>[2] = x
    OBVIOUS
  <2>2. QED
    BY <2>1, Zenon DEF OpToRel
<1>3. \E x \in S : \A y \in S : ~(y < x)
  BY <1>1, <1>2, Zenon
<1>4. \E x \in S : \A y \in S : x <= y
  BY <1>3
<1>5. QED
  BY <1>4 DEF Min

\* Division rounds down, and Ceil rounds up.
LEMMA Division ==
  ASSUME NEW n \in Int, NEW d \in Nat \ {0}
  PROVE  /\ n \div d \in Int /\ (n \div d) * d <= n /\ n < (n \div d) * d + d
         /\ Ceil(n, d) \in Int /\ Ceil(n, d) * d >= n
<1>1. /\ n \div d \in Int /\ (n \div d) * d <= n /\ n < (n \div d) * d + d
  OBVIOUS
<1>2. /\ (n + d - 1) \div d \in Int
      /\ n + d - 1 < ((n + d - 1) \div d) * d + d
  OBVIOUS
<1>3. QED
  BY <1>1, <1>2 DEF Ceil

(***************************************************************************)
(* The reset is not too early: from then on a script that finds the key as *)
(* the refusal left it admits the request.                                 *)
(***************************************************************************)

\* At the reset the oldest request leaves the window, which was just full.
LEMMA SlidingAgain ==
  ASSUME NEW r \in Requests, NEW kept \in SUBSET Requests, Cardinality(kept) = Limit,
         \A m \in Requests : Score(m) \in Nat,
         NEW t \in Int, t >= Min({Score(m) : m \in kept}) + Window
  PROVE  slidingWindow(r, kept, t).ok
<1> DEFINE scores == {Score(m) : m \in kept}
           left == Trimmed(kept, t)
<1>1. IsFiniteSet(kept) /\ kept # {}
  BY Counting, FS_EmptySet
<1>2. Min(scores) \in scores
  <2>1. scores \in SUBSET Nat /\ scores # {}
    BY <1>1
  <2> HIDE DEF scores
  <2>2. QED
    BY <2>1, MinFacts
<1>3. PICK oldest \in kept : Score(oldest) = Min(scores)
  BY <1>2
<1>4. oldest \notin left
  BY <1>3 DEF Trimmed
<1>5. left \subseteq kept /\ left # kept
  BY <1>3, <1>4 DEF Trimmed
<1> HIDE DEF left
<1>6. Cardinality(left) < Cardinality(kept) /\ Cardinality(left) \in Nat
  BY <1>1, <1>5, Counting, FS_Subset
<1>7. slidingWindow(r, kept, t).ok <=> Cardinality(left) < Limit
  <2>1. Cardinality(kept) <= Limit
    OBVIOUS
  <2>2. QED
    BY <2>1, SlidingVerdict, Zenon DEF left
<1>8. QED
  BY <1>6, <1>7

\* At the reset enough has leaked for one more request.
LEMMA LeakyAgain ==
  ASSUME NEW level \in 0..Capacity, NEW now \in Nat, level + Cost > Capacity,
         NEW t \in Nat, t >= now + Ceil(level + Cost - Capacity, Limit)
  PROVE  leakyBucket([level |-> level, last_update |-> now], t).ok
<1> DEFINE h == [level |-> level, last_update |-> now]
           n == level + Cost - Capacity
           out == (t - now) * Limit
<1>1. Capacity \in Nat /\ Cost \in Nat /\ Cost <= Capacity /\ n \in Nat \ {0}
  BY CapacityFacts
<1>2. Ceil(n, Limit) \in Int /\ Ceil(n, Limit) * Limit >= n
  BY <1>1, Division
<1> HIDE DEF n
<1>3. t - now \in Int /\ t - now >= Ceil(n, Limit)
  BY <1>2 DEF n
<1>4. out \in Int /\ out >= n
  <2>1. \A a, b \in Int : a >= b => a * Limit >= b * Limit
    OBVIOUS
  <2>2. (t - now) * Limit >= Ceil(n, Limit) * Limit
    BY <1>2, <1>3, <2>1
  <2>3. (t - now) * Limit \in Int /\ Ceil(n, Limit) * Limit \in Int
    BY <1>2, <1>3
  <2>4. QED
    BY <1>1, <1>2, <2>2, <2>3
<1>5. t > now
  <2>1. SUFFICES ASSUME t - now <= 0 PROVE FALSE
    BY <1>3
  <2>2. (t - now) * Limit <= 0
    BY <1>3, <2>1
  <2>3. QED
    BY <1>1, <1>4, <2>2
<1> HIDE DEF out
<1>6. leaked(h, t) = Max({level - out, 0})
  BY <1>5 DEF leaked, out
<1>7. Max({level - out, 0}) = IF level - out >= 0 THEN level - out ELSE 0
  BY <1>1, <1>4, MaxPair
<1>8. leaked(h, t) + Cost <= Capacity
  BY <1>1, <1>4, <1>6, <1>7 DEF n
<1>9. QED
  BY <1>8, LeakyVerdict

(***************************************************************************)
(* Type correctness.  The copies of a command on the wire are bounded by   *)
(* the retries of the call that is still waiting for it.                   *)
(***************************************************************************)

OnTheWire(r) ==
  /\ call[r].at = "idle" => wire[r] = 0 /\ call[r].retries = 0
  /\ call[r].at = "sent" => wire[r] <= call[r].retries + 1

TypeInv == TypeOK /\ \A r \in Requests : OnTheWire(r)

\* What the key holds for a script is as well-formed as what it stores.
LEMMA StoredFacts ==
  ASSUME TypeOK, NEW now \in Nat
  PROVE  /\ Members \in SUBSET Requests /\ Cardinality(Members) <= Limit
         /\ \E level \in 0..Capacity, last \in Nat :
              Stored(now) = [level |-> level, last_update |-> last]
<1>1. Members \in SUBSET Requests /\ Cardinality(Members) <= Limit
  BY FS_EmptySet DEF Members, TypeOK
<1>2. hash.level \in 0..Capacity /\ hash.last_update \in Nat
      /\ hash = [level |-> hash.level, last_update |-> hash.last_update]
  BY DEF TypeOK
<1>3. 0 \in 0..Capacity
  BY CapacityFacts
<1>4. QED
  BY <1>1, <1>2, <1>3 DEF Stored

\* Both scripts leave a well-formed key behind.
LEMMA ScriptFacts ==
  ASSUME TypeOK, NEW r \in Requests
  PROVE  LET v == Script(r)
         IN  /\ v.ok \in BOOLEAN
             /\ v.members \subseteq Requests /\ Cardinality(v.members) <= Limit
             /\ v.level \in 0..Capacity /\ v.last_update \in Nat
<1> DEFINE now == call[r].now
           v == Script(r)
<1>1. now \in Nat
  BY DEF TypeOK
<1>2. /\ Members \in SUBSET Requests /\ Cardinality(Members) <= Limit
      /\ \E level \in 0..Capacity, last \in Nat :
           Stored(now) = [level |-> level, last_update |-> last]
  BY <1>1, StoredFacts
<1>3. CASE Sliding
  <2>1. v = slidingWindow(r, Members, now)
    BY <1>3 DEF Script
  <2>2. v.ok \in BOOLEAN
    <3> HIDE DEF v, now
    <3>1. QED
      BY <1>2, <2>1, SlidingVerdict, Zenon
  <2>3. /\ v.members \subseteq Requests /\ Cardinality(v.members) <= Limit
        /\ v.level = 0 /\ v.last_update = 0
    <3> HIDE DEF v, now
    <3>1. QED
      BY <1>2, <2>1, SlidingVerdict, Zenon
  <2>4. v.level \in 0..Capacity /\ v.last_update \in Nat
    BY <2>3, CapacityFacts
  <2>5. QED
    BY <2>2, <2>3, <2>4, Zenon
<1>4. CASE ~Sliding
  <2>1. v = leakyBucket(Stored(now), now)
    BY <1>4 DEF Script
  <2>2. PICK level \in 0..Capacity, last \in Nat :
          Stored(now) = [level |-> level, last_update |-> last]
    BY <1>2
  <2>3. v.ok \in BOOLEAN
    <3> HIDE DEF v, now
    <3>1. QED
      BY <1>1, <2>1, <2>2, LeakyVerdict
  <2>4. v.members = {} /\ v.level \in 0..Capacity /\ v.last_update = now
    <3> HIDE DEF v, now
    <3>1. QED
      BY <1>1, <2>1, <2>2, LeakyVerdict
  <2>5. /\ v.members \subseteq Requests /\ Cardinality(v.members) <= Limit
        /\ v.last_update \in Nat
    <3> HIDE DEF v
    <3>1. QED
      BY <1>1, <2>4, FS_EmptySet
  <2>6. QED
    BY <2>3, <2>4, <2>5, Zenon
<1>5. QED
  BY <1>3, <1>4

\* A script keeps the types.
LEMMA TypeExecute ==
  ASSUME TypeInv, NEW r \in Requests, Execute(r)
  PROVE  TypeInv'
<1> DEFINE v == Script(r)
<1>1. TypeOK
  BY DEF TypeInv
<1>2. /\ v.ok \in BOOLEAN
      /\ v.members \subseteq Requests /\ Cardinality(v.members) <= Limit
      /\ v.level \in 0..Capacity /\ v.last_update \in Nat
  BY <1>1, ScriptFacts
<1>3. /\ wire[r] > 0
      /\ wire' = [wire EXCEPT ![r] = @ - 1]
      /\ zset' = v.members
      /\ hash' = [level |-> v.level, last_update |-> v.last_update]
      /\ expireAt' = IF v.ok \/ ~Sliding THEN clock + Window ELSE expireAt
      /\ charged' = [charged EXCEPT ![r] = IF v.ok /\ @ = Never THEN clock ELSE @]
      /\ orderly' = (orderly /\ (Sliding \/ InOrder(r)))
      /\ (call[r].at = "sent" /\ Deliver(r, v)) \/ UNCHANGED call
      /\ algorithm' = algorithm /\ clock' = clock
  BY Zenon DEF Execute
<1>4. \/ UNCHANGED call
      \/ /\ call[r].at = "sent"
         /\ \E told \in {"allowed", "rejected"} :
              call' = [call EXCEPT ![r] = [at |-> "done", now |-> call[r].now,
                                           retries |-> 0, reply |-> told]]
  BY <1>3 DEF Deliver
<1> HIDE DEF v
<1>5. orderly' \in BOOLEAN
  BY <1>3, Zenon
<1>6. /\ wire' \in [Requests -> 0..MaxRetries + 1]
      /\ expireAt' \in Nat \cup {Never}
      /\ charged' \in [Requests -> Nat \cup {Never}]
      /\ hash' \in [level : 0..Capacity, last_update : Nat]
  <2>1. wire[r] - 1 \in 0..MaxRetries + 1
    BY <1>1, <1>3 DEF TypeOK
  <2>2. clock \in Nat /\ clock + Window \in Nat
    BY <1>1 DEF TypeOK
  <2>3. QED
    BY <1>1, <1>2, <1>3, <2>1, <2>2 DEF TypeOK
<1>7. call' \in [Requests -> [at : {"idle", "sent", "done"}, now : Nat,
                               retries : 0..MaxRetries,
                               reply : {"none", "allowed", "rejected", "error"}]]
  BY <1>1, <1>4 DEF TypeOK
<1>8. TypeOK'
  BY <1>1, <1>2, <1>3, <1>5, <1>6, <1>7 DEF TypeOK
<1>9. \A s \in Requests : OnTheWire(s)'
  <2> SUFFICES ASSUME NEW s \in Requests PROVE OnTheWire(s)'
    OBVIOUS
  <2>1. OnTheWire(s) /\ wire[s] \in 0..MaxRetries + 1 /\ call[s].retries \in 0..MaxRetries
    BY <1>1 DEF TypeInv, TypeOK
  <2>2. wire'[s] \in Nat /\ wire'[s] <= wire[s]
    BY <1>1, <1>3, <2>1 DEF TypeOK
  <2>3. call'[s] = call[s] \/ call'[s].at = "done"
    BY <1>1, <1>4 DEF TypeOK
  <2>4. QED
    BY <2>1, <2>2, <2>3 DEF OnTheWire
<1>10. QED
  BY <1>8, <1>9 DEF TypeInv

\* The clock and the gateways' own steps keep the types.
LEMMA TypeOther ==
  ASSUME TypeInv,
         Tick \/ \E r \in Requests : Send(r) \/ Resend(r) \/ Lose(r) \/ GiveUp(r)
  PROVE  TypeInv'
<1>1. TypeOK
  BY DEF TypeInv
<1>2. CASE Tick
  BY <1>1, <1>2 DEF Tick, TypeInv, TypeOK, OnTheWire
<1>3. ASSUME NEW r \in Requests, Send(r) PROVE TypeInv'
  <2>1. PICK now \in clock..clock + MaxLead :
          call' = [call EXCEPT ![r].at = "sent", ![r].now = now]
    BY <1>3 DEF Send
  <2>2. now \in Nat /\ call[r].retries = 0 /\ 1 \in 0..MaxRetries + 1
    BY <1>1, <1>3, <2>1 DEF Send, TypeInv, TypeOK, OnTheWire
  <2>3. TypeOK'
    BY <1>1, <1>3, <2>1, <2>2 DEF Send, TypeOK
  <2>4. \A s \in Requests : OnTheWire(s)'
    BY <1>1, <1>3, <2>1, <2>2 DEF Send, TypeInv, TypeOK, OnTheWire
  <2>5. QED
    BY <2>3, <2>4 DEF TypeInv
<1>4. ASSUME NEW r \in Requests, Resend(r) PROVE TypeInv'
  <2>1. /\ wire[r] + 1 \in 0..MaxRetries + 1 /\ call[r].retries + 1 \in 0..MaxRetries
        /\ wire[r] + 1 <= call[r].retries + 2
    BY <1>1, <1>4 DEF Resend, TypeInv, TypeOK, OnTheWire
  <2>2. TypeOK'
    BY <1>1, <1>4, <2>1 DEF Resend, TypeOK
  <2>3. \A s \in Requests : OnTheWire(s)'
    BY <1>1, <1>4, <2>1 DEF Resend, TypeInv, TypeOK, OnTheWire
  <2>4. QED
    BY <2>2, <2>3 DEF TypeInv
<1>5. ASSUME NEW r \in Requests, Lose(r) PROVE TypeInv'
  <2>1. TypeOK'
    BY <1>1, <1>5 DEF Lose, TypeOK
  <2>2. \A s \in Requests : OnTheWire(s)'
    BY <1>1, <1>5 DEF Lose, TypeInv, TypeOK, OnTheWire
  <2>3. QED
    BY <2>1, <2>2 DEF TypeInv
<1>6. ASSUME NEW r \in Requests, GiveUp(r) PROVE TypeInv'
  <2>1. TypeOK'
    BY <1>1, <1>6 DEF GiveUp, TypeOK
  <2>2. \A s \in Requests : call'[s] = call[s] \/ call'[s].at = "done"
    BY <1>1, <1>6 DEF GiveUp, TypeOK
  <2>3. \A s \in Requests : OnTheWire(s)'
    BY <1>6, <2>2 DEF GiveUp, TypeInv, OnTheWire
  <2>4. QED
    BY <2>1, <2>3 DEF TypeInv
<1>7. QED
  BY <1>2, <1>3, <1>4, <1>5, <1>6

\* The invariant holds of every state the limiter reaches.
LEMMA TypeInvariant == Spec => []TypeInv
<1>1. Init => TypeInv
  <2> SUFFICES ASSUME Init PROVE TypeInv
    OBVIOUS
  <2>1. Cardinality(zset) = 0 /\ 0 \in 0..Capacity
    BY FS_EmptySet, CapacityFacts DEF Init
  <2>2. orderly \in BOOLEAN
    BY Zenon DEF Init
  <2>3. QED
    BY <2>1, <2>2 DEF Init, NewCall, TypeInv, TypeOK, OnTheWire
<1>2. TypeInv /\ [Next]_vars => TypeInv'
  <2>1. TypeInv /\ UNCHANGED vars => TypeInv'
    BY DEF vars, TypeInv, TypeOK, OnTheWire
  <2>2. QED
    BY <2>1, TypeExecute, TypeOther DEF Next
<1>3. QED
  BY <1>1, <1>2, PTL DEF Spec

\* The level stays between empty and full, the sorted set never grows beyond
\* the limit and no command is in flight more often than it may be sent,
\* however the gateways' clocks disagree and scripts are lost, late or repeated.
THEOREM TypeCorrect == Spec => []TypeOK
<1>1. TypeInv => TypeOK
  BY DEF TypeInv
<1>2. QED
  BY <1>1, TypeInvariant, PTL

(***************************************************************************)
(* Refusals are justified.  What is in the sorted set was charged, and not *)
(* long before the time it carries, which in turn is not long before the   *)
(* time its script runs at.                                                *)
(***************************************************************************)

Backed(r) ==
  /\ call[r].at = "idle" => charged[r] = Never
  /\ call[r].at # "idle" => call[r].now <= clock + MaxLead
  /\ Busy(r) => clock - call[r].now <= MaxLag
  /\ r \in zset => charged[r] # Never
  /\ charged[r] # Never => call[r].now <= charged[r] + MaxLead

BackedInv == TypeInv /\ \A r \in Requests : Backed(r)

\* A request is refused by a script that runs for it and does not admit it.
LEMMA RefusedByScript ==
  ASSUME TypeInv, [Next]_vars, NEW r \in Requests, Refused(r)
  PROVE  Execute(r) /\ ~Script(r).ok /\ wire[r] > 0
<1> DEFINE told(q) == call[q].reply
<1>1. TypeOK /\ told(r) = "none" /\ told(r)' = "rejected"
  BY DEF TypeInv, Refused
<1>2. ASSUME Tick \/ UNCHANGED vars PROVE FALSE
  BY <1>1, <1>2 DEF Tick, vars
<1>3. ASSUME NEW q \in Requests, Send(q) \/ Resend(q) \/ Lose(q) \/ GiveUp(q) PROVE FALSE
  BY <1>1, <1>3 DEF Send, Resend, Lose, GiveUp, TypeOK
<1>4. ASSUME NEW q \in Requests, Execute(q) PROVE q = r /\ ~Script(r).ok /\ wire[r] > 0
  <2>1. call' # call /\ wire[q] > 0
    BY <1>1, <1>4 DEF Execute
  <2>2. Deliver(q, Script(q))
    BY <1>4, <2>1 DEF Execute
  <2>3. q = r
    BY <1>1, <2>2 DEF Deliver, TypeOK
  <2>4. told(r)' = IF Script(r).ok THEN "allowed" ELSE "rejected"
    BY <1>1, <2>2, <2>3 DEF Deliver, TypeOK
  <2>5. QED
    BY <1>1, <2>1, <2>3, <2>4
<1>5. QED
  BY <1>2, <1>3, <1>4 DEF Next

\* A script that adds a request to the set charges it, at the time it runs.
LEMMA BackedExecute ==
  ASSUME BackedInv, NEW r \in Requests, Execute(r)
  PROVE  \A s \in Requests : Backed(s)'
<1> DEFINE v == Script(r)
<1>1. TypeInv /\ TypeOK
  BY DEF BackedInv, TypeInv
<1>2. /\ wire[r] > 0
      /\ wire' = [wire EXCEPT ![r] = @ - 1]
      /\ zset' = v.members
      /\ charged' = [charged EXCEPT ![r] = IF v.ok /\ @ = Never THEN clock ELSE @]
      /\ (call[r].at = "sent" /\ Deliver(r, v)) \/ UNCHANGED call
      /\ clock' = clock
  BY Zenon DEF Execute
<1>3. \/ UNCHANGED call
      \/ /\ call[r].at = "sent"
         /\ \E told \in {"allowed", "rejected"} :
              call' = [call EXCEPT ![r] = [at |-> "done", now |-> call[r].now,
                                           retries |-> 0, reply |-> told]]
  BY <1>2 DEF Deliver
<1>4. v.members \subseteq zset \cup (IF v.ok THEN {r} ELSE {})
  <2>1. CASE Sliding
    <3>1. v = slidingWindow(r, Members, call[r].now)
      BY <2>1 DEF Script
    <3>2. Members \subseteq zset
      BY DEF Members
    <3> HIDE DEF v
    <3>3. CASE v.ok
      BY <3>1, <3>2, <3>3, SlidingMembers
    <3>4. CASE ~v.ok
      BY <3>1, <3>2, <3>4, SlidingMembers
    <3>5. QED
      BY <3>3, <3>4
  <2>2. CASE ~Sliding
    BY <2>2 DEF Script, leakyBucket, Verdict
  <2>3. QED
    BY <2>1, <2>2
<1> HIDE DEF v
<1>5. SUFFICES ASSUME NEW s \in Requests PROVE Backed(s)'
  OBVIOUS
<1>6. /\ Backed(s) /\ Backed(r) /\ OnTheWire(r)
      /\ clock \in Nat /\ call[s].now \in Nat /\ wire[s] \in Nat /\ wire[r] \in Nat
      /\ charged[s] \in Nat \cup {Never}
  BY <1>1 DEF BackedInv, TypeInv, TypeOK
<1>7. call[r].at # "idle" /\ Busy(r)
  BY <1>2, <1>6 DEF OnTheWire, Busy
<1>8. /\ call'[s].now = call[s].now
      /\ call'[s].at = call[s].at \/ (call[s].at = "sent" /\ call'[s].at = "done")
  BY <1>1, <1>3 DEF TypeOK
<1>9. wire'[s] = IF s = r THEN wire[s] - 1 ELSE wire[s]
  BY <1>1, <1>2 DEF TypeOK
<1>10. charged'[s] = IF s = r /\ v.ok /\ charged[s] = Never THEN clock ELSE charged[s]
  BY <1>1, <1>2 DEF TypeOK
<1>11. Busy(s)' => Busy(s)
  BY <1>2, <1>6, <1>8, <1>9 DEF Busy
<1>12. s \in zset' => charged'[s] # Never
  BY <1>2, <1>4, <1>6, <1>10 DEF Backed, Never
<1>13. charged'[s] # Never => call'[s].now <= charged'[s] + MaxLead
  BY <1>6, <1>7, <1>8, <1>10 DEF Backed, Never
<1>14. call'[s].at = "idle" => charged'[s] = Never
  BY <1>6, <1>7, <1>8, <1>10 DEF Backed
<1>15. QED
  BY <1>2, <1>6, <1>8, <1>11, <1>12, <1>13, <1>14 DEF Backed

\* Time, and the gateways' own steps, charge nothing.
LEMMA BackedOther ==
  ASSUME BackedInv,
         Tick \/ \E r \in Requests : Send(r) \/ Resend(r) \/ Lose(r) \/ GiveUp(r)
  PROVE  \A s \in Requests : Backed(s)'
<1> SUFFICES ASSUME NEW s \in Requests PROVE Backed(s)'
  OBVIOUS
<1>1. /\ TypeOK /\ Backed(s) /\ OnTheWire(s)
      /\ clock \in Nat /\ call[s].now \in Nat /\ wire[s] \in Nat
      /\ charged[s] \in Nat \cup {Never}
  BY DEF BackedInv, TypeInv, TypeOK
<1>2. CASE Tick
  <2>1. /\ UNCHANGED <<call, wire, zset, charged>> /\ clock' = clock + 1
        /\ Busy(s) => clock - call[s].now < MaxLag
    BY <1>2 DEF Tick
  <2>2. QED
    BY <1>1, <2>1 DEF Backed, Busy
<1>3. ASSUME NEW r \in Requests, Send(r) PROVE Backed(s)'
  <2>1. PICK now \in clock..clock + MaxLead :
          call' = [call EXCEPT ![r].at = "sent", ![r].now = now]
    BY <1>3 DEF Send
  <2>2. UNCHANGED <<clock, zset, charged>> /\ wire' = [wire EXCEPT ![r] = 1] /\ call[r].at = "idle"
    BY <1>3 DEF Send
  <2>3. CASE s = r
    <3>1. call'[s].at = "sent" /\ call'[s].now = now /\ charged[s] = Never
      BY <1>1, <2>1, <2>2, <2>3 DEF Backed, TypeOK
    <3>2. QED
      BY <1>1, <2>1, <2>2, <3>1 DEF Backed
  <2>4. CASE s # r
    <3>1. call'[s] = call[s] /\ wire'[s] = wire[s]
      BY <1>1, <2>1, <2>2, <2>4 DEF TypeOK
    <3>2. QED
      BY <1>1, <2>2, <3>1 DEF Backed, Busy
  <2>5. QED
    BY <2>3, <2>4
<1>4. ASSUME NEW r \in Requests, Resend(r) \/ Lose(r) \/ GiveUp(r) PROVE Backed(s)'
  <2>1. UNCHANGED <<clock, zset, charged>>
    BY <1>4 DEF Resend, Lose, GiveUp
  <2>2. /\ call'[s].now = call[s].now
        /\ call'[s].at = "idle" <=> call[s].at = "idle"
        /\ Busy(s)' => Busy(s)
    <3>1. CASE Resend(r)
      BY <1>1, <3>1 DEF Resend, TypeOK, Busy
    <3>2. CASE Lose(r)
      BY <1>1, <3>2 DEF Lose, TypeOK, Busy
    <3>3. CASE GiveUp(r)
      BY <1>1, <3>3 DEF GiveUp, TypeOK, Busy
    <3>4. QED
      BY <1>4, <3>1, <3>2, <3>3
  <2>3. QED
    BY <1>1, <2>1, <2>2 DEF Backed
<1>5. QED
  BY <1>2, <1>3, <1>4

\* The invariant holds of every state the limiter reaches.
LEMMA BackedInvariant == Spec => []BackedInv
<1>1. Init => \A r \in Requests : Backed(r)
  BY DEF Init, NewCall, Backed, Busy
<1>2. TypeInv /\ (\A r \in Requests : Backed(r)) /\ [Next]_vars
        => (\A r \in Requests : Backed(r))'
  <2> SUFFICES ASSUME BackedInv, [Next]_vars PROVE \A r \in Requests : Backed(r)'
    BY DEF BackedInv
  <2>1. CASE UNCHANGED vars
    BY <2>1 DEF vars, BackedInv, Backed, Busy
  <2>2. QED
    BY <2>1, BackedExecute, BackedOther DEF Next
<1>3. QED
  BY <1>1, <1>2, TypeInvariant, PTL DEF Spec, BackedInv

\* A request is refused only for requests that were really charged, Limit of
\* them within the window, lag and lead: however often scripts are repeated or
\* reordered, refused and failed requests use up nothing.
THEOREM RefusalsJust == Spec => RefusedJustly
<1> DEFINE Just == \A r \in Requests : Sliding /\ Refused(r) =>
                     Cardinality(ChargedSince(clock - (Window + MaxLag + MaxLead))) >= Limit
<1>1. BackedInv /\ [Next]_vars => Just
  <2> SUFFICES ASSUME BackedInv, [Next]_vars, NEW r \in Requests, Sliding, Refused(r)
               PROVE  Cardinality(ChargedSince(clock - (Window + MaxLag + MaxLead))) >= Limit
    OBVIOUS
  <2> DEFINE now == call[r].now
             kept == Trimmed(Members, now)
             recent == ChargedSince(clock - (Window + MaxLag + MaxLead))
  <2>1. TypeInv /\ TypeOK /\ Backed(r) /\ clock \in Nat /\ now \in Nat
    BY DEF BackedInv, TypeInv, TypeOK
  <2>2. ~Script(r).ok /\ wire[r] > 0
    BY <2>1, RefusedByScript
  <2>3. Members \in SUBSET Requests /\ Cardinality(Members) <= Limit /\ Members \subseteq zset
    BY <2>1, StoredFacts DEF TypeOK, Members
  <2>4. kept \subseteq Members /\ Cardinality(kept) = Limit
    <3>1. ~slidingWindow(r, Members, now).ok
      BY <2>2 DEF Script
    <3> HIDE DEF now
    <3>2. QED
      BY <2>3, <3>1, SlidingVerdict, Zenon
  <2>5. clock - now <= MaxLag
    BY <2>1, <2>2 DEF Backed, Busy
  <2>6. ASSUME NEW m \in kept PROVE m \in recent
    <3>1. m \in Requests /\ m \in zset /\ call[m].now > now - Window
      BY <2>3, <2>6 DEF Trimmed, Score
    <3>2. /\ Backed(m) /\ call[m].now \in Nat /\ charged[m] \in Nat \cup {Never}
      BY <2>1, <3>1 DEF BackedInv, TypeOK
    <3>3. charged[m] # Never /\ call[m].now <= charged[m] + MaxLead
      BY <3>1, <3>2 DEF Backed
    <3>4. QED
      BY <2>1, <2>5, <3>1, <3>2, <3>3 DEF ChargedSince
  <2>7. kept \subseteq recent /\ recent \subseteq Requests
    BY <2>6 DEF ChargedSince
  <2> HIDE DEF kept, recent
  <2>8. Cardinality(kept) <= Cardinality(recent) /\ Cardinality(recent) \in Nat
    BY <2>7, Counting
  <2>9. QED
    BY <2>4, <2>8 DEF recent
<1>2. QED
  BY <1>1, BackedInvariant, PTL DEF Spec, RefusedJustly

(***************************************************************************)
(* The time a refused client is told.                                      *)
(***************************************************************************)

\* From the reset on, the script that refused a request would admit it, on
\* what the refusal has left behind.
LEMMA AdmittedFromReset ==
  ASSUME TypeInv, [Next]_vars, NEW r \in Requests, Refused(r)
  PROVE  /\ Script(r).resetAt \in Nat
         /\ \A t \in Nat : t >= Script(r).resetAt => Again(r, t).ok
<1> DEFINE now == call[r].now
           v == Script(r)
<1>1. TypeOK /\ now \in Nat
  BY DEF TypeInv, TypeOK
<1>2. Execute(r) /\ ~v.ok
  BY RefusedByScript
<1>3. /\ zset' = v.members
      /\ hash' = [level |-> v.level, last_update |-> v.last_update]
  BY <1>2 DEF Execute
<1>4. /\ Members \in SUBSET Requests /\ Cardinality(Members) <= Limit
      /\ \E level \in 0..Capacity, last \in Nat :
           Stored(now) = [level |-> level, last_update |-> last]
  BY <1>1, StoredFacts
<1>5. CASE Sliding
  <2> DEFINE kept == Trimmed(Members, now)
  <2>1. v = slidingWindow(r, Members, now)
    BY <1>5 DEF Script
  <2>2. /\ kept \subseteq Members /\ Cardinality(kept) = Limit /\ v.members = kept
        /\ v.resetAt = Min({Score(m) : m \in kept}) + Window
    <3>1. ~slidingWindow(r, Members, now).ok
      BY <1>2, <2>1
    <3> HIDE DEF now, v
    <3>2. QED
      BY <1>4, <2>1, <3>1, SlidingVerdict, Zenon
  <2>3. \A m \in Requests : Score(m) \in Nat
    BY <1>1 DEF Score, TypeOK
  <2> HIDE DEF kept, v
  <2>4. v.resetAt \in Nat
    <3> DEFINE scores == {Score(m) : m \in kept}
    <3>1. kept # {}
      BY <2>2, FS_EmptySet
    <3>2. scores \in SUBSET Nat /\ scores # {}
      BY <1>4, <2>2, <2>3, <3>1
    <3>3. Min(scores) \in Nat
      <4> HIDE DEF scores
      <4>1. QED
        BY <3>2, MinFacts
    <3>4. QED
      BY <2>2, <3>3
  <2>5. ASSUME NEW t \in Nat, t >= v.resetAt PROVE slidingWindow(r, kept, t).ok
    BY <1>4, <2>2, <2>3, <2>5, SlidingAgain
  <2>6. QED
    BY <1>3, <1>5, <2>2, <2>4, <2>5 DEF Again, v
<1>6. CASE ~Sliding
  <2>1. v = leakyBucket(Stored(now), now)
    BY <1>6 DEF Script
  <2>2. PICK level \in 0..Capacity, last \in Nat :
          Stored(now) = [level |-> level, last_update |-> last]
    BY <1>4
  <2> DEFINE left == leaked(Stored(now), now)
  <2>3. /\ left \in 0..Capacity /\ ~(left + Cost <= Capacity)
        /\ v.level = left /\ v.last_update = now
        /\ v.resetAt = now + Ceil(left + Cost - Capacity, Limit)
    <3>1. ~leakyBucket([level |-> level, last_update |-> last], now).ok
      BY <1>2, <2>1, <2>2
    <3> HIDE DEF now, v, left
    <3>2. /\ left = leaked([level |-> level, last_update |-> last], now)
          /\ v = leakyBucket([level |-> level, last_update |-> last], now)
      BY <2>1, <2>2, Zenon DEF left
    <3>3. /\ left \in 0..Capacity /\ ~(left + Cost <= Capacity)
          /\ v.last_update = now
      BY <1>1, <3>1, <3>2, LeakyVerdict, Zenon
    <3>4. v.level = left /\ v.resetAt = now + Ceil(left + Cost - Capacity, Limit)
      BY <1>1, <3>1, <3>2, LeakyVerdict, Zenon
    <3>5. QED
      BY <3>3, <3>4
  <2>4. Capacity \in Nat /\ Cost \in Nat /\ left + Cost > Capacity
    BY <2>3, CapacityFacts
  <2> HIDE DEF left, v, now
  <2>5. v.resetAt \in Nat
    <3>1. left + Cost - Capacity \in Nat \ {0}
      BY <2>3, <2>4
    <3>2. /\ Ceil(left + Cost - Capacity, Limit) \in Int
          /\ Ceil(left + Cost - Capacity, Limit) * Limit >= left + Cost - Capacity
      BY <3>1, Division
    <3>3. Ceil(left + Cost - Capacity, Limit) >= 0
      <4> DEFINE c == Ceil(left + Cost - Capacity, Limit)
      <4>1. \A a \in Int : a < 0 => a * Limit <= 0
        OBVIOUS
      <4>2. c \in Int /\ c * Limit > 0
        BY <3>1, <3>2
      <4> HIDE DEF c
      <4>3. QED
        BY <4>1, <4>2 DEF c
    <3>4. QED
      BY <1>1, <2>3, <3>2, <3>3
  <2>6. ASSUME NEW t \in Nat, t >= v.resetAt
        PROVE  leakyBucket([level |-> left, last_update |-> now], t).ok
    BY <1>1, <2>3, <2>4, <2>6, LeakyAgain
  <2>7. hash' = [level |-> left, last_update |-> now]
    BY <1>3, <2>3
  <2>8. QED
    BY <1>6, <2>5, <2>6, <2>7 DEF Again, v
<1>7. QED
  BY <1>5, <1>6

\* The reset a refused client is told is not too early, at the very tick: if
\* nobody else comes in between, it is let in.
THEOREM ResetsAdmit == Spec => ResetAdmits
<1>1. TypeInv /\ [Next]_vars => \A r \in Requests : Refused(r) => Again(r, Script(r).resetAt).ok
  BY AdmittedFromReset
<1>2. QED
  BY <1>1, TypeInvariant, PTL DEF Spec, ResetAdmits

\* Cutting two times to whole seconds moves their difference by less than one.
LEMMA RetryAfterFacts ==
  ASSUME NEW reset \in Nat, NEW now \in Nat
  PROVE  LET back == now + RetryAfter(reset, now) * Second
         IN  /\ back \in Nat
             /\ back >= now + Second
             /\ back + Second - 1 >= reset
             /\ back < Max({reset, now + 1}) + Second
<1> DEFINE a == reset \div Second
           b == now \div Second
           w == RetryAfter(reset, now)
           back == now + w * Second
<1>1. /\ a \in Int /\ a * Second <= reset /\ reset < a * Second + Second
      /\ b \in Int /\ b * Second <= now /\ now < b * Second + Second
  BY Division
<1>2. w = IF a - b >= 1 THEN a - b ELSE 1
  BY <1>1, MaxPair DEF RetryAfter
<1>3. Max({reset, now + 1}) = IF reset >= now + 1 THEN reset ELSE now + 1
  BY MaxPair
<1> HIDE DEF a, b, w
<1>4. /\ a * Second \in Int /\ b * Second \in Int
      /\ (a - b) * Second = a * Second - b * Second
      /\ (a - b < 1 => (a - b) * Second <= 0)
  <2>1. /\ a * Second \in Int /\ b * Second \in Int
        /\ (a - b) * Second = a * Second - b * Second
    BY <1>1
  <2>2. \A x \in Int : x < 1 => x * Second <= 0
    OBVIOUS
  <2>3. QED
    BY <1>1, <2>1, <2>2
<1>5. CASE a - b >= 1
  <2>1. w * Second = a * Second - b * Second /\ w \in Nat /\ w >= 1
    BY <1>1, <1>2, <1>4, <1>5
  <2>2. w * Second >= Second
    <3>1. \A x \in Nat : x >= 1 => x * Second >= Second
      OBVIOUS
    <3>2. QED
      BY <2>1, <3>1
  <2>3. QED
    BY <1>1, <1>3, <1>4, <2>1, <2>2 DEF w
<1>6. CASE a - b < 1
  <2>1. w * Second = Second
    BY <1>1, <1>2, <1>6
  <2>2. QED
    BY <1>1, <1>3, <1>4, <1>6, <2>1 DEF w
<1>7. QED
  BY <1>1, <1>5, <1>6

\* Retry-After holds every refused client off for a second at least, and brings
\* it back less than a second before it is admitted and less than a second
\* after the reset unless that is past, whatever its gateway's clock.
THEOREM RetryAfterRight == Spec => RetryAfterClose
<1> DEFINE Close(r) ==
      \A now \in clock..clock + MaxLead :
         LET resetAt == Script(r).resetAt
             back == now + RetryAfter(resetAt, now) * Second
         IN  /\ back >= now + Second
             /\ Again(r, back + Second - 1).ok
             /\ back < Max({resetAt, now + 1}) + Second
<1>1. TypeInv /\ [Next]_vars => \A r \in Requests : Refused(r) => Close(r)
  <2> SUFFICES ASSUME TypeInv, [Next]_vars, NEW r \in Requests, Refused(r),
                      NEW now \in clock..clock + MaxLead
               PROVE  LET resetAt == Script(r).resetAt
                          back == now + RetryAfter(resetAt, now) * Second
                      IN  /\ back >= now + Second
                          /\ Again(r, back + Second - 1).ok
                          /\ back < Max({resetAt, now + 1}) + Second
    OBVIOUS
  <2> DEFINE resetAt == Script(r).resetAt
             back == now + RetryAfter(resetAt, now) * Second
  <2>1. resetAt \in Nat /\ \A t \in Nat : t >= resetAt => Again(r, t).ok
    BY AdmittedFromReset
  <2>2. now \in Nat
    BY DEF TypeInv, TypeOK
  <2> HIDE DEF resetAt
  <2>3. /\ back \in Nat /\ back >= now + Second
        /\ back + Second - 1 >= resetAt
        /\ back < Max({resetAt, now + 1}) + Second
    BY <2>1, <2>2, RetryAfterFacts
  <2> HIDE DEF back
  <2>4. Again(r, back + Second - 1).ok
    BY <2>1, <2>3
  <2>5. QED
    BY <2>3, <2>4 DEF back, resetAt
<1>2. QED
  BY <1>1, TypeInvariant, PTL DEF Spec, RetryAfterClose

=============================================================================
