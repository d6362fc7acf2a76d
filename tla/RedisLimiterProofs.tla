------------------------- MODULE RedisLimiterProofs -------------------------
(***************************************************************************)
(* The sliding window of the Redis limiter keeps its bound for every       *)
(* number of requests, every limit and window, every lag, lead and number  *)
(* of retries.                                                             *)
(***************************************************************************)
EXTENDS RedisLimiter, FiniteSetTheorems, TLAPS

Span == Window - MaxLag - MaxLead

Types ==
  /\ clock \in Nat
  /\ call \in [Requests -> [at : {"idle", "sent", "done"}, now : Int, retries : Int,
                            reply : {"none", "allowed", "rejected", "error"}]]
  /\ wire \in [Requests -> Int]
  /\ zset \subseteq Requests
  /\ expireAt \in Int
  /\ charged \in [Requests -> Int]

\* A request carries a time close to the time its script runs at; once it is
\* charged, the key outlives it by a window, and it stays in the sorted set for
\* as long as it counts.
Carried(r) ==
  /\ call[r].at = "idle" => wire[r] = 0 /\ charged[r] = Never
  /\ call[r].at # "idle" => call[r].now <= clock + MaxLead
  /\ Busy(r) => clock - call[r].now <= MaxLag
  /\ charged[r] # Never => /\ charged[r] <= clock
                           /\ charged[r] <= call[r].now + MaxLag
                           /\ charged[r] + Window <= expireAt
                           /\ charged[r] > clock - Span => r \in zset

Recent == ChargedSince(clock - Span)

SlidingInv ==
  /\ Types
  /\ \A r \in Requests : Carried(r)
  /\ Cardinality(Recent) <= Limit

\* A set of requests is finite, and a subset has no more elements.
LEMMA Counting ==
  ASSUME NEW S, NEW T, T \subseteq Requests, S \subseteq T
  PROVE  /\ IsFiniteSet(S) /\ IsFiniteSet(T)
         /\ Cardinality(S) \in Nat /\ Cardinality(T) \in Nat
         /\ Cardinality(S) <= Cardinality(T)
<1>1. IsFiniteSet(T)
  BY RedisAssumption, FS_Subset DEF RedisAssumption
<1>2. IsFiniteSet(S) /\ Cardinality(S) <= Cardinality(T)
  BY <1>1, FS_Subset
<1> QED
  BY <1>1, <1>2, FS_CardinalityType

\* Nothing has been charged at first.
LEMMA SlidingInit == Init => SlidingInv
<1> SUFFICES ASSUME Init PROVE SlidingInv
  OBVIOUS
<1>1. Types
  BY RedisAssumption DEF Init, Types, NewCall, Never, RedisAssumption
<1>2. \A r \in Requests : Carried(r)
  BY RedisAssumption DEF Init, Carried, Busy, NewCall, Never, RedisAssumption
<1>3. Recent = {}
  BY DEF Recent, ChargedSince, Init
<1>4. Cardinality(Recent) = 0
  BY <1>3, FS_EmptySet
<1> QED
  BY <1>1, <1>2, <1>4, RedisAssumption DEF SlidingInv, RedisAssumption

\* A script that runs finds every recent charge in the key: it has not expired
\* and none of them is trimmed.
LEMMA RecentKept ==
  ASSUME SlidingInv, NEW r \in Requests, wire[r] > 0
  PROVE  Recent \subseteq Trimmed(Members, call[r].now)
<1> SUFFICES ASSUME NEW s \in Requests, charged[s] # Never, charged[s] > clock - Span
             PROVE  s \in Trimmed(Members, call[r].now)
  BY DEF Recent, ChargedSince
<1> USE RedisAssumption DEF RedisAssumption
<1>1. /\ clock \in Nat /\ expireAt \in Int
      /\ call[r].now \in Int /\ call[s].now \in Int
      /\ charged[s] \in Int
  BY DEF SlidingInv, Types
<1>2. /\ s \in zset
      /\ charged[s] <= call[s].now + MaxLag
      /\ charged[s] + Window <= expireAt
  BY DEF SlidingInv, Carried
<1>3. call[r].now <= clock + MaxLead
  <2>1. call[r].at # "idle"
    BY DEF SlidingInv, Carried, Types
  <2> QED
    BY <2>1 DEF SlidingInv, Carried
<1>4. ~Expired
  BY <1>1, <1>2 DEF Expired, Span
<1>5. call[s].now > call[r].now - Window
  BY <1>1, <1>2, <1>3 DEF Span
<1> QED
  BY <1>2, <1>4, <1>5 DEF Trimmed, Members, Score

\* A script that admits leaves the recent charges and its own request.
LEMMA ExecuteStep ==
  ASSUME SlidingInv, Sliding, NEW r \in Requests, Execute(r)
  PROVE  SlidingInv'
<1> DEFINE now == call[r].now
           kept == Trimmed(Members, now)
           ok == Cardinality(kept) < Limit
<1> USE RedisAssumption DEF RedisAssumption
<1>1. /\ wire[r] > 0
      /\ wire' = [wire EXCEPT ![r] = @ - 1]
      /\ clock' = clock
      /\ clock \in Nat
      /\ r \in zset' \/ ~ok
  BY DEF Execute, Script, slidingWindow, Verdict, SlidingInv, Types
<1>2. /\ zset' = IF ok THEN kept \cup {r} ELSE kept
      /\ expireAt' = IF ok THEN clock + Window ELSE expireAt
      /\ charged' = [charged EXCEPT ![r] = IF ok /\ @ = Never THEN clock ELSE @]
  BY DEF Execute, Script, slidingWindow, Verdict
<1>3. kept \subseteq Requests
  BY DEF Trimmed, Members, SlidingInv, Types
<1>4. Recent \subseteq kept
  BY <1>1, RecentKept
<1>5. /\ \A s \in Requests : call'[s].now = call[s].now
      /\ \A s \in Requests : \/ call'[s].at = call[s].at
                             \/ call[s].at = "sent" /\ call'[s].at = "done"
      /\ call' \in [Requests -> [at : {"idle", "sent", "done"}, now : Int, retries : Int,
                                 reply : {"none", "allowed", "rejected", "error"}]]
  <2>1. CASE UNCHANGED call
    BY <2>1 DEF SlidingInv, Types
  <2>2. CASE call[r].at = "sent" /\ Deliver(r, Script(r))
    <3>1. PICK told \in {"allowed", "rejected"} :
            call' = [call EXCEPT ![r] = [at |-> "done", now |-> call[r].now,
                                         retries |-> 0, reply |-> told]]
      BY <2>2 DEF Deliver
    <3> QED
      BY <2>2, <3>1 DEF SlidingInv, Types
  <2> QED
    BY <2>1, <2>2 DEF Execute
<1>6. Types'
  <2>1. charged' \in [Requests -> Int]
    BY <1>1, <1>2 DEF SlidingInv, Types
  <2>2. expireAt' \in Int /\ zset' \subseteq Requests
    BY <1>1, <1>2, <1>3 DEF SlidingInv, Types
  <2>3. wire' \in [Requests -> Int]
    BY <1>1 DEF SlidingInv, Types
  <2> QED
    BY <1>1, <1>5, <2>1, <2>2, <2>3 DEF Types
<1>7. \A s \in Requests : Carried(s)'
  <2> SUFFICES ASSUME NEW s \in Requests PROVE Carried(s)'
    OBVIOUS
  <2>0. /\ Carried(s) /\ Carried(r) /\ Types
        /\ charged[s] \in Int /\ charged[s]' \in Int /\ wire[s] \in Int /\ wire[r] \in Int
        /\ call[s].now \in Int /\ expireAt \in Int /\ clock \in Nat
    BY <1>6 DEF SlidingInv, Types
  <2>1. call[r].at # "idle" /\ Busy(r)
    BY <1>1, <2>0 DEF Carried, Busy
  <2>2. Busy(s)' => Busy(s)
    BY <1>1, <1>5, <2>0 DEF Busy
  <2>3. call'[s].at = "idle" => wire'[s] = 0 /\ charged'[s] = Never
    BY <1>1, <1>2, <1>5, <2>0, <2>1 DEF Carried, Types
  <2>4. call'[s].at # "idle" => call'[s].now <= clock' + MaxLead
    BY <1>1, <1>5, <2>0 DEF Carried
  <2>5. Busy(s)' => clock' - call'[s].now <= MaxLag
    BY <1>1, <1>5, <2>0, <2>2 DEF Carried
  <2>6. ASSUME charged'[s] # Never
        PROVE  /\ charged'[s] <= clock'
               /\ charged'[s] <= call'[s].now + MaxLag
               /\ charged'[s] + Window <= expireAt'
               /\ charged'[s] > clock' - Span => s \in zset'
    <3>1. CASE charged[s] # Never
      <4>1. charged'[s] = charged[s]
        BY <1>2, <3>1, <2>0 DEF Types
      <4>2. charged[s] > clock - Span => s \in Recent
        BY <3>1 DEF Recent, ChargedSince
      <4> QED
        BY <1>1, <1>2, <1>4, <1>5, <2>0, <3>1, <4>1, <4>2 DEF Carried
    <3>2. CASE charged[s] = Never
      <4>1. s = r /\ ok /\ charged'[s] = clock
        BY <1>2, <2>0, <2>6, <3>2 DEF Types
      <4>2. clock - now <= MaxLag
        BY <2>0, <2>1 DEF Carried
      <4> QED
        BY <1>1, <1>2, <1>5, <2>0, <4>1, <4>2
    <3> QED
      BY <3>1, <3>2
  <2> QED
    BY <2>3, <2>4, <2>5, <2>6 DEF Carried
<1>8. Cardinality(Recent') <= Limit
  <2>1. CASE ok
    <3>1. Recent' \subseteq kept \cup {r}
      BY <1>1, <1>2, <1>4 DEF Recent, ChargedSince, SlidingInv, Types
    <3>2. IsFiniteSet(kept) /\ Cardinality(kept) \in Nat
      BY <1>3, Counting
    <3>3. Cardinality(kept \cup {r}) <= Cardinality(kept) + 1
      <4> HIDE DEF kept
      <4>1. Cardinality(kept \cup {r}) =
              IF r \in kept THEN Cardinality(kept) ELSE Cardinality(kept) + 1
        BY <3>2, FS_AddElement
      <4> QED
        BY <3>2, <4>1
    <3>4. /\ Cardinality(Recent') <= Cardinality(kept \cup {r})
          /\ Cardinality(Recent') \in Nat /\ Cardinality(kept \cup {r}) \in Nat
      BY <3>1, <1>3, Counting
    <3> QED
      BY <2>1, <3>2, <3>3, <3>4
  <2>2. CASE ~ok
    <3>1. charged' = charged
      BY <1>2, <2>2 DEF SlidingInv, Types
    <3>2. Recent' = Recent
      BY <1>1, <3>1 DEF Recent, ChargedSince
    <3> QED
      BY <3>2 DEF SlidingInv
  <2> QED
    BY <2>1, <2>2
<1> QED
  BY <1>6, <1>7, <1>8 DEF SlidingInv

\* Time only shortens the list of recent charges.
LEMMA TickStep ==
  ASSUME SlidingInv, Tick
  PROVE  SlidingInv'
<1> USE RedisAssumption DEF RedisAssumption
<1>1. Types'
  BY DEF SlidingInv, Types, Tick
<1>2. \A r \in Requests : Carried(r)'
  <2> SUFFICES ASSUME NEW r \in Requests PROVE Carried(r)'
    OBVIOUS
  <2>1. /\ Carried(r) /\ call[r].now \in Int /\ charged[r] \in Int /\ wire[r] \in Int
        /\ clock \in Nat /\ expireAt \in Int
    BY DEF SlidingInv, Types
  <2>2. /\ clock' = clock + 1
        /\ UNCHANGED <<call, wire, zset, expireAt, charged>>
        /\ Busy(r) => clock - call[r].now < MaxLag
    BY DEF Tick
  <2> QED
    BY <2>1, <2>2 DEF Carried, Busy, Span
<1>3. Recent' \subseteq Recent
  BY DEF Recent, ChargedSince, Tick, SlidingInv, Types, Span
<1>4. /\ Cardinality(Recent') <= Cardinality(Recent)
      /\ Cardinality(Recent') \in Nat /\ Cardinality(Recent) \in Nat
  <2>1. Recent \subseteq Requests
    BY DEF Recent, ChargedSince
  <2> QED
    BY <1>3, <2>1, Counting
<1> QED
  BY <1>1, <1>2, <1>4 DEF SlidingInv

\* The gateway's own steps charge nothing.
LEMMA ClientStep ==
  ASSUME SlidingInv, NEW r \in Requests, Send(r) \/ Resend(r) \/ Lose(r) \/ GiveUp(r)
  PROVE  SlidingInv'
<1> USE RedisAssumption DEF RedisAssumption
<1>1. UNCHANGED <<clock, zset, expireAt, charged>>
  BY DEF Send, Resend, Lose, GiveUp
<1>2. Types'
  BY <1>1 DEF SlidingInv, Types, Send, Resend, Lose, GiveUp
<1>3. \A s \in Requests : Carried(s)'
  <2> SUFFICES ASSUME NEW s \in Requests PROVE Carried(s)'
    OBVIOUS
  <2>0. /\ Carried(s) /\ Types /\ call[s].now \in Int /\ wire[s] \in Int /\ clock \in Nat
    BY DEF SlidingInv, Types
  <2>1. CASE Send(r)
    <3>1. CASE s = r
      <4>1. PICK now \in clock..clock + MaxLead :
              call' = [call EXCEPT ![r].at = "sent", ![r].now = now]
        BY <2>1 DEF Send
      <4>2. call'[s].at = "sent" /\ call'[s].now = now /\ charged[s] = Never
        BY <2>0, <2>1, <3>1, <4>1, ZenonT(40) DEF Send, Carried, Types
      <4> QED
        BY <1>1, <2>0, <4>1, <4>2 DEF Carried, Busy
    <3>2. CASE s # r
      <4>1. call'[s] = call[s] /\ wire'[s] = wire[s]
        BY <2>0, <2>1, <3>2 DEF Send, Types
      <4> QED
        BY <1>1, <2>0, <4>1 DEF Carried, Busy
    <3> QED
      BY <3>1, <3>2
  <2>2. CASE Resend(r) \/ Lose(r) \/ GiveUp(r)
    <3>1. /\ call'[s].now = call[s].now
          /\ (call'[s].at = "idle") = (call[s].at = "idle")
          /\ Busy(s)' => Busy(s)
          /\ call[s].at = "idle" => wire'[s] = wire[s]
      <4>1. CASE Resend(r)
        BY <2>0, <4>1 DEF Resend, Types, Busy
      <4>2. CASE Lose(r)
        BY <2>0, <4>2 DEF Lose, Types, Busy, Carried
      <4>3. CASE GiveUp(r)
        BY <2>0, <4>3 DEF GiveUp, Types, Busy
      <4> QED
        BY <2>2, <4>1, <4>2, <4>3
    <3> QED
      BY <1>1, <2>0, <3>1 DEF Carried
  <2> QED
    BY <2>1, <2>2
<1>4. Recent' = Recent
  BY <1>1 DEF Recent, ChargedSince
<1> QED
  BY <1>2, <1>3, <1>4 DEF SlidingInv

\* The sliding window is a limit on real time, for all values of the constants:
\* no window, less lag and lead, ever sees more than limit requests charged,
\* however the scripts are delayed, reordered and sent again.
THEOREM WindowHolds == Spec => []SlidingBound
<1> DEFINE Inv == Sliding => SlidingInv
<1>1. Inv /\ [Next]_vars => Inv'
  <2> SUFFICES ASSUME Inv, [Next]_vars, Sliding' PROVE SlidingInv'
    OBVIOUS
  <2>0. Sliding /\ SlidingInv
    BY DEF Sliding, Next, vars, Tick, Send, Resend, Lose, GiveUp, Execute
  <2>1. CASE Tick
    BY <2>0, <2>1, TickStep
  <2>2. ASSUME NEW r \in Requests, Send(r) \/ Resend(r) \/ Lose(r) \/ GiveUp(r)
        PROVE  SlidingInv'
    BY <2>0, <2>2, ClientStep
  <2>3. ASSUME NEW r \in Requests, Execute(r)
        PROVE  SlidingInv'
    BY <2>0, <2>3, ExecuteStep
  <2>4. CASE UNCHANGED vars
    BY <2>0, <2>4 DEF vars, SlidingInv, Types, Carried, Busy, Recent, ChargedSince
  <2> QED
    BY <2>1, <2>2, <2>3, <2>4 DEF Next
<1>2. Inv => SlidingBound
  BY DEF SlidingInv, SlidingBound, Recent, Span
<1>3. Init => Inv
  BY SlidingInit
<1> QED
  BY <1>1, <1>2, <1>3, PTL DEF Spec

-----------------------------------------------------------------------------
(* The leaky bucket: what has been charged and has not leaked is in the     *)
(* bucket.                                                                  *)

N == Cardinality(ChargedSince(Never))

\* A command on the wire belongs to a call that has read a clock, not long ago.
Aged(r) ==
  /\ call[r].at = "idle" => wire[r] = 0
  /\ call[r].at # "idle" => call[r].now <= clock + MaxLead
  /\ Busy(r) => clock - call[r].now <= MaxLag

LeakTypes ==
  /\ clock \in Nat
  /\ call \in [Requests -> [at : {"idle", "sent", "done"}, now : Int, retries : Int,
                            reply : {"none", "allowed", "rejected", "error"}]]
  /\ wire \in [Requests -> Int]
  /\ hash \in [level : Int, last_update : Int]
  /\ expireAt \in Int
  /\ charged \in [Requests -> Int]

\* When a script of the leaky bucket ran last, by Redis's clock.
Touched == IF expireAt = Never THEN 0 ELSE expireAt - Window

\* What n expiries have spared.
Spared(n) == (n * Drift) * Limit

\* After n expiries, n windows and more have passed by time t, and what has been
\* charged is in a bucket that was at level at the time last, or has leaked, or
\* was spared.
Balanced(n, t, level, last) ==
  /\ n * (Window + 1) <= t
  /\ N * Cost <= level + last * Limit + Spared(n)

Conserved ==
  /\ hash.level <= Capacity
  /\ expireAt = Never => hash.level <= 0
  /\ Touched \in 0..clock
  /\ hash.last_update <= Touched + MaxLead
  /\ \E n \in Nat : Balanced(n, Touched, hash.level, hash.last_update)

LeakInv ==
  /\ LeakTypes
  /\ \A r \in Requests : Aged(r)
  /\ orderly => Conserved

\* Products keep their order and distribute.
LEMMA Products ==
  /\ \A a, b \in Int, c \in Nat : a <= b => a * c <= b * c
  /\ \A a, b, c \in Int : (a - b) * c = a * c - b * c /\ (a + b) * c = a * c + b * c
  /\ \A a, b \in Int : a * b \in Int
OBVIOUS

\* One more of something adds it at most once.
LEMMA OneMore ==
  ASSUME NEW n \in Nat, NEW m \in Nat, NEW c \in Nat
  PROVE  /\ m <= n => m * c <= n * c
         /\ m <= n + 1 => m * c <= n * c + c
<1>1. (n + 1) * c = n * c + c /\ m * c \in Int /\ n * c \in Int
  OBVIOUS
<1>2. m <= n + 1 => m * c <= (n + 1) * c
  OBVIOUS
<1>3. m <= n => m * c <= n * c
  OBVIOUS
<1> QED
  BY <1>1, <1>2, <1>3

\* The number of charges is a number.
LEMMA CountType == ChargedSince(Never) \subseteq Requests /\ N \in Nat
<1>1. ChargedSince(Never) \subseteq Requests
  BY DEF ChargedSince
<1> QED
  BY <1>1, Counting DEF N

\* The larger of two numbers.
LEMMA MaxPair ==
  ASSUME NEW a \in Int, NEW b \in Int
  PROVE  Max({a, b}) = IF a >= b THEN a ELSE b
<1>1. \E x \in {a, b} : \A y \in {a, b} : x >= y
  OBVIOUS
<1>2. PICK x \in {a, b} : Max({a, b}) = x /\ \A y \in {a, b} : x >= y
  BY <1>1 DEF Max
<1> QED
  BY <1>2

\* A script that finds the key gone carries a time at most Drift before the one at
\* which the bucket must be empty.
LEMMA DriftCovers == Drift \in Nat /\ Drift >= MaxLag + MaxLead - 1
<1> USE RedisAssumption DEF RedisAssumption
<1>1. MaxLag + MaxLead - 1 \in Int
  OBVIOUS
<1> QED
  BY <1>1, MaxPair DEF Drift

\* One more expiry spares Drift ticks of leaking more.
LEMMA OneMoreExpiry ==
  ASSUME NEW n \in Nat
  PROVE  /\ Spared(n) \in Nat /\ Spared(n + 1) = Spared(n) + Drift * Limit
         /\ Drift * Limit \in Nat
<1> USE RedisAssumption DEF RedisAssumption
<1>1. Drift \in Nat
  BY DriftCovers
<1>2. n * Drift \in Nat /\ (n + 1) * Drift = n * Drift + Drift
  BY <1>1
<1>3. \A a, b \in Nat : (a + b) * Limit = a * Limit + b * Limit /\ a * Limit \in Nat
  OBVIOUS
<1> QED
  BY <1>1, <1>2, <1>3 DEF Spared

\* Nothing has been charged at first, and the bucket is empty.
LEMMA LeakInit == Init => LeakInv
<1> SUFFICES ASSUME Init PROVE LeakInv
  OBVIOUS
<1> USE RedisAssumption DEF RedisAssumption
<1>1. LeakTypes /\ \A r \in Requests : Aged(r)
  BY DEF Init, LeakTypes, Aged, Busy, NewCall, Never
<1>2. N = 0
  <2>1. ChargedSince(Never) = {}
    BY DEF ChargedSince, Init
  <2> QED
    BY <2>1, FS_EmptySet DEF N
<1>3. Capacity \in Nat /\ Cost \in Nat /\ Drift \in Nat
  BY Products, DriftCovers DEF Capacity, Cost
<1>4. Touched = 0
  BY DEF Init, Touched
<1>5. Balanced(0, Touched, hash.level, hash.last_update)
  BY <1>2, <1>3, <1>4 DEF Init, Balanced, Spared
<1>6. Conserved
  BY <1>3, <1>4, <1>5 DEF Init, Conserved
<1> QED
  BY <1>1, <1>6 DEF LeakInv

\* A reply ends a call and changes nothing else of it.
LEMMA DeliverType ==
  ASSUME LeakTypes, NEW r \in Requests,
         (call[r].at = "sent" /\ Deliver(r, Script(r))) \/ UNCHANGED call
  PROVE  call' \in [Requests -> [at : {"idle", "sent", "done"}, now : Int, retries : Int,
                                 reply : {"none", "allowed", "rejected", "error"}]]
<1>1. CASE UNCHANGED call
  BY <1>1 DEF LeakTypes
<1>2. CASE call[r].at = "sent" /\ Deliver(r, Script(r))
  <2>1. PICK told \in {"allowed", "rejected"} :
          call' = [call EXCEPT ![r] = [at |-> "done", now |-> call[r].now,
                                       retries |-> 0, reply |-> told]]
    BY <1>2 DEF Deliver
  <2> QED
    BY <2>1 DEF LeakTypes
<1> QED
  BY <1>1, <1>2

LEMMA DeliverKeeps ==
  ASSUME LeakTypes, NEW r \in Requests, NEW s \in Requests,
         (call[r].at = "sent" /\ Deliver(r, Script(r))) \/ UNCHANGED call
  PROVE  /\ call'[s].now = call[s].now /\ (call'[s].at = "idle" <=> call[s].at = "idle")
         /\ call'[s].at = "sent" => call[s].at = "sent"
<1>1. CASE UNCHANGED call
  BY <1>1
<1>2. CASE call[r].at = "sent" /\ Deliver(r, Script(r))
  <2>1. PICK told \in {"allowed", "rejected"} :
          call' = [call EXCEPT ![r] = [at |-> "done", now |-> call[r].now,
                                       retries |-> 0, reply |-> told]]
    BY <1>2 DEF Deliver
  <2> QED
    BY <1>2, <2>1 DEF LeakTypes
<1> QED
  BY <1>1, <1>2

LEMMA CountTypeNext == N' \in Nat
<1>1. ChargedSince(Never)' \subseteq Requests
  BY DEF ChargedSince
<1> QED
  BY <1>1, Counting DEF N

\* A script charges at most its own request.
LEMMA CountStep ==
  ASSUME LeakTypes, NEW r \in Requests, NEW ok \in BOOLEAN,
         charged' = [charged EXCEPT ![r] = IF ok /\ @ = Never THEN clock ELSE @]
  PROVE  N' <= IF ok THEN N + 1 ELSE N
<1> DEFINE S == ChargedSince(Never)
<1>1. S' \subseteq (IF ok THEN S \cup {r} ELSE S)
  BY DEF ChargedSince, LeakTypes
<1>2. S \subseteq Requests /\ S \cup {r} \subseteq Requests
  BY DEF ChargedSince
<1>3. IsFiniteSet(S) /\ Cardinality(S) \in Nat
  BY <1>2, Counting
<1>4. Cardinality(S \cup {r}) = IF r \in S THEN Cardinality(S) ELSE Cardinality(S) + 1
  <2> HIDE DEF S
  <2> QED
    BY <1>3, FS_AddElement
<1>5. Cardinality(S') \in Nat /\ Cardinality(S') <= Cardinality(IF ok THEN S \cup {r} ELSE S)
  <2> HIDE DEF S
  <2> QED
    BY <1>1, <1>2, Counting
<1>6. N = Cardinality(S) /\ N' = Cardinality(S')
  BY DEF N
<1> HIDE DEF S
<1> QED
  BY <1>3, <1>4, <1>5, <1>6

\* In order, what has leaked is what time has let out, and what an expiry of the
\* key has spared.
LEMMA LeakedLevel ==
  ASSUME LeakTypes, Conserved, NEW r \in Requests, InOrder(r), clock - call[r].now <= MaxLag
  PROVE  LET now == call[r].now
             level == leaked(Stored(now), now)
         IN  level <= Capacity /\ \E n \in Nat : Balanced(n, clock, level, now)
<1> USE RedisAssumption DEF RedisAssumption
<1> DEFINE now == call[r].now
           lu == hash.last_update
<1>1. now \in Int /\ lu \in Int /\ hash.level \in Int /\ Capacity \in Nat
      /\ Cost \in Nat /\ N \in Nat /\ now >= lu /\ clock \in Nat /\ expireAt \in Int
      /\ Touched \in 0..clock
  BY CountType, Products DEF LeakTypes, InOrder, Capacity, Cost, Conserved
<1>2. /\ now * Limit \in Int /\ lu * Limit \in Int /\ N * Cost \in Int
      /\ (now - lu) * Limit = now * Limit - lu * Limit
      /\ lu * Limit <= now * Limit
  BY <1>1, Products
<1>3. leaked(hash, now) = IF now > lu
                          THEN IF hash.level - (now - lu) * Limit >= 0
                               THEN hash.level - (now - lu) * Limit ELSE 0
                          ELSE hash.level
  BY <1>1, <1>2, MaxPair DEF leaked
<1>4. PICK n \in Nat : Balanced(n, Touched, hash.level, lu)
  BY DEF Conserved
<1>5. Spared(n) \in Nat /\ Spared(n + 1) = Spared(n) + Drift * Limit /\ Drift * Limit \in Nat
  BY OneMoreExpiry
<1>6. /\ n * (Window + 1) <= Touched /\ N * Cost <= hash.level + lu * Limit + Spared(n)
      /\ hash.level <= Capacity
  BY <1>4 DEF Balanced, Conserved
<1>7. n * (Window + 1) \in Nat /\ (n + 1) * (Window + 1) = n * (Window + 1) + (Window + 1)
  OBVIOUS
<1>8. CASE ~Expired
  <2>1. /\ N * Cost <= leaked(hash, now) + now * Limit + Spared(n)
        /\ leaked(hash, now) <= Capacity
    <3> HIDE DEF lu, now
    <3>1. CASE now > lu
      BY <1>1, <1>2, <1>3, <1>5, <1>6, <3>1
    <3>2. CASE now = lu
      BY <1>1, <1>2, <1>3, <1>5, <1>6, <3>2
    <3> QED
      BY <1>1, <3>1, <3>2
  <2>2. Stored(now) = hash
    BY <1>8 DEF Stored
  <2>3. n * (Window + 1) <= clock
    BY <1>1, <1>6, <1>7
  <2>4. Balanced(n, clock, leaked(hash, now), now)
    BY <2>1, <2>3 DEF Balanced
  <2> QED
    BY <2>1, <2>2, <2>4
<1>9. CASE Expired
  <2>1. leaked(Stored(now), now) = 0
    BY <1>1, <1>9 DEF Stored, leaked
  <2>2. CASE expireAt = Never
    <3>1. hash.level <= 0
      BY <2>2 DEF Conserved
    <3>2. N * Cost <= 0 + now * Limit + Spared(n)
      <4> HIDE DEF lu, now
      <4> QED
        BY <1>1, <1>2, <1>5, <1>6, <3>1
    <3>3. n * (Window + 1) <= clock
      BY <1>1, <1>6, <1>7
    <3>4. Balanced(n, clock, 0, now)
      BY <3>2, <3>3 DEF Balanced
    <3> QED
      BY <1>1, <2>1, <3>4
  <2>3. CASE expireAt # Never
    <3>1. Touched = expireAt - Window /\ clock >= Touched + Window + 1
      BY <1>1, <1>9, <2>3 DEF Touched, Expired
    <3>2. lu + Window <= now + Drift
      <4>1. lu <= Touched + MaxLead
        BY DEF Conserved
      <4>2. clock <= now + MaxLag
        BY <1>1
      <4> HIDE DEF lu, now
      <4> QED
        BY <1>1, <3>1, <4>1, <4>2, DriftCovers
    <3>3. (lu + Window) * Limit <= (now + Drift) * Limit
      <4> HIDE DEF lu, now
      <4>1. lu + Window \in Int /\ now + Drift \in Int
        BY <1>1, DriftCovers
      <4> QED
        BY <3>2, <4>1, Products
    <3>4. lu * Limit + Capacity <= now * Limit + Drift * Limit
      <4> HIDE DEF lu, now
      <4>1. /\ (lu + Window) * Limit = lu * Limit + Window * Limit
            /\ (now + Drift) * Limit = now * Limit + Drift * Limit
        BY <1>1, DriftCovers, Products
      <4>2. Window * Limit = Capacity
        BY DEF Capacity
      <4> QED
        BY <3>3, <4>1, <4>2
    <3>5. N * Cost <= 0 + now * Limit + Spared(n + 1)
      <4> HIDE DEF lu, now
      <4> QED
        BY <1>1, <1>2, <1>5, <1>6, <3>4
    <3>6. (n + 1) * (Window + 1) <= clock
      BY <1>1, <1>6, <1>7, <3>1
    <3>7. n + 1 \in Nat /\ Balanced(n + 1, clock, 0, now)
      BY <3>5, <3>6 DEF Balanced
    <3> QED
      BY <1>1, <2>1, <3>7
  <2> QED
    BY <2>2, <2>3
<1> QED
  BY <1>8, <1>9

\* A script that runs in order lets out only what has leaked, and adds at most
\* the request it charges.
LEMMA LeakExecute ==
  ASSUME LeakInv, ~Sliding, NEW r \in Requests, Execute(r)
  PROVE  LeakInv'
<1> USE RedisAssumption DEF RedisAssumption
<1> DEFINE now == call[r].now
           h == Stored(now)
           level == leaked(h, now)
           ok == level + Cost <= Capacity
<1>1. /\ LeakTypes /\ Aged(r)
      /\ clock \in Nat /\ now \in Int /\ wire[r] \in Int
      /\ hash.level \in Int /\ hash.last_update \in Int
      /\ Capacity \in Nat /\ Cost \in Nat
  BY Products DEF LeakInv, LeakTypes, Capacity, Cost
<1>2. /\ wire[r] > 0 /\ wire' = [wire EXCEPT ![r] = @ - 1]
      /\ clock' = clock
      /\ hash' = [level |-> IF ok THEN level + Cost ELSE level, last_update |-> now]
      /\ expireAt' = clock + Window
      /\ charged' = [charged EXCEPT ![r] = IF ok /\ @ = Never THEN clock ELSE @]
      /\ orderly' => orderly /\ InOrder(r)
  BY DEF Execute, Script, leakyBucket, Verdict
<1>3. now <= clock + MaxLead /\ clock - now <= MaxLag
  BY <1>1, <1>2 DEF Aged, Busy
<1>4. h.level \in Int /\ h.last_update \in Int /\ level \in Int
  <2>1. h.level \in Int /\ h.last_update \in Int
    BY <1>1 DEF Stored
  <2>2. (now - h.last_update) * Limit \in Int
    BY <1>1, <2>1, Products
  <2>3. \A a \in Int : Max({a, 0}) \in Int
    BY MaxPair
  <2> HIDE DEF h
  <2> QED
    BY <1>1, <2>1, <2>2, <2>3, SMTT(40) DEF leaked
<1>5. LeakTypes'
  <2>1. call' \in [Requests -> [at : {"idle", "sent", "done"}, now : Int, retries : Int,
                                reply : {"none", "allowed", "rejected", "error"}]]
    BY <1>1, DeliverType DEF LeakTypes, Execute
  <2>2. hash' \in [level : Int, last_update : Int] /\ clock' \in Nat /\ expireAt' \in Int
    <3> HIDE DEF level, ok
    <3> QED
      BY <1>1, <1>2, <1>4
  <2>3. wire' \in [Requests -> Int] /\ charged' \in [Requests -> Int]
    <3> HIDE DEF ok
    <3> QED
      BY <1>1, <1>2 DEF LeakTypes
  <2> QED
    BY <2>1, <2>2, <2>3 DEF LeakTypes
<1>6. \A s \in Requests : Aged(s)'
  <2> SUFFICES ASSUME NEW s \in Requests PROVE Aged(s)'
    OBVIOUS
  <2>1. Aged(s) /\ wire[s] \in Int /\ call[s].at \in {"idle", "sent", "done"}
    BY DEF LeakInv, LeakTypes
  <2>2. /\ call'[s].now = call[s].now /\ (call'[s].at = "idle" <=> call[s].at = "idle")
        /\ call'[s].at = "sent" => call[s].at = "sent"
    BY <1>1, <2>1, DeliverKeeps DEF Execute
  <2>3. wire'[s] = IF s = r THEN wire[s] - 1 ELSE wire[s]
    BY <1>2 DEF LeakInv, LeakTypes
  <2> QED
    BY <1>1, <1>2, <2>1, <2>2, <2>3 DEF Aged, Busy
<1>7. orderly' => Conserved'
  <2> SUFFICES ASSUME orderly' PROVE Conserved'
    OBVIOUS
  <2>1. Conserved /\ InOrder(r) /\ N \in Nat /\ N' \in Nat
    BY <1>2, <1>5, CountType, CountTypeNext DEF LeakInv
  <2>2. PICK n \in Nat : level <= Capacity /\ Balanced(n, clock, level, now)
    BY <1>1, <1>3, <2>1, LeakedLevel
  <2>3. N' <= IF ok THEN N + 1 ELSE N
    BY <1>2, <2>1, CountStep DEF LeakInv
  <2>4. N' * Cost <= IF ok THEN N * Cost + Cost ELSE N * Cost
    <3> HIDE DEF ok
    <3>1. CASE ok
      BY <1>1, <2>1, <2>3, <3>1, OneMore
    <3>2. CASE ~ok
      BY <1>1, <2>1, <2>3, <3>2, OneMore
    <3> QED
      BY <3>1, <3>2
  <2>5. now * Limit \in Int /\ N * Cost \in Int /\ N' * Cost \in Int /\ Spared(n) \in Nat
    BY <1>1, <2>1, OneMoreExpiry
  <2>6. hash'.level = (IF ok THEN level + Cost ELSE level) /\ hash'.last_update = now
    BY <1>2
  <2>7. hash'.level <= Capacity /\ N' * Cost <= hash'.level + now * Limit + Spared(n)
    <3>1. N * Cost <= level + now * Limit + Spared(n) /\ level <= Capacity
      BY <2>2 DEF Balanced
    <3> HIDE DEF level
    <3> QED
      BY <1>1, <1>4, <2>1, <2>4, <2>5, <2>6, <3>1
  <2>8. Touched' = clock /\ expireAt' # Never
    BY <1>1, <1>2 DEF Touched, Never
  <2>9. Balanced(n, Touched, hash.level, hash.last_update)'
    <3>1. n * (Window + 1) <= clock
      BY <2>2 DEF Balanced
    <3> HIDE DEF level, now, ok
    <3> QED
      BY <2>6, <2>7, <2>8, <3>1 DEF Balanced, Cost, Spared
  <2>10. (hash.level <= Capacity)' /\ (hash.last_update <= Touched + MaxLead)' /\ (Touched \in 0..clock)'
    <3> HIDE DEF level, now, ok
    <3> QED
      BY <1>1, <1>2, <1>3, <2>6, <2>7, <2>8 DEF Capacity
  <2> QED
    BY <2>8, <2>9, <2>10 DEF Conserved
<1> QED
  BY <1>5, <1>6, <1>7 DEF LeakInv

\* Time passes, and the gateways' own steps charge nothing.
LEMMA LeakOther ==
  ASSUME LeakInv,
         Tick \/ \E r \in Requests : Send(r) \/ Resend(r) \/ Lose(r) \/ GiveUp(r)
  PROVE  LeakInv'
<1> USE RedisAssumption DEF RedisAssumption
<1>1. UNCHANGED <<hash, expireAt, charged, orderly>> /\ clock \in Nat /\ LeakTypes
  BY DEF Tick, Send, Resend, Lose, GiveUp, LeakInv, LeakTypes
<1>0. clock' \in Nat /\ clock <= clock'
  <2>1. CASE Tick
    BY <1>1, <2>1 DEF Tick
  <2>2. CASE \E r \in Requests : Send(r) \/ Resend(r) \/ Lose(r) \/ GiveUp(r)
    <3>1. clock' = clock
      BY <2>2 DEF Send, Resend, Lose, GiveUp
    <3> QED
      BY <1>1, <3>1
  <2> QED
    BY <2>1, <2>2
<1>2. LeakTypes'
  <2>1. CASE Tick
    BY <1>0, <1>1, <2>1 DEF LeakTypes, Tick
  <2>2. ASSUME NEW r \in Requests, Send(r) \/ Resend(r) \/ Lose(r) \/ GiveUp(r)
        PROVE  /\ wire' \in [Requests -> Int]
               /\ call' \in [Requests -> [at : {"idle", "sent", "done"}, now : Int, retries : Int,
                                          reply : {"none", "allowed", "rejected", "error"}]]
    <3>1. CASE Send(r)
      BY <1>1, <3>1, SMTT(40) DEF Send, LeakTypes
    <3>2. CASE Resend(r)
      BY <1>1, <3>2 DEF Resend, LeakTypes
    <3>3. CASE Lose(r)
      BY <1>1, <3>3 DEF Lose, LeakTypes
    <3>4. CASE GiveUp(r)
      BY <1>1, <3>4 DEF GiveUp, LeakTypes
    <3> QED
      BY <2>2, <3>1, <3>2, <3>3, <3>4
  <2> QED
    BY <1>0, <1>1, <2>1, <2>2 DEF LeakTypes
<1>3. \A s \in Requests : Aged(s)'
  <2> SUFFICES ASSUME NEW s \in Requests PROVE Aged(s)'
    OBVIOUS
  <2>1. Aged(s) /\ wire[s] \in Int /\ call[s].now \in Int /\ LeakTypes
    BY DEF LeakInv, LeakTypes
  <2>2. CASE Tick
    BY <1>0, <1>1, <2>1, <2>2 DEF Tick, Aged, Busy
  <2>3. ASSUME NEW r \in Requests, Send(r) \/ Resend(r) \/ Lose(r) \/ GiveUp(r)
        PROVE  Aged(s)'
    <3>1. CASE Send(r)
      <4>1. PICK now \in clock..clock + MaxLead :
              call' = [call EXCEPT ![r].at = "sent", ![r].now = now]
        BY <3>1 DEF Send
      <4> QED
        BY <1>1, <2>1, <3>1, <4>1 DEF Send, Aged, Busy, LeakTypes
    <3>2. CASE Resend(r)
      BY <1>1, <2>1, <3>2 DEF Resend, Aged, Busy, LeakTypes
    <3>3. CASE Lose(r)
      BY <1>1, <2>1, <3>3 DEF Lose, Aged, Busy, LeakTypes
    <3>4. CASE GiveUp(r)
      <4>1. /\ call'[s].now = call[s].now /\ wire' = wire /\ clock' = clock
            /\ call'[s].at = IF s = r THEN "done" ELSE call[s].at
        BY <2>1, <3>4 DEF GiveUp, LeakTypes
      <4>2. call[r].at = "sent"
        BY <3>4 DEF GiveUp
      <4> QED
        BY <2>1, <4>1, <4>2 DEF Aged, Busy
    <3> QED
      BY <2>3, <3>1, <3>2, <3>3, <3>4
  <2> QED
    BY <2>2, <2>3
<1>4. N' = N
  BY <1>1 DEF N, ChargedSince
<1>5. orderly' => Conserved'
  <2> SUFFICES ASSUME orderly PROVE Conserved'
    BY <1>1
  <2>1. Conserved
    BY DEF LeakInv
  <2>2. Touched' = Touched
    BY <1>1 DEF Touched
  <2>3. \A n \in Nat : Balanced(n, Touched, hash.level, hash.last_update)
                       => Balanced(n, Touched, hash.level, hash.last_update)'
    BY <1>1, <1>4, <2>2 DEF Balanced, Spared, Cost
  <2> QED
    BY <1>0, <1>1, <2>1, <2>2, <2>3 DEF Conserved, Capacity
<1> QED
  BY <1>2, <1>3, <1>5 DEF LeakInv

\* For all values of the constants, as long as no script carries a time older
\* than that of the script before it, the leaky bucket lets out no more than its
\* rate, the lead of the gateways and what n expiries of the key have spared.
THEOREM RateHoldsInOrder == Spec => []LeakRateInOrder
<1> DEFINE Inv == ~Sliding => LeakInv
<1>1. Inv /\ [Next]_vars => Inv'
  <2> SUFFICES ASSUME Inv, [Next]_vars, ~Sliding' PROVE LeakInv'
    OBVIOUS
  <2>0. ~Sliding /\ LeakInv
    BY DEF Sliding, Next, vars, Tick, Send, Resend, Lose, GiveUp, Execute
  <2>1. ASSUME NEW r \in Requests, Execute(r)
        PROVE  LeakInv'
    BY <2>0, <2>1, LeakExecute
  <2>2. CASE Tick \/ \E r \in Requests : Send(r) \/ Resend(r) \/ Lose(r) \/ GiveUp(r)
    BY <2>0, <2>2, LeakOther
  <2>3. CASE UNCHANGED vars
    BY <2>0, <2>3 DEF vars, LeakInv, LeakTypes, Aged, Busy, Conserved, Touched, Balanced, N, ChargedSince
  <2> QED
    BY <2>1, <2>2, <2>3 DEF Next
<1>2. Inv => LeakRateInOrder
  <2> SUFFICES ASSUME LeakInv, orderly
               PROVE  \E n \in 0..clock :
                        /\ n * (Window + 1) <= clock
                        /\ N * Cost <= Capacity + (clock + MaxLead + n * Drift) * Limit
    BY DEF LeakRateInOrder, N
  <2> USE RedisAssumption DEF RedisAssumption
  <2>1. /\ clock \in Nat /\ hash.level \in Int /\ hash.last_update \in Int
        /\ N \in Nat /\ Capacity \in Nat /\ Cost \in Nat /\ Drift \in Nat
    BY CountType, Products, DriftCovers DEF LeakInv, LeakTypes, Capacity, Cost
  <2>2. PICK n \in Nat : Balanced(n, Touched, hash.level, hash.last_update)
    BY DEF LeakInv, Conserved
  <2>3. Touched \in 0..clock /\ hash.last_update <= Touched + MaxLead /\ hash.level <= Capacity
    BY DEF LeakInv, Conserved
  <2>4. n * (Window + 1) <= clock /\ n \in 0..clock
    <3>1. n * (Window + 1) <= Touched
      BY <2>2 DEF Balanced
    <3>2. n <= n * (Window + 1) /\ n * (Window + 1) \in Nat
      OBVIOUS
    <3> QED
      BY <2>1, <2>3, <3>1, <3>2
  <2>5. hash.last_update * Limit <= (clock + MaxLead) * Limit
    BY <2>1, <2>3, Products
  <2>6. (clock + MaxLead + n * Drift) * Limit = (clock + MaxLead) * Limit + Spared(n)
    BY <2>1, Products DEF Spared
  <2>7. /\ hash.last_update * Limit \in Int /\ (clock + MaxLead) * Limit \in Int
        /\ N * Cost \in Int /\ Spared(n) \in Nat
    BY <2>1, Products, OneMoreExpiry
  <2>8. N * Cost <= hash.level + hash.last_update * Limit + Spared(n)
    BY <2>2 DEF Balanced
  <2>9. N * Cost <= Capacity + (clock + MaxLead + n * Drift) * Limit
    BY <2>1, <2>3, <2>5, <2>6, <2>7, <2>8
  <2> QED
    BY <2>4, <2>9
<1>3. Init => Inv
  BY LeakInit
<1> QED
  BY <1>1, <1>2, <1>3, PTL DEF Spec

=============================================================================
