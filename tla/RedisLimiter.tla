---------------------------- MODULE RedisLimiter ----------------------------
(***************************************************************************)
(* The Redis limiter: RedisLimiter.Allow on any number of gateways, the    *)
(* two Lua scripts it runs, and the verdict of the rate-limit middleware.  *)
(*                                                                         *)
(* One key is modelled.  A request reads its gateway's clock, which may    *)
(* lead Redis's by MaxLead, and sends the script with that time; the       *)
(* script runs in Redis atomically, but later, in any order, up to MaxLag  *)
(* after the time it carries (which covers a gateway's slow clock too).    *)
(* go-redis sends a command again when a connection fails, so one request  *)
(* may be executed more than once, even after its gateway has given up.    *)
(*                                                                         *)
(* A sorted-set member is built from instanceID, the time and              *)
(* memberCounter, so it stands for its request: the set is the set of      *)
(* requests, and the score of a request is the time it carries.  The water *)
(* level is counted in units of 1/Window request, so that a tick leaks     *)
(* exactly Limit units: the Lua numbers without their rounding.            *)
(***************************************************************************)
EXTENDS Integers, FiniteSets, FiniteSetsExt

CONSTANTS
  Requests,    \* the requests made for the key, each calling Allow once
  Algorithms,  \* the algorithms cfg.Algorithm is chosen from
  Limit,       \* cfg.Requests
  Window,      \* cfg.Window, in ticks (milliseconds)
  MaxLag,      \* how long after the time it carries a script may still run
  MaxLead,     \* how far a gateway's clock may be ahead of Redis's
  MaxRetries,  \* redis.max_retries
  Second,      \* a second, in ticks
  MaxTime      \* bound on the clock

ASSUME RedisAssumption ==
  /\ IsFiniteSet(Requests)
  /\ Algorithms \subseteq {"sliding_window", "leaky_bucket"}
  /\ Limit \in Nat \ {0} /\ Window \in Nat \ {0} /\ Second \in Nat \ {0}
  /\ MaxLag \in Nat /\ MaxLead \in Nat /\ MaxRetries \in Nat /\ MaxTime \in Nat

VARIABLES
  algorithm, \* cfg.Algorithm of the middleware the key belongs to
  clock,     \* Redis's clock, and true time
  call,      \* each Allow: its place, nowMs, retries, and what it was told
  wire,      \* copies of each request's command on their way to Redis
  zset,      \* the sorted set: the requests in it
  hash,      \* the hash: level and last_update
  expireAt,  \* when Redis drops the key
  charged,   \* when each request was first charged, Never before
  orderly    \* every script of the leaky bucket has carried a time not before the last one's

vars == <<algorithm, clock, call, wire, zset, hash, expireAt, charged, orderly>>

Never == -1
Cost == Window
Capacity == Limit * Window

NewCall == [at |-> "idle", now |-> 0, retries |-> 0, reply |-> "none"]

Init ==
  /\ algorithm \in Algorithms
  /\ clock = 0
  /\ call = [r \in Requests |-> NewCall]
  /\ wire = [r \in Requests |-> 0]
  /\ zset = {}
  /\ hash = [level |-> 0, last_update |-> 0]
  /\ expireAt = Never
  /\ charged = [r \in Requests |-> Never]
  /\ orderly = TRUE

-----------------------------------------------------------------------------
(* The gateway's side of Allow.                                            *)

\* Allow reads the clock and sends the script.
Send(r) ==
  /\ call[r].at = "idle"
  /\ \E now \in clock..clock + MaxLead :
       call' = [call EXCEPT ![r].at = "sent", ![r].now = now]
  /\ wire' = [wire EXCEPT ![r] = 1]
  /\ UNCHANGED <<algorithm, clock, zset, hash, expireAt, charged, orderly>>

\* A connection fails and go-redis sends the same command again.
Resend(r) ==
  /\ call[r].at = "sent"
  /\ call[r].retries < MaxRetries
  /\ call' = [call EXCEPT ![r].retries = @ + 1]
  /\ wire' = [wire EXCEPT ![r] = @ + 1]
  /\ UNCHANGED <<algorithm, clock, zset, hash, expireAt, charged, orderly>>

\* A command never reaches Redis.
Lose(r) ==
  /\ wire[r] > 0
  /\ wire' = [wire EXCEPT ![r] = @ - 1]
  /\ UNCHANGED <<algorithm, clock, call, zset, hash, expireAt, charged, orderly>>

\* The query timeout is over, or every retry has failed: Allow returns an
\* error and the middleware lets the request through.
GiveUp(r) ==
  /\ call[r].at = "sent"
  /\ call' = [call EXCEPT ![r] = [at |-> "done", now |-> @.now, retries |-> 0,
                                  reply |-> "error"]]
  /\ UNCHANGED <<algorithm, clock, wire, zset, hash, expireAt, charged, orderly>>

-----------------------------------------------------------------------------
(* Redis.                                                                  *)

Expired == clock > expireAt

Score(r) == call[r].now

\* What the key holds, after the expiry Redis applies by itself.
Members == IF Expired THEN {} ELSE zset
Stored(now) == IF Expired THEN [level |-> 0, last_update |-> now] ELSE hash

\* Fault: a script trims one tick too much.
Trimmed_TooFar(members, now) == {m \in members : Score(m) > now - Window + 1}

\* ZREMRANGEBYSCORE key 0 now-window.
Trimmed(members, now) == {m \in members : Score(m) > now - Window}

\* What a script decides and leaves behind.
Verdict(ok, members, level, last, reset) ==
  [ok |-> ok, members |-> members, level |-> level, last_update |-> last, resetAt |-> reset]

\* Fault: the request is counted before it is judged.
slidingWindow_AddsFirst(r, members, now) ==
  LET kept == Trimmed(members, now) \cup {r}
      ok == Cardinality(kept) <= Limit
  IN  Verdict(ok, kept, 0, 0, IF ok THEN now + Window ELSE Min({Score(m) : m \in kept}) + Window)

\* Fault: the last place of the window is never given away.
slidingWindow_OneShort(r, members, now) ==
  LET kept == Trimmed(members, now)
      ok == Cardinality(kept) < Limit - 1
  IN  IF ok
      THEN Verdict(ok, kept \cup {r}, 0, 0, now + Window)
      ELSE Verdict(ok, kept, 0, 0, IF kept = {} THEN now + Window
                                   ELSE Min({Score(m) : m \in kept}) + Window)

slidingWindow(r, members, now) ==
  LET kept == Trimmed(members, now)
      ok == Cardinality(kept) < Limit
  IN  IF ok
      THEN Verdict(ok, kept \cup {r}, 0, 0, now + Window)
      ELSE Verdict(ok, kept, 0, 0, Min({Score(m) : m \in kept}) + Window)

Ceil(n, d) == (n + d - 1) \div d

\* The level after elapsed time has leaked; a time before last_update leaks
\* nothing.
leaked(h, now) ==
  IF now > h.last_update
  THEN Max({h.level - (now - h.last_update) * Limit, 0})
  ELSE h.level

\* Fault: the wait for room is rounded down.
leakyBucket_RoundsDown(h, now) ==
  LET level == leaked(h, now)
      ok == level + Cost <= Capacity
  IN  IF ok
      THEN Verdict(ok, {}, level + Cost, now, now + Ceil(level + Cost, Limit))
      ELSE Verdict(ok, {}, level, now, now + (level + Cost - Capacity) \div Limit)

\* Fault: a refusal stores the level but not the time, so the same time leaks
\* again.
leakyBucket_KeepsTime(h, now) ==
  LET level == leaked(h, now)
      ok == level + Cost <= Capacity
  IN  IF ok
      THEN Verdict(ok, {}, level + Cost, now, now + Ceil(level + Cost, Limit))
      ELSE Verdict(ok, {}, level, h.last_update, now + Ceil(level + Cost - Capacity, Limit))

\* Both branches store the level and the request's own time.
leakyBucket(h, now) ==
  LET level == leaked(h, now)
      ok == level + Cost <= Capacity
  IN  IF ok
      THEN Verdict(ok, {}, level + Cost, now, now + Ceil(level + Cost, Limit))
      ELSE Verdict(ok, {}, level, now, now + Ceil(level + Cost - Capacity, Limit))

Sliding == algorithm = "sliding_window"

Script(r) ==
  IF Sliding THEN slidingWindow(r, Members, call[r].now)
             ELSE leakyBucket(Stored(call[r].now), call[r].now)

\* Fault: the client of a time that has just passed is sent back at once.
RetryAfter_NoFloor(resetAt, now) == resetAt \div Second - now \div Second

\* The whole seconds of Retry-After, from two times cut to seconds.
RetryAfter(resetAt, now) == Max({resetAt \div Second - now \div Second, 1})

\* Allow returns and the middleware forwards the request or answers 429.
Deliver(r, v) ==
  call' = [call EXCEPT ![r] = [at |-> "done", now |-> @.now, retries |-> 0,
                               reply |-> IF v.ok THEN "allowed" ELSE "rejected"]]

\* A script of the leaky bucket runs in order: its time is not before that of the
\* script that ran last, whether or not the key has expired since.
InOrder(r) == call[r].now >= hash.last_update

\* Redis runs a script.  The leaky bucket renews the expiry either way, the
\* sliding window only when it adds.  The reply arrives, or is lost, or comes
\* too late for a gateway that has given up.
Execute(r) ==
  LET v == Script(r)
  IN  /\ wire[r] > 0
      /\ wire' = [wire EXCEPT ![r] = @ - 1]
      /\ zset' = v.members
      /\ hash' = [level |-> v.level, last_update |-> v.last_update]
      /\ expireAt' = IF v.ok \/ ~Sliding THEN clock + Window ELSE expireAt
      /\ charged' = [charged EXCEPT ![r] = IF v.ok /\ @ = Never THEN clock ELSE @]
      /\ orderly' = (orderly /\ (Sliding \/ InOrder(r)))
      /\ \/ call[r].at = "sent" /\ Deliver(r, v)
         \/ UNCHANGED call
      /\ UNCHANGED <<algorithm, clock>>

-----------------------------------------------------------------------------
Busy(r) == call[r].at = "sent" \/ wire[r] > 0

\* Timeouts end every call and every connection within MaxLag.
Tick ==
  /\ clock < MaxTime
  /\ \A r \in Requests : Busy(r) => clock - call[r].now < MaxLag
  /\ clock' = clock + 1
  /\ UNCHANGED <<algorithm, call, wire, zset, hash, expireAt, charged, orderly>>

Next ==
  \/ Tick
  \/ \E r \in Requests : Send(r) \/ Resend(r) \/ Lose(r) \/ GiveUp(r) \/ Execute(r)

Spec == Init /\ [][Next]_vars

-----------------------------------------------------------------------------
\* The level stays between empty and full, and the sorted set never grows
\* beyond the limit.
TypeOK ==
  /\ algorithm \in Algorithms
  /\ clock \in 0..MaxTime
  /\ call \in [Requests -> [at : {"idle", "sent", "done"}, now : Nat,
                            retries : 0..MaxRetries,
                            reply : {"none", "allowed", "rejected", "error"}]]
  /\ wire \in [Requests -> 0..MaxRetries + 1]
  /\ zset \subseteq Requests /\ Cardinality(zset) <= Limit
  /\ hash \in [level : 0..Capacity, last_update : Nat]
  /\ expireAt \in Nat \cup {Never}
  /\ charged \in [Requests -> Nat \cup {Never}]
  /\ orderly \in BOOLEAN

ChargedSince(t) == {r \in Requests : charged[r] # Never /\ charged[r] > t}

\* The sliding window is a limit on real time, whatever the gateways' clocks
\* say, however late and in which order scripts run and however often they are
\* sent again: in any Window, less lag and lead, at most Limit requests are
\* charged.
SlidingBound ==
  Sliding => Cardinality(ChargedSince(clock - (Window - MaxLag - MaxLead))) <= Limit

Refused(r) == call[r].reply = "none" /\ call'[r].reply = "rejected"

\* A request is refused only for requests that were really charged: Limit of
\* them, within the Window, lag and lead.  Refused requests use up nothing.
RefusedJustly ==
  [][\A r \in Requests : Sliding /\ Refused(r) =>
       Cardinality(ChargedSince(clock - (Window + MaxLag + MaxLead))) >= Limit]_vars

\* The script, run for request r at time t on what it has just left behind.
Again(r, t) == IF Sliding THEN slidingWindow(r, zset', t) ELSE leakyBucket(hash', t)

\* A refused client is told a time at which it would be let in, if nobody else
\* came in between: resetAt is not too early, at the very tick.
ResetAdmits ==
  [][\A r \in Requests : Refused(r) => Again(r, Script(r).resetAt).ok]_vars

\* Retry-After compares two times cut to whole seconds, and the reply may be
\* older than the reset it announces.  By its gateway's clock the client is
\* nevertheless held off for a second at least, and comes back less than a second
\* before it is admitted, and less than a second after the reset unless that is
\* past.
RetryAfterClose ==
  [][\A r \in Requests : Refused(r) =>
       \A now \in clock..clock + MaxLead :
         LET resetAt == Script(r).resetAt
             back == now + RetryAfter(resetAt, now) * Second
         IN  /\ back >= now + Second
             /\ Again(r, back + Second - 1).ok
             /\ back < Max({resetAt, now + 1}) + Second]_vars

\* "Requests leak at a constant rate of capacity/window_ms": what has been
\* charged since the start is at most a full bucket and what leaked since.
LeakRate ==
  ~Sliding => Cardinality(ChargedSince(Never)) * Cost <= Capacity + clock * Limit

\* The ticks of leaking that a key's expiry may spare: it counts from Redis's
\* clock, up to MaxLead behind the time in the hash, and the script that finds the
\* key gone may carry a time that is MaxLag old.
Drift == Max({MaxLag + MaxLead - 1, 0})

\* As long as scripts run in the order of the times they carry, the leaky bucket
\* keeps its rate, however often a script is sent again: what it admits beyond
\* the rate is the gateways' lead, once, and Drift for each time that the key has
\* expired, which takes more than a Window each.
LeakRateInOrder ==
  orderly /\ ~Sliding =>
    \E n \in 0..clock :
      /\ n * (Window + 1) <= clock
      /\ Cardinality(ChargedSince(Never)) * Cost <= Capacity + (clock + MaxLead + n * Drift) * Limit

=============================================================================
