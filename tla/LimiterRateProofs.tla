------------------------- MODULE LimiterRateProofs -------------------------
(***************************************************************************)
(* Proofs about LimiterRate: for any number of requests and buckets, any   *)
(* limits and any window, the in-memory limiter keeps to its rate from     *)
(* every moment on.                                                        *)
(*                                                                         *)
(* What is admitted is a sum over buckets that come and go.  The inductive *)
(* invariant keeps a ledger of it instead: every bucket in play has a      *)
(* column of its own, the n[i] requests that column i has admitted are     *)
(* cells of a table, and the table is as large as the count.               *)
(***************************************************************************)
EXTENDS LimiterRate, MemoryLimiterProofs, FiniteSetTheorems, FunctionTheorems

USE LimiterAssumption, RateAssumption

(***************************************************************************)
(* One bucket since the observer looked.                                   *)
(***************************************************************************)

\* A bucket that was refilled after s has paid for k requests with one fill
\* and the time since s; one that was not has admitted nobody.
Owed(b, k, l, s) ==
  IF b.lastRefill >= s
  THEN k * Cost + b.tokens <= l * Window + l * (b.lastRefill - s)
  ELSE k = 0

\* A fresh bucket has paid for nobody.
LEMMA NewBucketOwed ==
  ASSUME NEW lim \in Limits, NEW now \in Times, NEW l \in Limits, lim <= l,
         NEW s \in Int, now >= s
  PROVE  Owed(NewBucket(lim, now), 0, l, s)
<1>1. lim * Window <= l * Window /\ lim * Window \in Nat /\ l * Window \in Nat
  BY ProductMono, ProductNat
<1>2. now \in Nat /\ now - s \in Nat /\ 0 * Cost = 0
  BY DEF Times, Cost
<1>3. l * (now - s) \in Nat
  BY <1>2, ProductNat
<1>4. NewBucket(lim, now).tokens = lim * Window /\ NewBucket(lim, now).lastRefill = now
  BY NewBucketFacts
<1>5. QED
  BY <1>1, <1>2, <1>3, <1>4 DEF Owed

\* The critical section keeps it, with one request more when it admits: the
\* first refill after s starts from a bucket that is at most full, the others
\* are paid for by the time they cover.
LEMMA TakenOwed ==
  ASSUME NEW b \in BucketRecords, NEW lim \in Limits, NEW now \in Times,
         NEW l \in Limits, lim <= l, NEW s \in Int, now >= s,
         NEW k \in Nat, Owed(b, k, l, s)
  PROVE  LET d == Taken(b, lim, now)
         IN  /\ d.lastRefill >= s
             /\ \/ d.granted = b.granted /\ Owed(d, k, l, s)
                \/ d.granted = b.granted + 1 /\ Owed(d, k + 1, l, s)
<1> DEFINE c == refill(b, lim, now)
           d == Taken(b, lim, now)
<1>1. /\ c \in BucketRecords /\ c.granted = b.granted
      /\ \/ /\ now <= b.lastRefill
            /\ c.tokens = b.tokens /\ c.lastRefill = b.lastRefill
         \/ /\ now > b.lastRefill
            /\ c.lastRefill = now
            /\ c.tokens <= b.tokens + (now - b.lastRefill) * lim
            /\ c.tokens <= lim * Window
  BY RefillFacts, Zenon
<1>2. /\ d \in BucketRecords /\ d.lastRefill = c.lastRefill
      /\ \/ d.granted = b.granted /\ d.tokens = c.tokens
         \/ d.granted = b.granted + 1 /\ d.tokens = c.tokens - Cost
  BY TakenFacts
<1> HIDE DEF c, d
<1>3. /\ b.lastRefill \in Int /\ now \in Int /\ l \in Nat /\ lim \in Nat /\ Cost \in Nat
      /\ b.granted \in Nat /\ b.tokens \in Nat /\ c.tokens \in Nat /\ c.lastRefill \in Int
      /\ d.tokens \in Nat /\ d.granted \in Nat
  BY <1>1, <1>2 DEF BucketRecords, Times, Cost
<1>4. c.lastRefill >= s /\ k * Cost + c.tokens <= l * Window + l * (c.lastRefill - s)
  <2>1. CASE now <= b.lastRefill
    <3>1. c.tokens = b.tokens /\ c.lastRefill = b.lastRefill
      BY <1>1, <1>3, <2>1
    <3>2. b.lastRefill >= s
      BY <1>3, <2>1
    <3>3. QED
      BY <3>1, <3>2 DEF Owed
  <2>2. CASE now > b.lastRefill /\ b.lastRefill >= s
    <3>1. c.lastRefill = now /\ c.tokens <= b.tokens + (now - b.lastRefill) * lim
      BY <1>1, <1>3, <2>2
    <3>2. now - b.lastRefill \in Nat
      BY <1>3, <2>2
    <3>3. lim * (now - b.lastRefill) <= l * (now - b.lastRefill)
      BY <1>3, <3>2, ProductMono
    <3>4. l * (now - s) = l * (b.lastRefill - s) + l * (now - b.lastRefill)
      BY <1>3, ProductSpans
    <3>5. (now - b.lastRefill) * lim = lim * (now - b.lastRefill)
      BY <1>3, <3>2
    <3>6. k * Cost + b.tokens <= l * Window + l * (b.lastRefill - s)
      BY <2>2 DEF Owed
    <3>7. k * Cost \in Nat /\ l * Window \in Nat /\ l * (b.lastRefill - s) \in Int
      BY <1>3, ProductNat
    <3>8. QED
      BY <1>3, <3>1, <3>2, <3>3, <3>4, <3>5, <3>6, <3>7
  <2>3. CASE now > b.lastRefill /\ ~(b.lastRefill >= s)
    <3>1. c.lastRefill = now /\ c.tokens <= lim * Window
      BY <1>1, <1>3, <2>3
    <3>2. k = 0 /\ k * Cost = 0
      BY <1>3, <2>3 DEF Owed
    <3>3. lim * Window <= l * Window /\ lim * Window \in Nat /\ l * Window \in Nat
      BY <1>3, ProductMono, ProductNat
    <3>4. now - s \in Nat
      BY <1>3
    <3>5. l * (now - s) \in Nat
      BY <1>3, <3>4, ProductNat
    <3>6. QED
      BY <1>3, <3>1, <3>2, <3>3, <3>5
  <2>4. QED
    BY <1>3, <2>1, <2>2, <2>3
<1>5. (k + 1) * Cost = k * Cost + Cost /\ k * Cost \in Nat
  BY <1>3, ProductNat
<1>6. CASE d.granted = b.granted /\ d.tokens = c.tokens
  BY <1>2, <1>4, <1>6 DEF Owed, d
<1>7. CASE d.granted = b.granted + 1 /\ d.tokens = c.tokens - Cost
  <2>1. (k + 1) * Cost + d.tokens = k * Cost + c.tokens
    BY <1>3, <1>5, <1>7
  <2>2. QED
    BY <1>2, <1>4, <1>7, <2>1 DEF Owed, d
<1>8. QED
  BY <1>2, <1>6, <1>7

(***************************************************************************)
(* The ledger.                                                             *)
(***************************************************************************)

\* The buckets in play; Nil stands for the one that the next LoadOrStore makes.
InPlay == Orphans \cup {entry}

\* A request that takes its token after the observer looked has not read the
\* clock before this.
Since == watch.since - MaxDelay

\* The requests admitted: column i has n[i] cells.
Cells(n) == {g \in Nat \X Nat : g[2] \in 1..n[g[1]]}

\* column gives every bucket in play a column of its own, n says how many
\* requests a column has admitted: no more than its allowance, which is what
\* its bucket has paid for.
Ledger(column, n, l) ==
  /\ IsFiniteSet(Cells(n)) /\ Cardinality(Cells(n)) = watch.admitted
  /\ \A i \in Nat : /\ i \notin 1..watch.buckets => n[i] = 0
                    /\ n[i] * Cost <= l * (Window + clock - Since)
  /\ \A b \in InPlay : column[b] \in 1..watch.buckets
  /\ \A b, c \in InPlay : column[b] = column[c] => b = c
  /\ \A b \in InPlay \ {Nil} : Owed(heap[b], n[column[b]], l, Since)
  /\ entry = Nil => n[column[Nil]] = 0

Columns == [Buckets \cup {Nil} -> Nat]
Counts == [Nat -> Nat]

Watches == [on : BOOLEAN, since : Nat, admitted : Nat, buckets : Nat]

NoneOverfull(l) == \A b \in Buckets : heap[b].tokens <= l * Window

\* The inductive invariant, for the largest limit l.
RateInv(l) ==
  /\ watch \in Watches /\ watch.since <= clock
  /\ NoneOverfull(l)
  /\ ~watch.on => watch.admitted = 0
  /\ watch.on => \E column \in Columns, n \in Counts : Ledger(column, n, l)

RateInvariant == \A l \in Limits : (\A m \in Limits : m <= l) => RateInv(l)

\* One request more is one cell more.
LEMMA CellAdded ==
  ASSUME NEW n \in Counts, NEW i \in Nat, IsFiniteSet(Cells(n))
  PROVE  LET m == [n EXCEPT ![i] = @ + 1]
         IN  /\ m \in Counts
             /\ IsFiniteSet(Cells(m)) /\ Cardinality(Cells(m)) = Cardinality(Cells(n)) + 1
<1> DEFINE m == [n EXCEPT ![i] = @ + 1]
           g == <<i, n[i] + 1>>
<1>1. m \in Counts /\ n[i] \in Nat /\ g \in Nat \X Nat
  BY DEF Counts
<1>2. \A j \in Nat : m[j] = IF j = i THEN n[i] + 1 ELSE n[j]
  BY DEF Counts
<1>3. g \notin Cells(n)
  BY <1>1 DEF Cells
<1>4. Cells(m) = Cells(n) \cup {g}
  <2>1. ASSUME NEW h \in Nat \X Nat
        PROVE  h[2] \in 1..m[h[1]] <=> h[2] \in 1..n[h[1]] \/ h = g
    <3>1. PICK j \in Nat, k \in Nat : h = <<j, k>>
      OBVIOUS
    <3>2. n[j] \in Nat
      BY DEF Counts
    <3> HIDE DEF m
    <3>3. k \in 1..m[j] <=> k \in 1..n[j] \/ (j = i /\ k = n[i] + 1)
      BY <1>1, <1>2, <3>2
    <3>4. QED
      BY <3>1, <3>3
  <2> HIDE DEF m, g
  <2>2. QED
    BY <1>1, <2>1 DEF Cells
<1> HIDE DEF m, g
<1>5. /\ IsFiniteSet(Cells(n) \cup {g})
      /\ Cardinality(Cells(n) \cup {g}) = Cardinality(Cells(n)) + 1
  BY <1>3, FS_AddElement
<1>6. QED
  BY <1>1, <1>4, <1>5, Zenon DEF m

\* A table of so many columns that are so high has at most that many cells.
LEMMA CellsBounded ==
  ASSUME NEW n \in Counts, NEW k \in Nat, NEW high \in Nat,
         \A i \in Nat : (i \notin 1..k => n[i] = 0) /\ n[i] <= high
  PROVE  Cardinality(Cells(n)) <= k * high
<1> DEFINE table == (1..k) \X (1..high)
<1>1. Cells(n) \subseteq table
  <2> SUFFICES ASSUME NEW i \in Nat, NEW j \in Nat, j \in 1..n[i]
               PROVE  i \in 1..k /\ j \in 1..high
    BY DEF Cells
  <2>1. n[i] \in Nat /\ n[i] # 0
    BY DEF Counts
  <2>2. QED
    BY <2>1
<1>2. /\ IsFiniteSet(1..k) /\ IsFiniteSet(1..high)
      /\ Cardinality(1..k) = k /\ Cardinality(1..high) = high
  BY FS_Interval
<1>3. IsFiniteSet(table) /\ Cardinality(table) = k * high
  <2>1. /\ IsFiniteSet(table)
        /\ Cardinality(table) = Cardinality(1..k) * Cardinality(1..high)
    BY <1>2, FS_Product, Zenon
  <2>2. QED
    BY <1>2, <2>1, Zenon
<1> HIDE DEF table
<1>4. Cells(n) \in SUBSET table
  BY <1>1
<1>5. Cardinality(Cells(n)) <= Cardinality(table)
  BY <1>3, <1>4, FS_Subset, Zenon
<1>6. QED
  BY <1>3, <1>5

\* The ledger bounds the rate.
LEMMA RateBounded ==
  ASSUME NEW l \in Limits, TypeOK, RateInv(l)
  PROVE  watch.admitted * Cost <= watch.buckets * Allowance(l)
<1>1. /\ clock \in Nat /\ watch.since \in Nat /\ watch.buckets \in Nat /\ watch.admitted \in Nat
      /\ watch.since <= clock /\ Cost \in Nat \ {0} /\ l \in Nat
  BY DEF RateInv, Watches, TypeOK, Times, Cost
<1> DEFINE span == Window + clock - watch.since + MaxDelay
           a == Allowance(l)
<1>2. span \in Nat /\ a = l * span
  BY <1>1 DEF Allowance
<1>3. a \in Nat
  BY <1>1, <1>2, ProductNat
<1>4. CASE ~watch.on
  <2>1. watch.admitted = 0 /\ watch.buckets * a \in Nat
    BY <1>1, <1>3, <1>4, ProductNat DEF RateInv
  <2>2. watch.admitted * Cost = 0
    BY <1>1, <2>1
  <2>3. QED
    BY <2>1, <2>2
<1>5. CASE watch.on
  <2>1. PICK column \in Columns, n \in Counts : Ledger(column, n, l)
    BY <1>5 DEF RateInv
  <2> DEFINE high == a \div Cost
  <2> HIDE DEF a, span
  <2>2. high \in Nat /\ high * Cost <= a /\ a < (high + 1) * Cost
    BY <1>1, <1>3
  <2> HIDE DEF high
  <2>3. ASSUME NEW i \in Nat PROVE (i \notin 1..watch.buckets => n[i] = 0) /\ n[i] <= high
    <3>1. (i \notin 1..watch.buckets => n[i] = 0) /\ n[i] * Cost <= l * (Window + clock - Since)
      BY <2>1 DEF Ledger
    <3>2. Window + clock - Since = span /\ n[i] \in Nat
      BY <1>1 DEF Since, span, Counts
    <3>3. n[i] * Cost <= a
      BY <1>2, <3>1, <3>2
    <3>4. CASE n[i] > high
      <4>1. (high + 1) * Cost <= n[i] * Cost
        BY <1>1, <2>2, <3>2, <3>4, ProductMono
      <4>2. n[i] * Cost \in Int /\ (high + 1) * Cost \in Int
        BY <1>1, <2>2, <3>2
      <4>3. QED
        BY <1>3, <2>2, <3>3, <4>1, <4>2
    <3>5. QED
      BY <2>2, <3>1, <3>2, <3>4
  <2>4. watch.admitted <= watch.buckets * high
    BY <1>1, <2>1, <2>2, <2>3, CellsBounded DEF Ledger
  <2>5. watch.buckets * high \in Nat
    BY <1>1, <2>2, ProductNat
  <2>6. watch.admitted * Cost <= (watch.buckets * high) * Cost
    BY <1>1, <2>4, <2>5, ProductMono
  <2>7. high * Cost \in Nat /\ (watch.buckets * high) * Cost = (high * Cost) * watch.buckets
    BY <1>1, <2>2, ProductNat
  <2>8. (high * Cost) * watch.buckets <= a * watch.buckets
    BY <1>1, <1>3, <2>2, <2>7, ProductMono
  <2>9. a * watch.buckets = watch.buckets * a /\ watch.buckets * a \in Nat
    BY <1>1, <1>3, ProductNat
  <2>10. watch.admitted * Cost \in Nat /\ (high * Cost) * watch.buckets \in Nat
    BY <1>1, <2>7, ProductNat
  <2>11. QED
    BY <2>6, <2>7, <2>8, <2>9, <2>10 DEF a
<1>6. QED
  BY <1>4, <1>5

(***************************************************************************)
(* The steps.                                                              *)
(***************************************************************************)

\* A step in which no call leaves the lock admits nobody.
LEMMA NobodyAdmitted ==
  ASSUME TypeOK, \A q \in Requests : call[q].at = "lock" => call'[q].at = "lock"
  PROVE  ~ \E r \in Requests : Admitted(r)
<1> SUFFICES ASSUME NEW r \in Requests, Admitted(r) PROVE FALSE
  OBVIOUS
<1>1. call[r].at = "lock" /\ call' = [call EXCEPT ![r] = Idle]
  BY DEF Admitted, Take
<1>2. call'[r] = Idle
  BY <1>1 DEF TypeOK
<1>3. QED
  BY <1>1, <1>2 DEF Idle

\* The observer counts an admission and an eviction, and forgets nothing.
LEMMA CountFacts ==
  ASSUME watch \in Watches, Count
  PROVE  /\ watch' \in Watches
         /\ watch'.on = watch.on /\ watch'.since = watch.since
         /\ ~watch.on => watch' = watch
         /\ watch.on =>
              /\ watch'.admitted = IF \E r \in Requests : Admitted(r)
                                   THEN watch.admitted + 1 ELSE watch.admitted
              /\ watch'.buckets = IF entry # Nil /\ entry' = Nil
                                  THEN watch.buckets + 1 ELSE watch.buckets
<1> DEFINE more == \E r \in Requests : Admitted(r)
           gone == entry # Nil /\ entry' = Nil
<1>1. watch' = IF ~watch.on THEN watch
               ELSE [watch EXCEPT !.admitted = IF more THEN @ + 1 ELSE @,
                                  !.buckets = IF gone THEN @ + 1 ELSE @]
  BY Zenon DEF Count
<1> HIDE DEF more, gone
<1>2. CASE ~watch.on
  <2>1. watch' = watch
    BY <1>1, <1>2
  <2>2. QED
    BY <1>2, <2>1, Zenon
<1>3. CASE watch.on
  <2> DEFINE adm == IF more THEN watch.admitted + 1 ELSE watch.admitted
             bks == IF gone THEN watch.buckets + 1 ELSE watch.buckets
  <2>1. watch' = [on |-> watch.on, since |-> watch.since, admitted |-> adm, buckets |-> bks]
    BY <1>1, <1>3 DEF Watches
  <2>2. adm \in Nat /\ bks \in Nat
    BY DEF Watches
  <2> HIDE DEF adm, bks
  <2>3. /\ watch' \in Watches /\ watch'.on = watch.on /\ watch'.since = watch.since
        /\ watch'.admitted = adm /\ watch'.buckets = bks
    BY <2>1, <2>2 DEF Watches
  <2>4. QED
    BY <1>3, <2>3, Zenon DEF adm, bks, more, gone
<1>4. QED
  BY <1>2, <1>3

\* More time is more allowance.
LEMMA AllowanceGrows ==
  ASSUME NEW l \in Nat, NEW k \in Int, NEW x \in Int, NEW y \in Int, NEW s \in Int,
         x <= y, k <= l * (Window + x - s)
  PROVE  k <= l * (Window + y - s)
<1>1. y - x \in Nat /\ l * (Window + y - s) = l * (Window + x - s) + l * (y - x)
  OBVIOUS
<1>2. l * (y - x) \in Nat /\ l * (Window + x - s) \in Int
  BY <1>1, ProductNat
<1>3. QED
  BY <1>1, <1>2

\* Steps that change no bucket and bring none into play.
LEMMA QuietStep ==
  ASSUME NEW l \in Limits, TypeOK, TypeOK', watch \in Watches, clock <= clock',
         heap' = heap, entry' = entry, watch' = watch, InPlay' \subseteq InPlay,
         NEW column \in Columns, NEW n \in Counts, Ledger(column, n, l)
  PROVE  Ledger(column, n, l)'
<1>1. /\ clock \in Int /\ clock' \in Int /\ Since \in Int /\ Since' = Since /\ l \in Nat
      /\ Window \in Nat
  BY DEF TypeOK, Times, Since, Watches
<1>2. ASSUME NEW i \in Nat PROVE n[i] * Cost <= l * (Window + clock' - Since)
  <2>1. n[i] * Cost \in Int
    BY DEF Counts, Cost
  <2>2. n[i] * Cost <= l * (Window + clock - Since)
    BY DEF Ledger
  <2>3. QED
    BY <1>1, <2>1, <2>2, AllowanceGrows
<1>3. QED
  BY <1>1, <1>2 DEF Ledger

\* The bucket that LoadOrStore makes takes over the column that was kept for it.
LEMMA StoreStep ==
  ASSUME NEW l \in Limits, \A m \in Limits : m <= l, TypeOK, Punctual,
         watch \in Watches, watch.since <= clock, watch' = watch,
         NEW r \in Requests, LoadOrStore(r), entry = Nil,
         NEW column \in Columns, NEW n \in Counts, Ledger(column, n, l)
  PROVE  \E c \in Columns : Ledger(c, n, l)'
<1> DEFINE a == call[r]
<1>1. PICK b \in Buckets :
        /\ ~Referenced(b) /\ entry' = b /\ clock' = clock
        /\ heap' = [heap EXCEPT ![b] = NewBucket(a.limit, a.now)]
        /\ call' = [call EXCEPT ![r] = Loaded(a, b)]
  BY DEF LoadOrStore
<1>2. PICK c \in Columns : c = [column EXCEPT ![b] = column[Nil]]
  BY DEF Columns
<1>3. /\ c[b] = column[Nil] /\ b # Nil
      /\ \A d \in Buckets \cup {Nil} : d # b => c[d] = column[d]
  BY <1>2 DEF Columns
<1>4. Nil \in InPlay /\ b \notin InPlay /\ InPlay \subseteq Buckets \cup {Nil}
  BY <1>1 DEF InPlay, Orphans, Referenced
<1>5. InPlay' \subseteq (InPlay \ {Nil}) \cup {b}
  <2>1. \A q \in Requests : call'[q].bucket = IF q = r THEN b ELSE call[q].bucket
    BY <1>1 DEF TypeOK, Loaded
  <2>2. Orphans' \subseteq Orphans
    BY <1>1, <2>1 DEF Orphans, Referenced
  <2>3. Nil \notin Orphans /\ entry' = b
    BY <1>1 DEF Orphans
  <2>4. QED
    BY <2>2, <2>3 DEF InPlay
<1>6. Owed(heap'[b], 0, l, Since)
  <2>1. a.limit \in Limits /\ a.now \in Times /\ clock - a.now <= MaxDelay
    BY DEF LoadOrStore, TypeOK, Punctual
  <2>2. heap'[b] = NewBucket(a.limit, a.now)
    BY <1>1 DEF TypeOK
  <2>3. Since \in Int /\ a.now >= Since
    BY <2>1 DEF Since, Watches, TypeOK, Times
  <2> HIDE DEF a
  <2>4. QED
    BY <2>1, <2>2, <2>3, NewBucketOwed
<1>7. \A d \in Buckets : d # b => heap'[d] = heap[d]
  BY <1>1 DEF TypeOK
<1>8. Since' = Since /\ n[column[Nil]] = 0
  BY DEF Since, Ledger
<1>9. ASSUME NEW d \in InPlay'
      PROVE  \/ d = b
             \/ d \in InPlay \ {Nil} /\ c[d] = column[d] /\ heap'[d] = heap[d]
  BY <1>3, <1>4, <1>5, <1>7, <1>9
<1>10. \A d \in InPlay' : c[d] \in 1..watch.buckets
  BY <1>3, <1>4, <1>9 DEF Ledger
<1>11. \A d, e \in InPlay' : c[d] = c[e] => d = e
  BY <1>3, <1>4, <1>9 DEF Ledger
<1>12. \A d \in InPlay' \ {Nil} : Owed(heap'[d], n[c[d]], l, Since)
  BY <1>3, <1>6, <1>8, <1>9 DEF Ledger
<1>13. Ledger(c, n, l)'
  BY <1>1, <1>3, <1>8, <1>10, <1>11, <1>12 DEF Ledger
<1>14. QED
  BY <1>13

\* An eviction opens a column for the bucket that will come.
LEMMA EvictStep ==
  ASSUME NEW l \in Limits, watch \in Watches, entry # Nil, entry' = Nil,
         UNCHANGED <<clock, heap, call>>,
         watch'.admitted = watch.admitted, watch'.since = watch.since,
         watch'.buckets = watch.buckets + 1, TypeOK,
         NEW column \in Columns, NEW n \in Counts, Ledger(column, n, l)
  PROVE  \E c \in Columns : Ledger(c, n, l)'
<1> DEFINE k == watch.buckets + 1
<1>1. k \in Nat /\ k \notin 1..watch.buckets /\ 1..watch'.buckets = (1..watch.buckets) \cup {k}
  BY DEF Watches
<1>2. PICK c \in Columns : c = [column EXCEPT ![Nil] = k]
  BY <1>1 DEF Columns
<1>3. c[Nil] = k /\ \A b \in Buckets : c[b] = column[b]
  BY <1>2 DEF Columns
<1>4. InPlay' \subseteq InPlay \cup {Nil} /\ InPlay \subseteq Buckets /\ Nil \notin InPlay
  BY DEF InPlay, Orphans, Referenced, TypeOK
<1>5. Since' = Since /\ n[k] = 0
  BY <1>1 DEF Since, Ledger
<1> HIDE DEF k
<1>6. \A b \in InPlay' : b = Nil \/ (b \in InPlay /\ c[b] = column[b])
  BY <1>3, <1>4
<1>7. \A b \in InPlay' : c[b] \in 1..watch'.buckets
  BY <1>1, <1>3, <1>6 DEF Ledger
<1>8. \A b, d \in InPlay' : c[b] = c[d] => b = d
  BY <1>1, <1>3, <1>6 DEF Ledger
<1>9. \A i \in Nat : i \notin 1..watch'.buckets => n[i] = 0
  BY <1>1 DEF Ledger
<1>10. \A b \in InPlay' \ {Nil} : Owed(heap'[b], n[c[b]], l, Since)
  BY <1>4, <1>6 DEF Ledger
<1>11. Ledger(c, n, l)'
  BY <1>3, <1>5, <1>7, <1>8, <1>9, <1>10 DEF Ledger
<1>12. QED
  BY <1>11

\* What a bucket has paid for is within the allowance at the time.
LEMMA OwedBounded ==
  ASSUME NEW d \in BucketRecords, NEW k \in Nat, NEW l \in Limits, NEW s \in Int,
         NEW time \in Times, Owed(d, k, l, s), d.lastRefill >= s, d.lastRefill <= time
  PROVE  k * Cost <= l * (Window + time - s)
<1>1. /\ d.lastRefill \in Int /\ d.tokens \in Nat /\ time \in Int /\ k * Cost \in Int /\ l \in Nat
      /\ Window \in Int
  BY DEF BucketRecords, Times, Cost
<1>2. k * Cost + d.tokens <= l * Window + l * (d.lastRefill - s)
  BY DEF Owed
<1>3. l * (Window + d.lastRefill - s) = l * Window + l * (d.lastRefill - s)
  BY <1>1
<1>4. l * (Window + d.lastRefill - s) \in Int
  BY <1>1
<1>5. k * Cost <= l * (Window + d.lastRefill - s)
  BY <1>1, <1>2, <1>3, <1>4
<1>6. QED
  BY <1>1, <1>5, AllowanceGrows

\* The critical section writes what it admits into its bucket's column.
LEMMA TakeStep ==
  ASSUME NEW l \in Limits, \A m \in Limits : m <= l, TypeOK, TypeOK', Punctual, Punctual',
         watch \in Watches, watch.since <= clock, watch.on, Count,
         NEW r \in Requests, Take(r),
         NEW column \in Columns, NEW n \in Counts, Ledger(column, n, l)
  PROVE  \E m \in Counts : Ledger(column, m, l)'
<1> DEFINE a == call[r]
           b == a.bucket
           i == column[b]
           d == heap'[b]
<1>1. /\ a.at = "lock" /\ b \in Buckets /\ b # Nil /\ a.limit \in Limits /\ a.now \in Times
      /\ a.now <= clock /\ clock - a.now <= MaxDelay /\ clock \in Times /\ clock \in Nat
  BY DEF Take, TypeOK, Punctual, Times
<1>2. /\ d = Taken(heap[b], a.limit, a.now) /\ d \in BucketRecords /\ heap[b] \in BucketRecords
      /\ \A c \in Buckets : c # b => heap'[c] = heap[c]
  BY <1>1 DEF Take, TypeOK
<1>3. /\ clock' = clock /\ entry' = entry
      /\ \A q \in Requests : call'[q] = IF q = r THEN Idle ELSE call[q]
  BY DEF Take, TypeOK
<1>4. b \in InPlay /\ InPlay' \subseteq InPlay /\ InPlay \subseteq Buckets \cup {Nil}
  <2>1. b \in InPlay
    BY <1>1 DEF InPlay, Orphans, Referenced
  <2>2. Orphans' \subseteq Orphans
    <3>1. \A q \in Requests : call'[q].bucket \in {call[q].bucket, Nil}
      BY <1>3 DEF Idle
    <3>2. QED
      BY <1>3, <3>1 DEF Orphans, Referenced
  <2>3. QED
    BY <1>3, <2>1, <2>2 DEF InPlay, Orphans, TypeOK
<1>5. i \in Nat /\ i \in 1..watch.buckets /\ n[i] \in Nat
  BY <1>1, <1>4 DEF Columns, Counts, Ledger
<1>6. Since \in Int /\ a.now >= Since /\ Since' = Since
  <2>1. watch'.since = watch.since
    BY CountFacts
  <2>2. QED
    BY <1>1, <2>1 DEF Since, Watches, Times
<1>7. /\ watch'.buckets = watch.buckets
      /\ watch'.admitted = IF \E q \in Requests : Admitted(q)
                           THEN watch.admitted + 1 ELSE watch.admitted
  BY <1>3, CountFacts
<1>8. \A q \in Requests : Admitted(q) <=> q = r /\ d.granted > heap[b].granted
  <2>1. \A q \in Requests : Take(q) => q = r
    <3>1. \A q \in Requests : Take(q) => call[q].at = "lock" /\ call'[q].at = "idle"
      BY DEF Take, TypeOK, Idle
    <3>2. QED
      BY <1>3, <3>1
  <2>2. Admitted(r) <=> d.granted > heap[b].granted
    BY Zenon DEF Admitted
  <2>3. \A q \in Requests : Admitted(q) => q = r
    BY <2>1 DEF Admitted
  <2>4. QED
    BY <2>2, <2>3, Zenon
<1> HIDE DEF a, b, i, d
<1>9. /\ d.lastRefill >= Since
      /\ \/ d.granted = heap[b].granted /\ Owed(d, n[i], l, Since)
         \/ d.granted = heap[b].granted + 1 /\ Owed(d, n[i] + 1, l, Since)
  <2>1. Owed(heap[b], n[i], l, Since) /\ a.limit <= l
    BY <1>1, <1>4 DEF Ledger, i
  <2>2. LET e == Taken(heap[b], a.limit, a.now)
        IN  /\ e.lastRefill >= Since
            /\ \/ e.granted = heap[b].granted /\ Owed(e, n[i], l, Since)
               \/ e.granted = heap[b].granted + 1 /\ Owed(e, n[i] + 1, l, Since)
    BY <1>1, <1>2, <1>5, <1>6, <2>1, TakenOwed, Zenon
  <2>3. QED
    BY <1>2, <2>2, Zenon
<1>10. ASSUME NEW m \in Counts, IsFiniteSet(Cells(m)), Cardinality(Cells(m)) = watch'.admitted,
              Owed(d, m[i], l, Since), \A j \in Nat : j # i => m[j] = n[j]
       PROVE  Ledger(column, m, l)'
  <2>1. d.lastRefill <= clock /\ m[i] \in Nat
    BY <1>1, <1>3, <1>5 DEF Punctual, Counts, d
  <2>2. m[i] * Cost <= l * (Window + clock - Since)
    BY <1>1, <1>2, <1>6, <1>9, <1>10, <2>1, OwedBounded
  <2>3. \A j \in Nat : /\ j \notin 1..watch'.buckets => m[j] = 0
                       /\ m[j] * Cost <= l * (Window + clock - Since)
    BY <1>5, <1>7, <1>10, <2>2 DEF Ledger
  <2>4. ASSUME NEW c \in InPlay', c # b
        PROVE  column[c] \in Nat /\ column[c] # i /\ m[column[c]] = n[column[c]]
    <3>1. c \in InPlay /\ column[c] # i /\ column[c] \in Nat
      BY <1>4, <2>4 DEF Ledger, Columns, i
    <3>2. QED
      BY <1>10, <3>1
  <2>5. ASSUME NEW c \in InPlay', c # Nil PROVE Owed(heap'[c], m[column[c]], l, Since)
    <3>1. CASE c = b
      BY <1>10, <3>1 DEF d, i
    <3>2. CASE c # b
      <4>1. heap'[c] = heap[c] /\ c \in InPlay \ {Nil}
        BY <1>2, <1>4, <2>5, <3>2
      <4>2. QED
        BY <2>4, <3>2, <4>1 DEF Ledger
    <3>3. QED
      BY <3>1, <3>2
  <2>6. entry' = Nil => m[column[Nil]] = 0
    <3>1. entry' \in InPlay'
      BY DEF InPlay
    <3>2. QED
      BY <1>1, <1>3, <2>4, <3>1 DEF Ledger
  <2>7. /\ \A c \in InPlay' : column[c] \in 1..watch'.buckets
        /\ \A c, e \in InPlay' : column[c] = column[e] => c = e
    BY <1>4, <1>7 DEF Ledger
  <2>8. QED
    BY <1>3, <1>6, <1>10, <2>3, <2>5, <2>6, <2>7 DEF Ledger
<1>11. /\ d.granted \in Nat /\ heap[b].granted \in Nat
       /\ IsFiniteSet(Cells(n)) /\ Cardinality(Cells(n)) = watch.admitted
  BY <1>2 DEF BucketRecords, Ledger
<1>12. CASE d.granted = heap[b].granted /\ Owed(d, n[i], l, Since)
  <2>1. ~(d.granted > heap[b].granted)
    BY <1>11, <1>12
  <2>2. watch'.admitted = watch.admitted
    BY <1>7, <1>8, <2>1
  <2>3. Ledger(column, n, l)'
    BY <1>10, <1>11, <1>12, <2>2
  <2>4. QED
    BY <2>3
<1>13. CASE d.granted = heap[b].granted + 1 /\ Owed(d, n[i] + 1, l, Since)
  <2>1. d.granted > heap[b].granted
    BY <1>11, <1>13
  <2>2. watch'.admitted = watch.admitted + 1
    BY <1>7, <1>8, <2>1
  <2>3. PICK m \in Counts : m = [n EXCEPT ![i] = @ + 1]
    BY <1>5, <1>11, CellAdded
  <2>4. IsFiniteSet(Cells(m)) /\ Cardinality(Cells(m)) = watch'.admitted
    BY <1>5, <1>11, <2>2, <2>3, CellAdded
  <2>5. m[i] = n[i] + 1 /\ \A j \in Nat : j # i => m[j] = n[j]
    BY <1>5, <2>3 DEF Counts
  <2>6. Ledger(column, m, l)'
    BY <1>10, <1>13, <2>4, <2>5
  <2>7. QED
    BY <2>6
<1>14. QED
  BY <1>9, <1>12, <1>13

\* The observer opens an empty ledger, with a column for every bucket in play.
LEMMA ObserveStep ==
  ASSUME NEW l \in Limits, TypeOK, watch \in Watches, NoneOverfull(l), Observe
  PROVE  RateInv(l)'
<1> DEFINE k == 1 + Cardinality(Orphans)
<1>1. IsFiniteSet(Orphans) /\ Cardinality(Orphans) \in Nat
  <2> DEFINE f == [r \in Requests |-> call[r].bucket]
             used == {call[r].bucket : r \in Requests}
  <2>1. f \in Surjection(Requests, used)
    BY DEF Surjection
  <2> HIDE DEF f
  <2>2. IsFiniteSet(used)
    BY <2>1, FS_Surjection
  <2>3. Orphans \in SUBSET used
    BY DEF Orphans, Referenced
  <2> HIDE DEF used
  <2>4. IsFiniteSet(Orphans)
    BY <2>2, <2>3, FS_Subset
  <2>5. QED
    BY <2>4, FS_CardinalityType
<1>2. entry \notin Orphans /\ InPlay = Orphans \cup {entry} /\ InPlay \subseteq Buckets \cup {Nil}
  BY DEF Orphans, InPlay, TypeOK
<1>3. IsFiniteSet(InPlay) /\ Cardinality(InPlay) = k /\ k \in Nat
  <2>1. /\ IsFiniteSet(Orphans \cup {entry})
        /\ Cardinality(Orphans \cup {entry}) = Cardinality(Orphans) + 1
    BY <1>1, <1>2, FS_AddElement
  <2>2. QED
    BY <1>1, <1>2, <2>1
<1>4. /\ watch' = [on |-> TRUE, since |-> clock, admitted |-> 0, buckets |-> k]
      /\ UNCHANGED <<clock, heap, entry, call>>
  BY DEF Observe, vars
<1> HIDE DEF k
<1>5. clock \in Nat /\ InPlay' = InPlay
  BY <1>4 DEF TypeOK, Times, InPlay, Orphans, Referenced
<1>6. /\ watch' \in Watches /\ watch'.on /\ watch'.since = clock
      /\ watch'.admitted = 0 /\ watch'.buckets = k
  BY <1>3, <1>4, <1>5 DEF Watches
<1>7. PICK g \in Bijection(InPlay, 1..k) : TRUE
  <2>1. Bijection(1..k, InPlay) # {}
    BY <1>3, FS_CardinalityType DEF ExistsBijection
  <2>2. Bijection(InPlay, 1..k) # {}
    BY <2>1, Fun_ExistsBijSymmetric DEF ExistsBijection
  <2>3. QED
    BY <2>2
<1>8. g \in [InPlay -> 1..k] /\ \A b, c \in InPlay : g[b] = g[c] => b = c
  BY <1>7 DEF Bijection, Injection, IsInjective
<1>9. PICK column \in Columns :
        column = [b \in Buckets \cup {Nil} |-> IF b \in InPlay THEN g[b] ELSE 0]
  <2> DEFINE f == [b \in Buckets \cup {Nil} |-> IF b \in InPlay THEN g[b] ELSE 0]
  <2>1. \A b \in InPlay : g[b] \in Nat
    BY <1>3, <1>8
  <2>2. f \in Columns
    BY <2>1 DEF Columns
  <2> HIDE DEF f
  <2>3. QED
    BY <2>2 DEF f
<1>10. \A b \in InPlay : column[b] = g[b]
  BY <1>2, <1>9
<1>11. PICK n \in Counts : n = [i \in Nat |-> 0]
  BY DEF Counts
<1>12. \A i \in Nat : n[i] = 0 /\ 0 * Cost = 0
  BY <1>11 DEF Cost
<1>13. Cells(n) = {}
  BY <1>12 DEF Cells
<1>14. IsFiniteSet(Cells(n)) /\ Cardinality(Cells(n)) = 0
  BY <1>13, FS_EmptySet
<1>15. Since' \in Int /\ Since' = clock - MaxDelay
  BY <1>5, <1>6 DEF Since
<1>16. 0 <= l * (Window + clock - Since')
  <2>1. Window + clock - Since' \in Nat
    BY <1>5, <1>15
  <2>2. QED
    BY <2>1, ProductNat
<1>17. ASSUME NEW b \in InPlay \ {Nil} PROVE Owed(heap[b], 0, l, Since')
  <2>1. b \in Buckets /\ heap[b] \in BucketRecords
    BY <1>2 DEF TypeOK
  <2>2. heap[b].tokens \in Nat /\ heap[b].lastRefill \in Int /\ heap[b].tokens <= l * Window
    BY <2>1 DEF BucketRecords, Times, NoneOverfull
  <2>3. l * Window \in Nat /\ 0 * Cost = 0
    BY ProductNat DEF Cost
  <2>4. CASE heap[b].lastRefill >= Since'
    <3>1. heap[b].lastRefill - Since' \in Nat
      BY <1>15, <2>2, <2>4
    <3>2. l * (heap[b].lastRefill - Since') \in Nat
      BY <3>1, ProductNat
    <3>3. QED
      BY <2>2, <2>3, <2>4, <3>2 DEF Owed
  <2>5. CASE ~(heap[b].lastRefill >= Since')
    BY <2>5 DEF Owed
  <2>6. QED
    BY <2>4, <2>5
<1>18. Ledger(column, n, l)'
  <2>1. \A b \in InPlay' : column[b] \in 1..k
    BY <1>5, <1>8, <1>10
  <2>2. \A b, c \in InPlay' : column[b] = column[c] => b = c
    BY <1>5, <1>8, <1>10
  <2>3. \A b \in InPlay' \ {Nil} : Owed(heap'[b], n[column[b]], l, Since')
    BY <1>2, <1>4, <1>5, <1>12, <1>17 DEF Columns
  <2>4. entry' = Nil => n[column[Nil]] = 0
    BY <1>12 DEF Columns
  <2>5. \A i \in Nat : n[i] = 0 /\ n[i] * Cost <= l * (Window + clock' - Since')
    BY <1>4, <1>12, <1>16
  <2>6. QED
    BY <1>6, <1>14, <2>1, <2>2, <2>3, <2>4, <2>5 DEF Ledger
<1>19. watch'.since <= clock' /\ NoneOverfull(l)'
  BY <1>4, <1>5, <1>6 DEF NoneOverfull
<1>20. \E c \in Columns, m \in Counts : Ledger(c, m, l)'
  BY <1>18
<1>21. QED
  BY <1>6, <1>19, <1>20 DEF RateInv

\* No bucket holds more than the largest limit allows.
LEMMA OverfullStep ==
  ASSUME NEW l \in Limits, \A m \in Limits : m <= l, TypeOK, NoneOverfull(l), Next
  PROVE  NoneOverfull(l)'
<1> SUFFICES ASSUME NEW b \in Buckets PROVE heap'[b].tokens <= l * Window
  BY DEF NoneOverfull
<1>1. heap[b] \in BucketRecords /\ heap[b].tokens \in Nat /\ heap[b].tokens <= l * Window
  BY DEF TypeOK, BucketRecords, NoneOverfull
<1>2. CASE heap' = heap
  BY <1>1, <1>2
<1>3. ASSUME NEW r \in Requests, LoadOrStore(r) \/ Take(r)
      PROVE  heap'[b].tokens <= l * Window
  <2> DEFINE a == call[r]
             c == refill(heap[b], a.limit, a.now)
             d == Taken(heap[b], a.limit, a.now)
  <2>1. a.limit \in Limits /\ a.limit \in Nat /\ a.limit <= l /\ l \in Nat /\ a.now \in Times
    BY <1>3 DEF LoadOrStore, Take, TypeOK
  <2>2. heap'[b] \in {heap[b], NewBucket(a.limit, a.now), d}
    BY <1>3 DEF LoadOrStore, Take, TypeOK
  <2> HIDE DEF a
  <2>3. a.limit * Window <= l * Window /\ a.limit * Window \in Nat /\ l * Window \in Nat
    BY <2>1, ProductMono, ProductNat
  <2>4. NewBucket(a.limit, a.now).tokens = a.limit * Window
    BY <2>1, NewBucketFacts
  <2>5. c \in BucketRecords /\ (c.tokens = heap[b].tokens \/ c.tokens <= a.limit * Window)
    BY <1>1, <2>1, RefillFacts
  <2>6. d \in BucketRecords /\ (d.tokens = c.tokens \/ d.tokens = c.tokens - Cost)
    BY <1>1, <2>1, TakenFacts
  <2> HIDE DEF c, d
  <2>7. c.tokens \in Nat /\ d.tokens \in Nat /\ Cost \in Nat
    BY <2>5, <2>6 DEF BucketRecords, Cost
  <2>8. d.tokens <= l * Window
    BY <1>1, <2>3, <2>5, <2>6, <2>7
  <2>9. QED
    BY <1>1, <2>2, <2>3, <2>4, <2>8
<1>4. QED
  BY <1>2, <1>3 DEF Next, ReadClock, StartSweep, Inspect, Delete, Reconfigure, Tick

\* Every step of the limiter that the observer watches keeps the ledger.
LEMMA WatchedStep ==
  ASSUME NEW l \in Limits, \A m \in Limits : m <= l, TypeOK, TypeOK', Punctual, Punctual',
         RateInv(l), Next, Count
  PROVE  RateInv(l)'
<1>1. /\ watch \in Watches /\ watch.since <= clock
      /\ watch' \in Watches /\ watch'.on = watch.on /\ watch'.since = watch.since
      /\ clock \in Nat /\ clock' \in Nat /\ clock <= clock' /\ watch.since \in Nat
  <2>1. watch \in Watches /\ watch.since <= clock
    BY DEF RateInv
  <2>2. watch' \in Watches /\ watch'.on = watch.on /\ watch'.since = watch.since
    BY <2>1, CountFacts, Zenon
  <2>3. clock \in Nat /\ clock' \in Nat /\ watch.since \in Nat
    BY <2>1 DEF TypeOK, Times, Watches
  <2>4. clock' = clock \/ clock' = clock + 1
    BY DEF Next, ReadClock, LoadOrStore, Take, StartSweep, Inspect, Delete, Reconfigure, Tick
  <2>5. QED
    BY <2>1, <2>2, <2>3, <2>4
<1>2. NoneOverfull(l)'
  BY OverfullStep DEF RateInv
<1>3. watch'.since <= clock'
  BY <1>1
<1>4. CASE ~watch.on
  <2>1. watch' = watch
    BY <1>1, <1>4, CountFacts, Zenon
  <2>2. ~watch'.on /\ watch'.admitted = 0
    BY <1>4, <2>1 DEF RateInv
  <2>3. QED
    BY <1>1, <1>2, <1>3, <2>2 DEF RateInv
<1>5. CASE watch.on
  <2>1. PICK column \in Columns, n \in Counts : Ledger(column, n, l)
    BY <1>5 DEF RateInv
  <2>2. SUFFICES \E c \in Columns, m \in Counts : Ledger(c, m, l)'
    BY <1>1, <1>2, <1>3, <1>5 DEF RateInv
  <2>3. /\ watch'.admitted = IF \E r \in Requests : Admitted(r)
                             THEN watch.admitted + 1 ELSE watch.admitted
        /\ watch'.buckets = IF entry # Nil /\ entry' = Nil
                            THEN watch.buckets + 1 ELSE watch.buckets
    BY <1>1, <1>5, CountFacts
  <2>4. ASSUME NEW r \in Requests, Take(r) PROVE \E m \in Counts : Ledger(column, m, l)'
    BY <1>1, <1>5, <2>1, <2>4, TakeStep
  <2>5. ASSUME \A q \in Requests : call[q].at = "lock" => call'[q].at = "lock"
        PROVE  /\ watch'.admitted = watch.admitted
               /\ entry' # Nil \/ entry = Nil => watch' = watch
    <3>1. watch'.admitted = watch.admitted
      BY <2>3, <2>5, NobodyAdmitted
    <3>2. entry' # Nil \/ entry = Nil => watch'.buckets = watch.buckets
      BY <2>3
    <3>3. QED
      BY <1>1, <3>1, <3>2 DEF Watches
  <2>6. ASSUME NEW r \in Requests, LoadOrStore(r), entry = Nil
        PROVE  \E c \in Columns : Ledger(c, n, l)'
    <3>1. entry' # Nil /\ \A q \in Requests : call[q].at = "lock" => call'[q].at = "lock"
      BY <2>6 DEF LoadOrStore, Loaded, TypeOK
    <3>2. watch' = watch
      BY <2>5, <3>1
    <3>3. QED
      BY <1>1, <2>1, <2>6, <3>2, StoreStep
  <2>7. CASE Delete /\ entry # Nil
    <3>1. entry' = Nil /\ UNCHANGED <<clock, heap, call>>
      BY <2>7 DEF Delete
    <3>2. watch'.admitted = watch.admitted /\ watch'.buckets = watch.buckets + 1
      BY <2>3, <2>5, <2>7, <3>1
    <3>3. QED
      BY <1>1, <2>1, <2>7, <3>1, <3>2, EvictStep
  <2>8. ASSUME /\ heap' = heap /\ entry' = entry
               /\ \A q \in Requests : /\ call[q].at = "lock" => call'[q].at = "lock"
                                      /\ call'[q].bucket \in {call[q].bucket, Nil, entry}
        PROVE  Ledger(column, n, l)'
    <3>1. watch' = watch
      BY <2>5, <2>8
    <3>2. InPlay' \subseteq InPlay
      BY <2>8 DEF InPlay, Orphans, Referenced
    <3>3. QED
      BY <1>1, <2>1, <2>8, <3>1, <3>2, QuietStep
  <2>9. ASSUME NEW r \in Requests, LoadOrStore(r), entry # Nil PROVE Ledger(column, n, l)'
    <3>1. heap' = heap /\ entry' = entry /\ call' = [call EXCEPT ![r] = Loaded(call[r], entry)]
      BY <2>9 DEF LoadOrStore
    <3>2. \A q \in Requests : /\ call[q].at = "lock" => call'[q].at = "lock"
                              /\ call'[q].bucket \in {call[q].bucket, Nil, entry}
      BY <3>1 DEF Loaded, TypeOK
    <3>3. QED
      BY <2>8, <3>1, <3>2
  <2>10. ASSUME NEW r \in Requests, ReadClock(r) PROVE Ledger(column, n, l)'
    <3>1. heap' = heap /\ entry' = entry
      BY <2>10 DEF ReadClock
    <3>2. \A q \in Requests : /\ call[q].at = "lock" => call'[q].at = "lock"
                              /\ call'[q].bucket \in {call[q].bucket, Nil, entry}
      BY <2>10 DEF ReadClock, TypeOK
    <3>3. QED
      BY <2>8, <3>1, <3>2
  <2>11. CASE Tick \/ Reconfigure \/ StartSweep \/ Inspect \/ (Delete /\ entry = Nil)
    <3>1. heap' = heap /\ entry' = entry /\ call' = call
      BY <2>11 DEF Tick, Reconfigure, StartSweep, Inspect, Delete
    <3>2. Ledger(column, n, l)'
      BY <2>8, <3>1
    <3>3. QED
      BY <3>2
  <2>12. QED
    BY <2>4, <2>6, <2>7, <2>9, <2>10, <2>11 DEF Next
<1>6. QED
  BY <1>4, <1>5

\* The limiter under observation is the limiter.
LEMMA Observed == WSpec => Spec
<1>1. WInit => Init
  BY DEF WInit
<1>2. [WNext]_wvars => [Next]_vars
  BY DEF WNext, Observe, wvars
<1>3. QED
  BY <1>1, <1>2, PTL DEF WSpec, Spec

\* "Tokens refill at a steady rate of limit/window and each request consumes
\* one token", from every moment on and whichever buckets the key has had: each
\* bucket in play admits one fill and the time since, and only an eviction
\* brings another bucket into play.
THEOREM RateKept == WSpec => []RateBound
<1>1. WInit => RateInvariant
  <2> SUFFICES ASSUME WInit, NEW l \in Limits, \A m \in Limits : m <= l PROVE RateInv(l)
    BY DEF RateInvariant
  <2>1. watch = [on |-> FALSE, since |-> 0, admitted |-> 0, buckets |-> 0] /\ clock = 0
    BY DEF WInit, Init
  <2>2. watch \in Watches /\ ~watch.on /\ watch.admitted = 0 /\ watch.since <= clock
    BY <2>1 DEF Watches
  <2>3. NoneOverfull(l)
    <3> SUFFICES ASSUME NEW b \in Buckets PROVE heap[b].tokens <= l * Window
      BY DEF NoneOverfull
    <3>1. limit \in Limits /\ limit <= l /\ heap[b] = NewBucket(limit, 0) /\ 0 \in Times
      BY DEF WInit, Init, Times
    <3>2. heap[b].tokens = limit * Window
      BY <3>1, NewBucketFacts
    <3>3. QED
      BY <3>1, <3>2, ProductMono
  <2>4. QED
    BY <2>2, <2>3 DEF RateInv
<1>2. TypeOK /\ TypeOK' /\ Punctual /\ Punctual' /\ RateInvariant /\ [WNext]_wvars
        => RateInvariant'
  <2> SUFFICES ASSUME TypeOK, TypeOK', Punctual, Punctual', RateInvariant, [WNext]_wvars,
                      NEW l \in Limits, \A m \in Limits : m <= l
               PROVE  RateInv(l)'
    BY DEF RateInvariant
  <2> RateInv(l)
    BY DEF RateInvariant
  <2>1. CASE Observe
    BY <2>1, ObserveStep DEF RateInv
  <2>2. CASE Next /\ Count
    BY <2>2, WatchedStep
  <2>3. CASE UNCHANGED wvars
    <3>1. UNCHANGED <<clock, heap, entry, call, watch>>
      BY <2>3 DEF wvars, vars
    <3>2. Since' = Since /\ InPlay' = InPlay
      BY <3>1 DEF Since, InPlay, Orphans, Referenced
    <3>3. \A column \in Columns, n \in Counts : Ledger(column, n, l) => Ledger(column, n, l)'
      BY <3>1, <3>2 DEF Ledger
    <3>4. NoneOverfull(l)'
      BY <3>1 DEF RateInv, NoneOverfull
    <3>5. watch.on => \E column \in Columns, n \in Counts : Ledger(column, n, l)'
      BY <3>3 DEF RateInv
    <3>6. QED
      BY <3>1, <3>4, <3>5 DEF RateInv
  <2>4. QED
    BY <2>1, <2>2, <2>3 DEF WNext
<1>3. TypeOK /\ RateInvariant => RateBound
  BY RateBounded DEF RateInvariant, RateBound
<1>4. QED
  BY <1>1, <1>2, <1>3, Observed, TypeCorrect, PunctualInvariant, PTL DEF WSpec

=============================================================================
