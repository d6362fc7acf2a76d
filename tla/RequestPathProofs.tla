------------------------- MODULE RequestPathProofs -------------------------
(***************************************************************************)
(* Proofs about RequestPath: whatever the configuration that passes        *)
(* validation, whatever the request and whatever the upstream answers, a   *)
(* request is served by the first route that declares it, goes through the *)
(* layers that route lists, in order, with credentials that a provider     *)
(* vouches for and at the expense of its client, reaches the upstream as   *)
(* it came but for what is configured, and comes out with one answer, the  *)
(* reply where nothing rewrites it, counted as it was sent and readable by *)
(* the origins that are allowed.                                           *)
(***************************************************************************)
EXTENDS RequestPath, FiniteSetTheorems, FunctionTheorems, SequenceTheorems,
        WellFoundedInduction, TLAPS

(***************************************************************************)
(* Lists.                                                                  *)
(***************************************************************************)

\* A list is a sequence of whatever is in it.
LEMMA ListSeq ==
  ASSUME NEW s, IsList(s), NEW e
  PROVE  s \in Seq(Range(s) \cup {e}) /\ Len(s) \in Nat /\ DOMAIN s = 1..Len(s)
<1>1. Len(s) \in Nat /\ s = [i \in 1..Len(s) |-> s[i]]
  BY DEF IsList
<1>2. DOMAIN s = 1..Len(s)
  BY <1>1
<1>3. s \in [1..Len(s) -> Range(s) \cup {e}]
  BY <1>1, <1>2 DEF Range
<1>4. QED
  BY <1>1, <1>2, <1>3

\* A sequence is a list.
LEMMA SeqList == ASSUME NEW S, NEW s \in Seq(S) PROVE IsList(s)
  BY DEF IsList

\* Appending.
LEMMA ListAppend ==
  ASSUME NEW s, IsList(s), NEW e
  PROVE  /\ IsList(Append(s, e)) /\ Len(Append(s, e)) = Len(s) + 1
         /\ \A i \in 1..Len(s) : Append(s, e)[i] = s[i]
         /\ Append(s, e)[Len(s) + 1] = e
<1> DEFINE S == Range(s) \cup {e}
<1>1. s \in Seq(S) /\ e \in S
  BY ListSeq
<1> HIDE DEF S
<1>2. /\ Append(s, e) \in Seq(S) /\ Len(Append(s, e)) = Len(s) + 1
      /\ \A i \in 1..Len(s) : Append(s, e)[i] = s[i]
      /\ Append(s, e)[Len(s) + 1] = e
  BY <1>1, AppendProperties
<1>3. QED
  BY <1>2, SeqList

\* Taking the last one away.
LEMMA ListFront ==
  ASSUME NEW s, IsList(s), Len(s) > 0
  PROVE  /\ IsList(Front(s)) /\ Len(Front(s)) = Len(s) - 1
         /\ \A i \in 1..Len(s) - 1 : Front(s)[i] = s[i]
         /\ Last(s) = s[Len(s)]
<1> DEFINE S == Range(s) \cup {0}
<1>1. s \in Seq(S) /\ Len(s) \in Nat
  BY ListSeq
<1> HIDE DEF S
<1>2. /\ Front(s) \in Seq(S) /\ Len(Front(s)) = Len(s) - 1
      /\ \A i \in 1..Len(s) - 1 : Front(s)[i] = s[i]
  <2> DEFINE n == Len(s) - 1
  <2>0. n \in Nat /\ n \in Int /\ 1 \in Int /\ 1..n \subseteq 1..Len(s)
    BY <1>1
  <2>1. \A i \in 1..n : s[i] \in S
    <3> HIDE DEF n
    <3>1. \A i \in 1..Len(s) : s[i] \in S
      BY <1>1, LenProperties
    <3>2. QED
      BY <2>0, <3>1
  <2> HIDE DEF n
  <2>2. SubSeq(s, 1, n) \in Seq(S)
    BY <2>0, <2>1, SubSeqProperties
  <2>3. Len(SubSeq(s, 1, n)) = n
    BY <2>0
  <2>4. \A i \in 1..n : SubSeq(s, 1, n)[i] = s[i]
    BY <2>0
  <2>5. QED
    BY <2>2, <2>3, <2>4 DEF Front, n
<1>4. QED
  BY <1>2, SeqList DEF Last

\* Taking the first one away.
LEMMA ListTail ==
  ASSUME NEW s, IsList(s), Len(s) > 0
  PROVE  /\ IsList(Tail(s)) /\ Len(Tail(s)) = Len(s) - 1
         /\ \A i \in 1..Len(s) - 1 : Tail(s)[i] = s[i + 1]
         /\ Head(s) = s[1]
<1> DEFINE S == Range(s) \cup {0}
<1>1. s \in Seq(S) /\ Len(s) \in Nat
  BY ListSeq
<1> HIDE DEF S
<1>2. s # <<>>
  BY <1>1, EmptySeq
<1>3. /\ Tail(s) \in Seq(S) /\ Len(Tail(s)) = Len(s) - 1
      /\ \A i \in 1..Len(Tail(s)) : Tail(s)[i] = s[i + 1]
      /\ Head(s) = s[1]
  BY <1>1, <1>2, HeadTailProperties
<1>4. QED
  BY <1>3, SeqList

\* One list after the other.
LEMMA ListConcat ==
  ASSUME NEW s, IsList(s), NEW t, IsList(t)
  PROVE  /\ IsList(s \o t) /\ Len(s \o t) = Len(s) + Len(t)
         /\ \A i \in 1..Len(s) : (s \o t)[i] = s[i]
         /\ \A i \in 1..Len(t) : (s \o t)[Len(s) + i] = t[i]
<1> DEFINE S == (Range(s) \cup Range(t)) \cup {0}
<1>1. s \in Seq(Range(s) \cup {0}) /\ t \in Seq(Range(t) \cup {0})
  BY ListSeq
<1>2. s \in Seq(S) /\ t \in Seq(S)
  <2>1. Range(s) \cup {0} \subseteq S /\ Range(t) \cup {0} \subseteq S
    OBVIOUS
  <2> HIDE DEF S
  <2>2. QED
    BY <1>1, <2>1, SeqMonotonic
<1> HIDE DEF S
<1>3. s \o t \in Seq(S) /\ Len(s \o t) = Len(s) + Len(t) /\ Len(s) \in Nat /\ Len(t) \in Nat
  BY <1>2
<1>4. \A i \in 1..Len(s) : (s \o t)[i] = s[i]
  BY <1>2, <1>3
<1>5. \A i \in 1..Len(t) : (s \o t)[Len(s) + i] = t[i]
  BY <1>2, <1>3
<1>6. QED
  BY <1>3, <1>4, <1>5, SeqList

\* u is s and then t.
Joined(u, s, t) ==
  /\ IsList(u) /\ Len(u) = Len(s) + Len(t)
  /\ \A i \in 1..Len(s) : u[i] = s[i]
  /\ \A i \in 1..Len(t) : u[Len(s) + i] = t[i]

\* The same in one word.
LEMMA JoinFacts ==
  ASSUME NEW s, IsList(s), NEW t, IsList(t), NEW u, u = s \o t
  PROVE  Joined(u, s, t)
<1>1. IsList(u) /\ Len(u) = Len(s) + Len(t)
  BY ListConcat
<1>2. \A i \in 1..Len(s) : u[i] = s[i]
  BY ListConcat
<1>3. \A i \in 1..Len(t) : u[Len(s) + i] = t[i]
  BY ListConcat
<1>4. QED
  BY <1>1, <1>2, <1>3 DEF Joined

\* A set of places has a first one.
LEMMA FirstPlace ==
  ASSUME NEW S \in SUBSET Nat, S # {}
  PROVE  Min(S) \in S /\ \A x \in S : Min(S) <= x
<1>1. \E x \in S : \A y \in S : ~(<<y, x>> \in OpToRel(<, Nat))
  BY NatLessThanWellFounded, WFMin
<1>2. \A x, y \in Nat : y < x => <<y, x>> \in OpToRel(<, Nat)
  <2>1. \A x, y \in Nat : <<y, x>> \in Nat \X Nat /\ <<y, x>>[1] = y /\ <<y, x>>[2] = x
    OBVIOUS
  <2>2. QED
    BY <2>1, Zenon DEF OpToRel
<1>3. \E x \in S : \A y \in S : ~(y < x)
  BY <1>1, <1>2, Zenon
<1>4. \E x \in S : \A y \in S : x <= y
  BY <1>3
<1>5. QED
  BY <1>4 DEF Min

(***************************************************************************)
(* Sieves.                                                                 *)
(***************************************************************************)

Rank(keep, i) == Cardinality({j \in keep : j <= i})
Place(keep, n) == CHOOSE i \in keep : Rank(keep, i) = n

\* The places that are kept are numbered in order.
LEMMA RankFacts ==
  ASSUME NEW keep, NEW len \in Nat, keep \subseteq 1..len
  PROVE  /\ IsFiniteSet(keep) /\ Cardinality(keep) \in Nat
         /\ \A i \in keep : Rank(keep, i) \in 1..Cardinality(keep)
         /\ \A i, j \in keep : i < j => Rank(keep, i) < Rank(keep, j)
<1>1. IsFiniteSet(keep) /\ Cardinality(keep) \in Nat /\ keep \subseteq Nat
  <2>1. IsFiniteSet(1..len)
    BY FS_Interval
  <2>2. IsFiniteSet(keep)
    BY <2>1, FS_Subset
  <2>3. QED
    BY <2>2, FS_CardinalityType
<1> DEFINE below(i) == {j \in keep : j <= i}
<1>2. ASSUME NEW T, T \subseteq keep
      PROVE  IsFiniteSet(T) /\ Cardinality(T) \in Nat /\ Cardinality(T) <= Cardinality(keep)
  <2>1. T \in SUBSET keep
    BY <1>2
  <2>2. QED
    BY <1>1, <2>1, FS_Subset, FS_CardinalityType
<1>3. ASSUME NEW i \in keep PROVE Rank(keep, i) \in 1..Cardinality(keep)
  <2>1. below(i) \subseteq keep /\ i \in below(i)
    BY <1>1
  <2> HIDE DEF below
  <2>2. /\ Cardinality(below(i)) \in Nat /\ Cardinality(below(i)) <= Cardinality(keep)
        /\ Cardinality(below(i)) # 0
    BY <1>2, <2>1, FS_EmptySet
  <2>3. QED
    BY <1>1, <2>2 DEF Rank, below
<1>4. ASSUME NEW i \in keep, NEW j \in keep, i < j PROVE Rank(keep, i) < Rank(keep, j)
  <2>1. below(i) \in SUBSET below(j) /\ below(j) \subseteq keep /\ below(i) \subseteq keep
        /\ below(i) # below(j)
    <3> i \in Nat /\ j \in Nat
      BY <1>1
    <3>1. j \in below(j) /\ j \notin below(i)
      BY <1>4
    <3>2. below(i) \in SUBSET below(j)
      <4>1. \A k \in keep : k <= i => k <= j
        BY <1>1, <1>4
      <4>2. QED
        BY <4>1
    <3>3. QED
      BY <3>1, <3>2
  <2> HIDE DEF below
  <2>2. /\ IsFiniteSet(below(j)) /\ Cardinality(below(j)) \in Nat /\ Cardinality(below(i)) \in Nat
    BY <1>2, <2>1
  <2>3. Cardinality(below(i)) <= Cardinality(below(j)) /\ Cardinality(below(j)) # Cardinality(below(i))
    BY <2>1, <2>2, FS_Subset
  <2>4. QED
    BY <2>2, <2>3 DEF Rank, below
<1>5. QED
  BY <1>1, <1>3, <1>4

\* Every number is some place's, and they come in order.
LEMMA PlaceFacts ==
  ASSUME NEW keep, NEW len \in Nat, keep \subseteq 1..len
  PROVE  /\ Cardinality(keep) \in Nat
         /\ \A n \in 1..Cardinality(keep) : Place(keep, n) \in keep
         /\ \A n, m \in 1..Cardinality(keep) : n < m => Place(keep, n) < Place(keep, m)
         /\ \A i \in keep : \E n \in 1..Cardinality(keep) : Place(keep, n) = i
<1> DEFINE c == Cardinality(keep)
           f == [i \in keep |-> Rank(keep, i)]
<1>1. /\ IsFiniteSet(keep) /\ c \in Nat
      /\ \A i \in keep : Rank(keep, i) \in 1..c
      /\ \A i, j \in keep : i < j => Rank(keep, i) < Rank(keep, j)
  BY RankFacts
<1>2. \A i \in keep : i \in Int
  OBVIOUS
<1>3. f \in [keep -> 1..c]
  BY <1>1
<1>4. \A i, j \in keep : Rank(keep, i) = Rank(keep, j) => i = j
  <2> SUFFICES ASSUME NEW i \in keep, NEW j \in keep, Rank(keep, i) = Rank(keep, j), i # j
               PROVE  FALSE
    OBVIOUS
  <2>1. i < j \/ j < i
    BY <1>2
  <2>2. Rank(keep, i) \in Int /\ Rank(keep, j) \in Int
    BY <1>1
  <2>3. QED
    BY <1>1, <2>1, <2>2
<1>5. f \in Injection(keep, 1..c)
  BY <1>3, <1>4 DEF Injection, IsInjective
<1>6. IsFiniteSet(1..c) /\ Cardinality(1..c) = c
  BY <1>1, FS_Interval
<1>7. f \in Surjection(keep, 1..c)
  <2> HIDE DEF f, c
  <2>1. Cardinality(keep) = Cardinality(1..c)
    BY <1>6 DEF c
  <2>2. QED
    BY <1>5, <1>6, <2>1, FS_Injection
<1>8. ASSUME NEW n \in 1..c PROVE Place(keep, n) \in keep /\ Rank(keep, Place(keep, n)) = n
  <2>1. \E i \in keep : Rank(keep, i) = n
    BY <1>7 DEF Surjection
  <2>2. QED
    BY <2>1 DEF Place
<1>9. ASSUME NEW n \in 1..c, NEW m \in 1..c, n < m PROVE Place(keep, n) < Place(keep, m)
  <2> DEFINE p == Place(keep, n)
             q == Place(keep, m)
  <2>1. p \in keep /\ q \in keep /\ Rank(keep, p) = n /\ Rank(keep, q) = m
    BY <1>8
  <2> HIDE DEF p, q
  <2>2. p \in Int /\ q \in Int /\ n \in Int /\ m \in Int
    BY <1>2, <2>1
  <2>3. CASE q < p
    BY <1>1, <1>9, <2>1, <2>2, <2>3
  <2>4. CASE p = q
    BY <1>9, <2>1, <2>2, <2>4
  <2>5. QED
    BY <2>2, <2>3, <2>4 DEF p, q
<1>10. ASSUME NEW i \in keep PROVE \E n \in 1..c : Place(keep, n) = i
  <2>1. Rank(keep, i) \in 1..c
    BY <1>1
  <2>2. QED
    BY <1>4, <1>8, <2>1
<1>11. QED
  BY <1>1, <1>8, <1>9, <1>10

\* What a sieve leaves.
LEMMA SieveFacts ==
  ASSUME NEW s, IsList(s), NEW keep, keep \subseteq DOMAIN s
  PROVE  /\ IsList(Sieve(s, keep)) /\ Len(Sieve(s, keep)) = Cardinality(keep)
         /\ \A n \in 1..Len(Sieve(s, keep)) : /\ Sieve(s, keep)[n] = s[Place(keep, n)]
                                              /\ Place(keep, n) \in keep
<1>1. DOMAIN s = 1..Len(s) /\ Len(s) \in Nat
  BY ListSeq
<1>2. Cardinality(keep) \in Nat /\ \A n \in 1..Cardinality(keep) : Place(keep, n) \in keep
  BY <1>1, PlaceFacts
<1>3. Sieve(s, keep) = [n \in 1..Cardinality(keep) |-> s[Place(keep, n)]]
  BY Zenon DEF Sieve, Place, Rank
<1>4. Sieve(s, keep) \in Seq({s[i] : i \in keep}) /\ Len(Sieve(s, keep)) = Cardinality(keep)
  BY <1>2, <1>3
<1>5. QED
  BY <1>2, <1>3, <1>4, SeqList

(***************************************************************************)
(* The layers of a request.                                                *)
(***************************************************************************)

\* The configuration, the request and the reply are a scenario's.
WellFormed ==
  /\ Valid(cfg)
  /\ IsList(cfg.middlewares) /\ IsList(cfg.routes)
  /\ \A i \in DOMAIN cfg.middlewares : ProvidersListed(cfg.middlewares[i].config)
  /\ \A i \in DOMAIN cfg.routes :
       LET own == cfg.routes[i].middlewares
       IN  IsList(own) /\ \A j \in DOMAIN own : ProvidersListed(own[j].config)
  /\ req = [field \in {"method", "host", "path", "remote", "headers", "body"} |-> req[field]]
  /\ reply.status \in Nat \ {0}

Outer == <<Layer("recovery"), Layer("request_id"), Layer("logging"), Layer("metrics")>>
Inner == RouteHandler(cfg, cfg.routes[Served])

\* The layers the request has gone through and will go through, as far as the
\* router has decided.
Path == IF ctx.route # 0 THEN Outer \o Inner ELSE Outer \o <<Layer("router")>>

\* The first entry that passes a test is an entry.
LEMMA FirstIn ==
  ASSUME NEW routes, IsList(routes), NEW r
  PROVE  firstMatch(routes, r) \in {0} \cup DOMAIN routes
<1> DEFINE I == {i \in 1..Len(routes) : Matches(routes[i], r)}
<1>1. DOMAIN routes = 1..Len(routes) /\ Len(routes) \in Nat
  BY ListSeq
<1>2. firstMatch(routes, r) = IF I # {} THEN Min(I) ELSE 0
  BY DEF firstMatch, SelectInSeq
<1>3. I \in SUBSET Nat /\ I \subseteq DOMAIN routes
  BY <1>1
<1> HIDE DEF I
<1>4. I # {} => Min(I) \in I
  BY <1>3, FirstPlace
<1>5. QED
  BY <1>2, <1>3, <1>4

\* Resolving keeps the list.
LEMMA ResolvedFacts ==
  ASSUME NEW refs, IsList(refs)
  PROVE  /\ IsList(ResolveMiddlewares(refs)) /\ Len(ResolveMiddlewares(refs)) = Len(refs)
         /\ DOMAIN ResolveMiddlewares(refs) = DOMAIN refs
         /\ \A i \in DOMAIN refs : /\ ResolveMiddlewares(refs)[i].name = refs[i].ref
                                   /\ ResolveMiddlewares(refs)[i].type = Definitions[refs[i].ref].type
<1> DEFINE mw(i) == [name |-> refs[i].ref, type |-> Definitions[refs[i].ref].type,
                     config |-> decodeTypedConfig(Definitions[refs[i].ref].type,
                                  mergeYAMLNodes(Definitions[refs[i].ref].config, refs[i].config))]
<1>1. Len(refs) \in Nat /\ DOMAIN refs = 1..Len(refs)
  BY ListSeq
<1>2. ResolveMiddlewares(refs) = [i \in 1..Len(refs) |-> mw(i)]
  BY <1>1, Zenon DEF ResolveMiddlewares
<1>3. \A i \in 1..Len(refs) : mw(i).name = refs[i].ref /\ mw(i).type = Definitions[refs[i].ref].type
  OBVIOUS
<1> HIDE DEF mw
<1>4. ResolveMiddlewares(refs) \in Seq({mw(i) : i \in 1..Len(refs)}) /\ Len(ResolveMiddlewares(refs)) = Len(refs)
  BY <1>1, <1>2
<1>5. QED
  BY <1>1, <1>2, <1>3, <1>4, SeqList

Globals == ResolveMiddlewares(cfg.middlewares)
Own == ResolveMiddlewares(cfg.routes[Served].middlewares)
Kept == {i \in DOMAIN cfg.middlewares : cfg.middlewares[i].ref \notin cfg.routes[Served].skip}

\* The chain of a route is what is left of the globals and then its own.
LEMMA ChainParts ==
  ASSUME WellFormed, Served # 0
  PROVE  /\ Served \in DOMAIN cfg.routes
         /\ IsList(Globals) /\ IsList(Own) /\ IsList(Sieve(Globals, Kept))
         /\ DOMAIN Globals = DOMAIN cfg.middlewares
         /\ Kept \subseteq DOMAIN Globals
         /\ Chain = Sieve(Globals, Kept) \o Own
         /\ IsList(Chain)
         /\ Len(Chain) = Len(Sieve(Globals, Kept)) + Len(Own)
<1>1. Served \in DOMAIN cfg.routes
  BY FirstIn DEF WellFormed, Served
<1>2. IsList(Globals) /\ DOMAIN Globals = DOMAIN cfg.middlewares
  BY ResolvedFacts DEF WellFormed, Globals
<1>3. IsList(Own)
  BY <1>1, ResolvedFacts DEF WellFormed, Own
<1>4. Kept \subseteq DOMAIN Globals
  BY <1>2 DEF Kept
<1>5. IsList(Sieve(Globals, Kept))
  BY <1>2, <1>4, SieveFacts
<1>6. Chain = Sieve(Globals, Kept) \o Own
  BY Zenon DEF Chain, Effective, filterSkipped, Globals, Kept, Own
<1>7. QED
  BY <1>1, <1>2, <1>3, <1>4, <1>5, <1>6, ListConcat

\* What validation has looked at.
LEMMA ChainFacts ==
  ASSUME WellFormed, Served # 0
  PROVE  /\ IsList(Chain)
         /\ \A i \in DOMAIN Chain : /\ Chain[i].type \in DOMAIN Zero
                                    /\ Chain[i].type = "auth" => ValidAuth(Chain[i].config)
         /\ CorsFirst(Chain)
<1> DEFINE left == Sieve(Globals, Kept)
           good(mw) == mw.type \in DOMAIN Zero /\ (mw.type = "auth" => ValidAuth(mw.config))
<1>1. /\ Served \in DOMAIN cfg.routes
      /\ IsList(Globals) /\ IsList(Own) /\ IsList(left)
      /\ DOMAIN Globals = DOMAIN cfg.middlewares
      /\ Kept \subseteq DOMAIN Globals
      /\ Chain = left \o Own
      /\ IsList(Chain)
      /\ Len(Chain) = Len(left) + Len(Own)
  BY ChainParts
<1>2. /\ Resolvable(cfg.middlewares) /\ validateResolvedMiddlewares(Globals, cfg)
      /\ Resolvable(cfg.routes[Served].middlewares) /\ validateResolvedMiddlewares(Own, cfg)
      /\ CorsFirst(Chain)
  BY <1>1, Zenon DEF WellFormed, Valid, Globals, Own, Chain
<1>3. ASSUME NEW refs, IsList(refs), Resolvable(refs),
             validateResolvedMiddlewares(ResolveMiddlewares(refs), cfg), NEW i \in DOMAIN refs
      PROVE  good(ResolveMiddlewares(refs)[i])
  <2>1. /\ DOMAIN ResolveMiddlewares(refs) = DOMAIN refs
        /\ ResolveMiddlewares(refs)[i].type = Definitions[refs[i].ref].type
    BY <1>3, ResolvedFacts
  <2>2. ResolveMiddlewares(refs)[i].type \in DOMAIN Zero
    BY <1>3, <2>1 DEF Resolvable
  <2>3. ResolveMiddlewares(refs)[i].type = "auth" => ValidAuth(ResolveMiddlewares(refs)[i].config)
    BY <1>3, <2>1 DEF validateResolvedMiddlewares
  <2>4. QED
    BY <2>2, <2>3
<1>4. \A i \in DOMAIN Globals : good(Globals[i])
  BY <1>1, <1>2, <1>3 DEF Globals, WellFormed
<1>5. \A i \in DOMAIN Own : good(Own[i])
  <2>1. DOMAIN Own = DOMAIN cfg.routes[Served].middlewares
    BY <1>1, ResolvedFacts DEF Own, WellFormed
  <2>2. QED
    BY <1>1, <1>2, <1>3, <2>1 DEF Own, WellFormed
<1> HIDE DEF good
<1>6. ASSUME NEW i \in DOMAIN Chain PROVE good(Chain[i])
  <2>1. /\ DOMAIN Chain = 1..Len(left) + Len(Own) /\ Len(left) \in Nat /\ Len(Own) \in Nat
        /\ DOMAIN Own = 1..Len(Own)
    BY <1>1, ListSeq
  <2>2. CASE i <= Len(left)
    <3>1. i \in 1..Len(left)
      BY <2>1, <2>2
    <3>2. Chain[i] = left[i]
      BY <1>1, <3>1, ListConcat
    <3>3. left[i] = Globals[Place(Kept, i)] /\ Place(Kept, i) \in Kept
      BY <1>1, <3>1, SieveFacts
    <3>4. QED
      BY <1>1, <1>4, <3>2, <3>3
  <2>3. CASE ~(i <= Len(left))
    <3> DEFINE j == i - Len(left)
    <3>1. j \in 1..Len(Own) /\ i = Len(left) + j
      BY <2>1, <2>3
    <3> HIDE DEF j
    <3>2. Chain[i] = Own[j]
      BY <1>1, <3>1, ListConcat
    <3>3. QED
      BY <1>5, <2>1, <3>1, <3>2
  <2>4. QED
    BY <2>2, <2>3
<1>7. QED
  BY <1>1, <1>2, <1>6 DEF good

Before == Guards(Chain)
Around == Transforms(Chain)

\* The layers of a route: guards, transforms and the proxy, all of the chain
\* but the proxy.
LEMMA InnerFacts ==
  ASSUME WellFormed, Served # 0
  PROVE  /\ IsList(Before) /\ IsList(Around) /\ IsList(Inner)
         /\ Len(Inner) = Len(Before) + Len(Around) + 1
         /\ \A i \in 1..Len(Before) : /\ Inner[i] = Before[i]
                                      /\ Before[i].type # "transform"
                                      /\ \E k \in DOMAIN Chain : Before[i] = Chain[k]
         /\ \A i \in 1..Len(Around) : /\ Inner[Len(Before) + i] = Around[i]
                                      /\ Around[i].type = "transform"
                                      /\ \E k \in DOMAIN Chain : Around[i] = Chain[k]
         /\ Inner[Len(Inner)] = Layer("proxy")
<1> DEFINE b == {i \in DOMAIN Chain : Chain[i].type # "transform"}
           t == {i \in DOMAIN Chain : Chain[i].type = "transform"}
           end == <<Layer("proxy")>>
<1>1. IsList(Chain)
  BY ChainFacts
<1>2. /\ IsList(Before)
      /\ \A i \in 1..Len(Before) : Before[i] = Chain[Place(b, i)] /\ Place(b, i) \in b
  <2>1. Before = Sieve(Chain, b) /\ b \subseteq DOMAIN Chain
    BY Zenon DEF Before, Guards
  <2> HIDE DEF b
  <2>2. QED
    BY <1>1, <2>1, SieveFacts
<1>3. /\ IsList(Around)
      /\ \A i \in 1..Len(Around) : Around[i] = Chain[Place(t, i)] /\ Place(t, i) \in t
  <2>1. Around = Sieve(Chain, t) /\ t \subseteq DOMAIN Chain
    BY Zenon DEF Around, Transforms
  <2> HIDE DEF t
  <2>2. QED
    BY <1>1, <2>1, SieveFacts
<1>4. Inner = Before \o (Around \o end)
  BY Zenon DEF Inner, RouteHandler, Wrap, Before, Around, Chain
<1>5. IsList(end) /\ Len(end) = 1 /\ end[1] = Layer("proxy")
  BY DEF IsList
<1>6. Len(Before) \in Nat /\ Len(Around) \in Nat
  BY <1>2, <1>3, ListSeq
<1>7. \A i \in b : i \in DOMAIN Chain /\ Chain[i].type # "transform"
  OBVIOUS
<1>8. \A i \in t : i \in DOMAIN Chain /\ Chain[i].type = "transform"
  OBVIOUS
<1> HIDE DEF b, t, end
<1>9. /\ IsList(Around \o end) /\ Len(Around \o end) = Len(Around) + 1
      /\ \A i \in 1..Len(Around) : (Around \o end)[i] = Around[i]
      /\ (Around \o end)[Len(Around) + 1] = Layer("proxy")
  <2>1. Joined(Around \o end, Around, end)
    BY <1>3, <1>5, JoinFacts, Zenon
  <2>2. QED
    BY <1>5, <2>1 DEF Joined
<1>10. /\ IsList(Inner) /\ Len(Inner) = Len(Before) + Len(Around \o end)
       /\ \A i \in 1..Len(Before) : Inner[i] = Before[i]
       /\ \A i \in 1..Len(Around \o end) : Inner[Len(Before) + i] = (Around \o end)[i]
  <2>1. Joined(Inner, Before, Around \o end)
    BY <1>2, <1>4, <1>9, JoinFacts, Zenon
  <2>2. QED
    BY <2>1 DEF Joined
<1>11. \A i \in 1..Len(Around) : Inner[Len(Before) + i] = Around[i]
  BY <1>6, <1>9, <1>10
<1>12. Len(Inner) = Len(Before) + Len(Around) + 1 /\ Inner[Len(Inner)] = Layer("proxy")
  <2>1. Len(Around) + 1 \in 1..Len(Around \o end)
    BY <1>6, <1>9
  <2>2. Inner[Len(Before) + (Len(Around) + 1)] = Layer("proxy")
    BY <1>9, <1>10, <2>1
  <2>3. QED
    BY <1>6, <1>9, <1>10, <2>2
<1>13. \A i \in 1..Len(Before) : /\ Before[i].type # "transform"
                                   /\ \E k \in DOMAIN Chain : Before[i] = Chain[k]
  BY <1>2, <1>7
<1>14. \A i \in 1..Len(Around) : /\ Around[i].type = "transform"
                                   /\ \E k \in DOMAIN Chain : Around[i] = Chain[k]
  BY <1>3, <1>8
<1>15. QED
  BY <1>2, <1>3, <1>10, <1>11, <1>12, <1>13, <1>14, Zenon

\* The types of the middlewares, and no other layer's.
LEMMA Types == DOMAIN Zero = {"cors", "rate_limit", "auth", "transform"}
  BY DEF Zero

\* The layers in order: the outer four, then the router alone, or the
\* middlewares of the route with its transforms last, and the proxy.
LEMMA PathFacts ==
  ASSUME WellFormed, ctx.route # 0 => ctx.route = Served
  PROVE  /\ IsList(Path) /\ Len(Path) \in Nat /\ Len(Path) >= 5
         /\ Path[1].type = "recovery" /\ Path[2].type = "request_id"
         /\ Path[3].type = "logging" /\ Path[4].type = "metrics"
         /\ ctx.route = 0 => Len(Path) = 5 /\ Path[5].type = "router"
         /\ ctx.route # 0 => /\ Len(Path) = 4 + Len(Inner)
                             /\ \A i \in 1..Len(Inner) : Path[4 + i] = Inner[i]
                             /\ Path[Len(Path)].type = "proxy"
         /\ \A n \in 5..Len(Path) - 1 : /\ Path[n].type \in DOMAIN Zero
                                        /\ \E k \in DOMAIN Chain : Path[n] = Chain[k]
         /\ \A n, m \in 5..Len(Path) - 1 :
              n < m /\ Path[n].type = "transform" => Path[m].type = "transform"
<1>1. IsList(Outer) /\ Len(Outer) = 4
  BY DEF Outer, IsList
<1>2. /\ Outer[1].type = "recovery" /\ Outer[2].type = "request_id"
      /\ Outer[3].type = "logging" /\ Outer[4].type = "metrics"
  BY DEF Outer, Layer
<1> DEFINE rest == IF ctx.route # 0 THEN Inner ELSE <<Layer("router")>>
<1>3. Path = Outer \o rest
  BY DEF Path
<1>4. IsList(rest) /\ Len(rest) \in Nat /\ Len(rest) >= 1
  <2>1. CASE ctx.route # 0
    <3>1. IsList(Inner) /\ Len(Inner) = Len(Before) + Len(Around) + 1 /\ IsList(Before) /\ IsList(Around)
      BY <2>1, InnerFacts
    <3>2. QED
      BY <2>1, <3>1, ListSeq
  <2>2. CASE ctx.route = 0
    BY <2>2 DEF IsList
  <2>3. QED
    BY <2>1, <2>2
<1>5. ctx.route = 0 => Len(rest) = 1 /\ rest[1].type = "router"
  BY DEF Layer
<1>6. ctx.route # 0 => rest = Inner
  OBVIOUS
<1> HIDE DEF rest
<1>7. /\ IsList(Path) /\ Len(Path) = 4 + Len(rest)
      /\ \A i \in 1..4 : Path[i] = Outer[i]
      /\ \A i \in 1..Len(rest) : Path[4 + i] = rest[i]
  <2>1. Joined(Path, Outer, rest)
    BY <1>1, <1>3, <1>4, JoinFacts, Zenon
  <2>2. QED
    BY <1>1, <2>1 DEF Joined
<1>8. Len(Path) \in Nat /\ Len(Path) >= 5
  BY <1>4, <1>7
<1>9. /\ Path[1].type = "recovery" /\ Path[2].type = "request_id"
      /\ Path[3].type = "logging" /\ Path[4].type = "metrics"
  BY <1>2, <1>7
<1>10. ctx.route = 0 => Len(Path) = 5 /\ Path[5].type = "router"
  <2> SUFFICES ASSUME ctx.route = 0 PROVE Len(Path) = 5 /\ Path[5].type = "router"
    OBVIOUS
  <2>1. Len(rest) = 1 /\ rest[1].type = "router"
    BY <1>5
  <2>2. Path[4 + 1] = rest[1]
    BY <1>7, <2>1
  <2>3. QED
    BY <1>7, <2>1, <2>2
<1>11. ASSUME ctx.route # 0
       PROVE  /\ Len(Path) = 4 + Len(Inner)
              /\ \A i \in 1..Len(Inner) : Path[4 + i] = Inner[i]
              /\ Path[Len(Path)].type = "proxy"
              /\ \A n \in 5..Len(Path) - 1 : /\ Path[n].type \in DOMAIN Zero
                                             /\ \E k \in DOMAIN Chain : Path[n] = Chain[k]
              /\ \A n, m \in 5..Len(Path) - 1 :
                   n < m /\ Path[n].type = "transform" => Path[m].type = "transform"
  <2>1. /\ IsList(Before) /\ IsList(Around) /\ IsList(Inner)
        /\ Len(Inner) = Len(Before) + Len(Around) + 1
        /\ \A i \in 1..Len(Before) : /\ Inner[i] = Before[i]
                                     /\ Before[i].type # "transform"
                                     /\ \E k \in DOMAIN Chain : Before[i] = Chain[k]
        /\ \A i \in 1..Len(Around) : /\ Inner[Len(Before) + i] = Around[i]
                                     /\ Around[i].type = "transform"
                                     /\ \E k \in DOMAIN Chain : Around[i] = Chain[k]
        /\ Inner[Len(Inner)] = Layer("proxy")
    BY <1>11, InnerFacts
  <2>2. Len(Before) \in Nat /\ Len(Around) \in Nat
    BY <2>1, ListSeq
  <2>3. /\ Len(Path) = 4 + Len(Inner)
        /\ \A i \in 1..Len(Inner) : Path[4 + i] = Inner[i]
    BY <1>6, <1>7, <1>11
  <2>4. Path[Len(Path)].type = "proxy"
    BY <2>1, <2>2, <2>3 DEF Layer
  <2>5. ASSUME NEW n \in 5..Len(Path) - 1
        PROVE  /\ n - 4 <= Len(Before) => Path[n].type # "transform"
               /\ ~(n - 4 <= Len(Before)) => Path[n].type = "transform"
               /\ \E k \in DOMAIN Chain : Path[n] = Chain[k]
    <3> DEFINE i == n - 4
    <3>1. i \in 1..Len(Inner) - 1 /\ n = 4 + i /\ i \in 1..Len(Inner)
      BY <2>1, <2>2, <2>3
    <3> HIDE DEF i
    <3>2. Path[n] = Inner[i]
      BY <2>3, <3>1
    <3>3. CASE i <= Len(Before)
      BY <2>1, <2>2, <3>1, <3>2, <3>3 DEF i
    <3>4. CASE ~(i <= Len(Before))
      <4> DEFINE j == i - Len(Before)
      <4>1. j \in 1..Len(Around) /\ i = Len(Before) + j
        BY <2>1, <2>2, <3>1, <3>4
      <4> HIDE DEF j
      <4>2. Path[n] = Around[j]
        BY <2>1, <3>2, <4>1
      <4>3. QED
        BY <2>1, <3>4, <4>1, <4>2 DEF i
    <3>5. QED
      BY <3>3, <3>4
  <2>6. \A n \in 5..Len(Path) - 1 : Path[n].type \in DOMAIN Zero
    BY <1>11, <2>5, ChainFacts
  <2>7. \A n, m \in 5..Len(Path) - 1 :
          n < m /\ Path[n].type = "transform" => Path[m].type = "transform"
    <3> SUFFICES ASSUME NEW n \in 5..Len(Path) - 1, NEW m \in 5..Len(Path) - 1,
                        n < m, Path[n].type = "transform"
                 PROVE  Path[m].type = "transform"
      OBVIOUS
    <3>1. ~(n - 4 <= Len(Before))
      BY <2>5
    <3>2. ~(m - 4 <= Len(Before))
      BY <2>2, <3>1
    <3>3. QED
      BY <2>5, <3>2
  <2>8. QED
    BY <2>3, <2>4, <2>5, <2>6, <2>7
<1>12. QED
  BY <1>7, <1>8, <1>9, <1>10, <1>11

\* Which layer is at a place of the path.
LEMMA LayerAt ==
  ASSUME WellFormed, ctx.route # 0 => ctx.route = Served, NEW n \in 1..Len(Path)
  PROVE  /\ Path[n].type = "recovery" <=> n = 1
         /\ Path[n].type = "request_id" <=> n = 2
         /\ Path[n].type = "logging" <=> n = 3
         /\ Path[n].type = "metrics" <=> n = 4
         /\ Path[n].type = "router" <=> n = 5 /\ ctx.route = 0
         /\ Path[n].type = "proxy" <=> n = Len(Path) /\ ctx.route # 0
         /\ Path[n].type \in DOMAIN Zero <=> n \in 5..Len(Path) - 1
         /\ Path[n].type \in DOMAIN Zero => ctx.route # 0
<1>1. /\ Len(Path) \in Nat /\ Len(Path) >= 5
      /\ Path[1].type = "recovery" /\ Path[2].type = "request_id"
      /\ Path[3].type = "logging" /\ Path[4].type = "metrics"
      /\ ctx.route = 0 => Len(Path) = 5 /\ Path[5].type = "router"
      /\ ctx.route # 0 => Path[Len(Path)].type = "proxy"
      /\ \A k \in 5..Len(Path) - 1 : Path[k].type \in DOMAIN Zero
  BY PathFacts
<1>2. n = 1 \/ n = 2 \/ n = 3 \/ n = 4 \/ (n = Len(Path) /\ n >= 5) \/ n \in 5..Len(Path) - 1
  BY <1>1
<1>3. CASE n \in {1, 2, 3, 4}
  BY <1>1, <1>3, Types
<1>4. CASE n = Len(Path) /\ n >= 5
  BY <1>1, <1>4, Types
<1>5. CASE n \in 5..Len(Path) - 1
  BY <1>1, <1>5, Types
<1>6. QED
  BY <1>2, <1>3, <1>4, <1>5

\* How many layers have been entered and not left.
Depth == Len(stack)

\* The layers entered are the first of the path, those to come are the rest of
\* it; the route is the one that serves the request; a panic has a layer to
\* unwind and a request that is done has none.
Shape ==
  /\ mode \in {"in", "out", "panic", "done"}
  /\ ctx.route # 0 => ctx.route = Served
  /\ IsList(stack) /\ Depth < Len(Path)
  /\ \A i \in 1..Depth : stack[i].layer = Path[i]
  /\ mode = "in" => /\ IsList(todo) /\ Len(todo) = Len(Path) - Depth
                    /\ \A i \in 1..Len(todo) : todo[i] = Path[Depth + i]
                    /\ ctx.route # 0 => Depth >= 4
  /\ mode = "panic" => Depth >= 1
  /\ mode = "done" => stack = <<>>

\* The path hangs on the configuration, the request and the route alone.
LEMMA PathStays ==
  ASSUME UNCHANGED given, ctx'.route = ctx.route
  PROVE  Path' = Path /\ Served' = Served /\ Seen' = Seen /\ Chain' = Chain /\ WellFormed' = WellFormed
<1>1. cfg' = cfg /\ req' = req /\ reply' = reply
  BY DEF given
<1>2. Seen' = Seen
  BY <1>1 DEF Seen
<1>3. Served' = Served
  BY <1>1, <1>2 DEF Served
<1>4. Path' = Path
  BY <1>1, <1>3 DEF Path, Inner
<1>5. Chain' = Chain
  BY <1>1, <1>3 DEF Chain
<1>6. WellFormed' = WellFormed
  BY <1>1 DEF WellFormed
<1>7. QED
  BY <1>2, <1>3, <1>4, <1>5, <1>6

\* Where the next layer and the last one are on the path.
LEMMA Position ==
  ASSUME WellFormed, Shape
  PROVE  /\ Depth \in Nat /\ Len(Path) \in Nat /\ Len(Path) >= 5
         /\ mode = "in" => /\ Head(todo) = Path[Depth + 1]
                           /\ Depth + 1 \in 1..Len(Path)
         /\ Depth > 0 => /\ Top.layer = Path[Depth]
                              /\ Depth \in 1..Len(Path)
<1>1. Depth \in Nat /\ Len(Path) \in Nat /\ Len(Path) >= 5
  BY PathFacts, ListSeq DEF Shape, Depth
<1>2. ASSUME mode = "in"
      PROVE  Head(todo) = Path[Depth + 1] /\ Depth + 1 \in 1..Len(Path)
  <2>1. /\ IsList(todo) /\ Len(todo) = Len(Path) - Depth /\ Depth < Len(Path)
        /\ \A i \in 1..Len(todo) : todo[i] = Path[Depth + i]
    BY <1>2 DEF Shape
  <2>2. Len(todo) \in Nat /\ Len(todo) > 0 /\ 1 \in 1..Len(todo)
    BY <1>1, <2>1
  <2>3. Head(todo) = todo[1]
    BY <2>1, <2>2, ListTail
  <2>4. QED
    BY <1>1, <2>1, <2>2, <2>3
<1>3. ASSUME Depth > 0
      PROVE  Top.layer = Path[Depth] /\ Depth \in 1..Len(Path)
  <2>1. Depth \in 1..Depth /\ Depth \in 1..Len(Path)
    BY <1>1, <1>3 DEF Shape
  <2>2. QED
    BY <2>1 DEF Shape, Top, Last, Depth
<1>4. QED
  BY <1>1, <1>2, <1>3

\* A layer that calls its inner handler.
LEMMA ShapeCall ==
  ASSUME WellFormed, Shape, UNCHANGED given, mode = "in",
         NEW c, Call(c), c.route = ctx.route, Head(todo).type \notin {"router", "proxy"}
  PROVE  Shape'
<1>1. ctx'.route = ctx.route /\ mode' = mode
  BY DEF Call
<1>2. Path' = Path /\ Served' = Served
  BY <1>1, PathStays
<1>3. /\ Depth \in Nat /\ Len(Path) \in Nat
      /\ Head(todo) = Path[Depth + 1] /\ Depth + 1 \in 1..Len(Path)
  BY Position
<1>4. Depth + 1 < Len(Path)
  <2>1. Path[Depth + 1].type # "proxy" /\ Path[Depth + 1].type # "router"
    BY <1>3
  <2>2. /\ Path[Depth + 1].type = "router" <=> Depth + 1 = 5 /\ ctx.route = 0
        /\ Path[Depth + 1].type = "proxy" <=> Depth + 1 = Len(Path) /\ ctx.route # 0
    BY <1>3, LayerAt DEF Shape
  <2>3. ctx.route = 0 => Len(Path) = 5
    BY PathFacts DEF Shape
  <2>4. Depth + 1 # Len(Path)
    BY <2>1, <2>2, <2>3
  <2>5. QED
    BY <1>3, <2>4
<1>5. /\ IsList(stack') /\ Depth' = Depth + 1
      /\ \A i \in 1..Depth : stack'[i] = stack[i]
      /\ stack'[Depth + 1] = [layer |-> Head(todo), ctx |-> ctx]
  BY ListAppend DEF Shape, Call, Depth
<1>6. \A i \in 1..Depth' : stack'[i].layer = Path[i]
  <2> SUFFICES ASSUME NEW i \in 1..Depth' PROVE stack'[i].layer = Path[i]
    OBVIOUS
  <2>1. CASE i = Depth + 1
    BY <1>3, <1>5, <2>1
  <2>2. CASE i \in 1..Depth
    BY <1>5, <2>2 DEF Shape
  <2>3. QED
    BY <1>3, <1>5, <2>1, <2>2
<1>7. /\ IsList(todo) /\ Len(todo) = Len(Path) - Depth
      /\ \A i \in 1..Len(todo) : todo[i] = Path[Depth + i]
      /\ ctx.route # 0 => Depth >= 4
  BY DEF Shape
<1>8. /\ IsList(todo') /\ Len(todo') = Len(todo) - 1
      /\ \A i \in 1..Len(todo) - 1 : todo'[i] = todo[i + 1]
  BY <1>3, <1>7, ListTail DEF Call
<1>9. \A i \in 1..Len(todo') : todo'[i] = Path[Depth' + i]
  <2> SUFFICES ASSUME NEW i \in 1..Len(todo') PROVE todo'[i] = Path[Depth' + i]
    OBVIOUS
  <2>1. i + 1 \in 1..Len(todo) /\ i \in 1..Len(todo) - 1 /\ Depth + (i + 1) = Depth' + i
    BY <1>3, <1>5, <1>7, <1>8
  <2>2. QED
    BY <1>7, <1>8, <2>1
<1>10. Depth' < Len(Path) /\ Len(todo') = Len(Path) - Depth' /\ (ctx.route # 0 => Depth' >= 4)
  BY <1>3, <1>4, <1>5, <1>7, <1>8
<1>11. QED
  BY <1>1, <1>2, <1>5, <1>6, <1>8, <1>9, <1>10 DEF Shape

\* A layer that returns or panics instead.
LEMMA ShapeStop ==
  ASSUME WellFormed, Shape, UNCHANGED given, mode = "in",
         NEW m \in {"out", "panic"}, Stop(m), m = "panic" => Depth >= 1
  PROVE  Shape'
<1>1. Path' = Path /\ Served' = Served /\ ctx' = ctx /\ stack' = stack /\ mode' = m
  BY PathStays DEF Stop
<1>2. QED
  BY <1>1 DEF Shape, Depth

\* A layer that is left.
LEMMA ShapePop ==
  ASSUME WellFormed, Shape, Pop, Depth > 0, mode' \in {"out", "panic"},
         mode' = "panic" => Depth > 1
  PROVE  Shape' /\ Depth' = Depth - 1
<1>1. Path' = Path /\ Served' = Served /\ ctx' = ctx
  BY PathStays DEF Pop
<1>2. /\ IsList(stack') /\ Depth' = Depth - 1
      /\ \A i \in 1..Depth - 1 : stack'[i] = stack[i]
  BY ListFront DEF Shape, Pop, Rest, Depth
<1>3. Depth \in Nat /\ Len(Path) \in Nat
  BY Position
<1>4. \A i \in 1..Depth' : stack'[i].layer = Path[i]
  BY <1>2, <1>3 DEF Shape
<1>5. Depth' < Len(Path) /\ (mode' = "panic" => Depth' >= 1)
  BY <1>2, <1>3 DEF Shape
<1>6. QED
  BY <1>1, <1>2, <1>4, <1>5 DEF Shape

(***************************************************************************)
(* What a request carries.                                                 *)
(***************************************************************************)

Parts == {"method", "host", "path", "remote", "headers", "body", "id", "route"}

\* What layers inside cannot change of the request.
Fixed(r) ==
  /\ DOMAIN r = Parts
  /\ r.method = req.method /\ r.host = req.host /\ r.path = req.path /\ r.remote = req.remote

\* The holder has the route of the context, and the request is the one that came
\* but for its id, until a transform has rewritten it.
Carried ==
  /\ DOMAIN ctx = {"holder", "route", "claims"}
  /\ holder = ctx.route
  /\ mode = "in" /\ Depth >= 4 => ctx.holder = TRUE
  /\ mode # "in" => ctx.route = Served
  /\ Fixed(cur)
  /\ mode = "in" /\ Depth < 2 => cur.headers = req.headers
  /\ (/\ mode = "in" /\ Depth >= 2
      /\ \A i \in 1..Depth : stack[i].layer.type # "transform") => cur.headers = Seen.headers

\* The request with its id is the request but for one header.
LEMMA SeenFacts ==
  ASSUME WellFormed
  PROVE  /\ Seen.method = req.method /\ Seen.host = req.host /\ Seen.path = req.path
         /\ Seen.remote = req.remote
         /\ Seen.headers = Set(req.headers, "X-Request-ID", RequestID(req.headers))
  BY DEF WellFormed, Seen

\* In front of the transforms the request is the one that came, with its id.
LEMMA Unrewritten ==
  ASSUME WellFormed, Shape, Carried, mode = "in", Depth >= 2,
         Head(todo).type \notin {"transform", "proxy"}
  PROVE  cur.headers = Seen.headers
<1>1. /\ Depth \in Nat /\ Len(Path) \in Nat /\ Len(Path) >= 5
      /\ Head(todo) = Path[Depth + 1] /\ Depth + 1 \in 1..Len(Path)
  BY Position
<1>2. ASSUME NEW i \in 1..Depth, stack[i].layer.type = "transform" PROVE FALSE
  <2>1. Path[i].type = "transform" /\ i \in 1..Len(Path)
    BY <1>1, <1>2 DEF Shape
  <2>2. i \in 5..Len(Path) - 1 /\ ctx.route # 0
    BY <2>1, LayerAt, Types DEF Shape
  <2>3. CASE Depth + 1 = Len(Path)
    BY <1>1, <2>2, <2>3, PathFacts DEF Shape
  <2>4. CASE Depth + 1 # Len(Path)
    <3>1. Depth + 1 \in 5..Len(Path) - 1 /\ i < Depth + 1
      BY <1>1, <2>2, <2>4
    <3>2. Path[Depth + 1].type = "transform"
      BY <2>1, <2>2, <3>1, PathFacts DEF Shape
    <3>3. QED
      BY <1>1, <3>2
  <2>5. QED
    BY <2>3, <2>4
<1>3. QED
  BY <1>2 DEF Carried

\* The router finds the route of the request that came.
LEMMA RouterFinds ==
  ASSUME WellFormed, Shape, Carried, At("router")
  PROVE  /\ firstMatch(cfg.routes, cur) = Served
         /\ Depth = 4 /\ ctx.route = 0
<1>1. /\ Depth \in Nat
      /\ Head(todo) = Path[Depth + 1] /\ Depth + 1 \in 1..Len(Path)
      /\ mode = "in" /\ Head(todo).type = "router"
  BY Position DEF At
<1>2. Depth + 1 = 5 /\ ctx.route = 0
  BY <1>1, LayerAt DEF Shape
<1>3. cur.headers = Seen.headers
  BY <1>1, <1>2, Unrewritten
<1>4. cur.method = Seen.method /\ cur.host = Seen.host /\ cur.path = Seen.path
  BY SeenFacts DEF Carried, Fixed
<1>5. ASSUME NEW route PROVE Matches(route, cur) = Matches(route, Seen)
  BY <1>3, <1>4 DEF Matches
<1>6. firstMatch(cfg.routes, cur) = firstMatch(cfg.routes, Seen)
  <2>1. {i \in 1..Len(cfg.routes) : Matches(cfg.routes[i], cur)}
          = {i \in 1..Len(cfg.routes) : Matches(cfg.routes[i], Seen)}
    BY <1>5
  <2>2. QED
    BY <2>1 DEF firstMatch, SelectInSeq
<1>7. firstMatch(cfg.routes, cur) = Served
  BY <1>6, Zenon DEF Served
<1>8. Depth = 4
  BY <1>1, <1>2
<1>9. QED
  BY <1>2, <1>7, <1>8

\* A layer that calls its inner handler.
LEMMA CarriedCall ==
  ASSUME WellFormed, Shape, Carried, UNCHANGED <<given, holder>>, mode = "in",
         NEW c, Call(c), c.route = ctx.route, DOMAIN c = DOMAIN ctx,
         Depth >= 3 => c.holder = TRUE,
         Fixed(cur'),
         Depth < 1 => cur'.headers = req.headers,
         Depth = 1 => cur'.headers = Seen.headers,
         Depth >= 2 /\ Head(todo).type # "transform" => cur'.headers = cur.headers
  PROVE  Carried'
<1>1. ctx' = c /\ mode' = mode
  BY DEF Call
<1>2. Served' = Served /\ Seen' = Seen /\ req' = req
  BY <1>1, PathStays DEF given
<1>3. /\ Depth' = Depth + 1
      /\ \A i \in 1..Depth : stack'[i] = stack[i]
      /\ stack'[Depth + 1].layer = Head(todo)
  <2>1. stack' = Append(stack, [layer |-> Head(todo), ctx |-> ctx])
    BY DEF Call
  <2>2. QED
    BY <2>1, ListAppend DEF Shape, Depth
<1>4. Depth \in Nat
  BY Position
<1>5. Fixed(cur)'
  BY <1>2 DEF Fixed
<1>6. Depth' < 2 => cur'.headers = req'.headers
  BY <1>2, <1>3, <1>4
<1>7. ASSUME Depth' >= 2, \A i \in 1..Depth' : stack'[i].layer.type # "transform"
      PROVE  cur'.headers = Seen.headers
  <2>1. Head(todo).type # "transform" /\ \A i \in 1..Depth : stack[i].layer.type # "transform"
    <3>1. Depth + 1 \in 1..Depth' /\ 1..Depth \subseteq 1..Depth'
      BY <1>3, <1>4
    <3>2. QED
      BY <1>3, <1>7, <3>1
  <2>2. CASE Depth = 1
    BY <2>2
  <2>3. CASE Depth >= 2
    BY <2>1, <2>3 DEF Carried
  <2>4. Depth = 1 \/ Depth >= 2
    BY <1>3, <1>4, <1>7
  <2>5. QED
    BY <2>2, <2>3, <2>4
<1>8. Depth' >= 4 => c.holder = TRUE
  BY <1>3, <1>4
<1>9. QED
  BY <1>1, <1>2, <1>5, <1>6, <1>7, <1>8 DEF Carried

\* Any other step.
LEMMA CarriedAfter ==
  ASSUME WellFormed, Carried, UNCHANGED <<given, holder, ctx>>, mode' # "in",
         ctx.route = Served, Fixed(cur')
  PROVE  Carried'
<1>1. Served' = Served /\ req' = req /\ ctx' = ctx /\ holder' = holder
  BY PathStays DEF given
<1>2. Fixed(cur)'
  BY <1>1 DEF Fixed
<1>3. QED
  BY <1>1, <1>2 DEF Carried

(***************************************************************************)
(* The responses: the client's and those that are held back.               *)
(***************************************************************************)

Buffers(layer) == layer.type = "transform" /\ Configured(layer.config.response)
HeldBack(path, n) == Cardinality({i \in 1..n : Buffers(path[i])})
Width == Len(writers)

\* Only the innermost response has been written to.
Queue(ws) ==
  /\ IsList(ws) /\ Len(ws) \in Nat /\ Len(ws) >= 1
  /\ \A i \in 1..Len(ws) : DOMAIN ws[i] = {"status", "headers", "body"}
  /\ \A i \in 1..Len(ws) - 1 : ws[i].status = 0

\* There is one response for each layer that holds one back, and one more; the
\* innermost one is written when the handler it was given to has returned.
Responses ==
  /\ Queue(writers)
  /\ mode = "in" => Out.status = 0
  /\ mode \in {"out", "done"} => Out.status # 0
  /\ mode # "panic" => Width = 1 + HeldBack(Path, Depth)

\* How many hold a response back.
LEMMA HeldFacts ==
  ASSUME NEW path, NEW n \in Nat
  PROVE  /\ HeldBack(path, n) \in Nat
         /\ (\A i \in 1..n : ~Buffers(path[i])) => HeldBack(path, n) = 0
         /\ Buffers(path[n + 1]) => HeldBack(path, n + 1) = HeldBack(path, n) + 1
         /\ ~Buffers(path[n + 1]) => HeldBack(path, n + 1) = HeldBack(path, n)
<1> DEFINE S(k) == {i \in 1..k : Buffers(path[i])}
<1>1. IsFiniteSet(S(n)) /\ Cardinality(S(n)) \in Nat
  <2>1. IsFiniteSet(1..n)
    BY FS_Interval
  <2>2. S(n) \in SUBSET (1..n)
    OBVIOUS
  <2> HIDE DEF S
  <2>3. IsFiniteSet(S(n))
    BY <2>1, <2>2, FS_Subset
  <2>4. QED
    BY <2>3, FS_CardinalityType
<1>2. (\A i \in 1..n : ~Buffers(path[i])) => S(n) = {}
  OBVIOUS
<1>3. Buffers(path[n + 1]) => S(n + 1) = S(n) \cup {n + 1} /\ n + 1 \notin S(n)
  <2>1. 1..n + 1 = (1..n) \cup {n + 1} /\ n + 1 \notin 1..n
    OBVIOUS
  <2>2. QED
    BY <2>1
<1>4. ~Buffers(path[n + 1]) => S(n + 1) = S(n)
  <2>1. 1..n + 1 = (1..n) \cup {n + 1} /\ n + 1 \notin 1..n
    OBVIOUS
  <2>2. QED
    BY <2>1
<1>5. \A k : HeldBack(path, k) = Cardinality(S(k))
  BY DEF HeldBack
<1> HIDE DEF S
<1>6. (\A i \in 1..n : ~Buffers(path[i])) => HeldBack(path, n) = 0
  BY <1>2, <1>5, FS_EmptySet
<1>7. Buffers(path[n + 1]) => HeldBack(path, n + 1) = HeldBack(path, n) + 1
  BY <1>1, <1>3, <1>5, FS_AddElement
<1>8. QED
  BY <1>1, <1>4, <1>5, <1>6, <1>7

\* What a write leaves: the first status counts.
Settled(w, ws, status, body) ==
  /\ Queue(w) /\ Len(w) = Len(ws) /\ Last(w).status # 0
  /\ \A i \in 1..Len(ws) - 1 : w[i] = ws[i]
  /\ Last(ws).status = 0 => Last(w).status = status /\ Last(w).body = body
  /\ Last(ws).status # 0 => w = ws

\* A write.
LEMMA WrittenFacts ==
  ASSUME NEW ws, Queue(ws), NEW stk, NEW status, status # 0, NEW headers, NEW body
  PROVE  Settled(Written(ws, stk, status, headers, body), ws, status, body)
<1> DEFINE r == [status |-> status, body |-> body,
                 headers |-> IF Len(ws) = 1 THEN WithCORS(headers, stk) ELSE headers]
           w == Written(ws, stk, status, headers, body)
<1>1. CASE Last(ws).status # 0
  <2>1. w = ws
    BY <1>1 DEF Written
  <2>2. QED
    BY <1>1, <2>1 DEF Settled
<1>2. CASE Last(ws).status = 0
  <2>1. w = Append(Front(ws), r)
    BY <1>2 DEF Written
  <2>2. DOMAIN r = {"status", "headers", "body"} /\ r.status = status /\ r.body = body
    OBVIOUS
  <2> HIDE DEF r, w
  <2>3. /\ IsList(Front(ws)) /\ Len(Front(ws)) = Len(ws) - 1
        /\ \A i \in 1..Len(ws) - 1 : Front(ws)[i] = ws[i]
    BY ListFront DEF Queue
  <2>4. /\ IsList(w) /\ Len(w) = Len(Front(ws)) + 1
        /\ \A i \in 1..Len(Front(ws)) : w[i] = Front(ws)[i]
        /\ w[Len(Front(ws)) + 1] = r
    BY <2>1, <2>3, ListAppend
  <2>5. Len(ws) \in Nat /\ Len(ws) >= 1
    BY DEF Queue
  <2>6. Len(w) = Len(ws) /\ w[Len(ws)] = r /\ \A i \in 1..Len(ws) - 1 : w[i] = ws[i]
    BY <2>3, <2>4, <2>5
  <2>7. Last(w) = r
    BY <2>6 DEF Last
  <2>8. \A i \in 1..Len(w) : DOMAIN w[i] = {"status", "headers", "body"}
    <3> SUFFICES ASSUME NEW i \in 1..Len(w) PROVE DOMAIN w[i] = {"status", "headers", "body"}
      OBVIOUS
    <3>1. CASE i = Len(ws)
      BY <2>2, <2>6, <3>1
    <3>2. CASE i \in 1..Len(ws) - 1
      BY <2>5, <2>6, <3>2 DEF Queue
    <3>3. QED
      BY <2>5, <2>6, <3>1, <3>2
  <2>9. Queue(w)
    BY <2>4, <2>5, <2>6, <2>8 DEF Queue
  <2>10. QED
    BY <1>2, <2>2, <2>6, <2>7, <2>9 DEF Settled, w
<1>3. QED
  BY <1>1, <1>2

\* The same but for headers.
Marked(w, ws) ==
  /\ Queue(w) /\ Len(w) = Len(ws)
  /\ \A i \in 1..Len(ws) : w[i].status = ws[i].status /\ w[i].body = ws[i].body

\* Setting a header.
LEMMA SetOutFacts ==
  ASSUME Queue(writers), NEW name, NEW value, SetOut(name, value)
  PROVE  Marked(writers', writers)
<1> DEFINE n == Len(writers)
<1>1. n \in Nat /\ n >= 1 /\ DOMAIN writers = 1..n /\ IsList(writers)
  BY ListSeq DEF Queue
<1>2. writers' = [writers EXCEPT ![n] = [writers[n] EXCEPT !.headers = Set(writers[n].headers, name, value)]]
  BY DEF SetOut
<1> DEFINE r == [writers[n] EXCEPT !.headers = Set(writers[n].headers, name, value)]
<1> HIDE DEF n
<1>3. DOMAIN writers[n] = {"status", "headers", "body"}
  BY <1>1 DEF Queue, n
<1>4. DOMAIN r = {"status", "headers", "body"} /\ r.status = writers[n].status /\ r.body = writers[n].body
  BY <1>3
<1>5. writers' = [writers EXCEPT ![n] = r]
  BY <1>2
<1> HIDE DEF r
<1>6. writers' = [i \in 1..n |-> IF i = n THEN r ELSE writers[i]]
  BY <1>1, <1>5
<1>7. writers' \in Seq({r} \cup {writers[i] : i \in 1..n}) /\ Len(writers') = n
  BY <1>1, <1>6
<1>8. IsList(writers')
  BY <1>7, SeqList
<1>9. \A i \in 1..n : /\ writers'[i].status = writers[i].status /\ writers'[i].body = writers[i].body
                      /\ DOMAIN writers'[i] = {"status", "headers", "body"}
  <2> SUFFICES ASSUME NEW i \in 1..n
               PROVE  /\ writers'[i].status = writers[i].status /\ writers'[i].body = writers[i].body
                      /\ DOMAIN writers'[i] = {"status", "headers", "body"}
    OBVIOUS
  <2>1. CASE i = n
    BY <1>4, <1>6, <2>1
  <2>2. CASE i # n
    BY <1>6, <2>2 DEF Queue, n
  <2>3. QED
    BY <2>1, <2>2
<1>10. Queue(writers')
  <2>1. \A i \in 1..n - 1 : i \in 1..n
    BY <1>1
  <2>2. QED
    BY <1>1, <1>7, <1>8, <1>9, <2>1 DEF Queue, n
<1>11. QED
  BY <1>7, <1>9, <1>10 DEF Marked, n

\* A response more to hold back.
LEMMA PushFacts ==
  ASSUME NEW ws, Queue(ws), Last(ws).status = 0
  PROVE  /\ Queue(Append(ws, Unwritten)) /\ Len(Append(ws, Unwritten)) = Len(ws) + 1
         /\ Last(Append(ws, Unwritten)).status = 0
         /\ \A i \in 1..Len(ws) : Append(ws, Unwritten)[i] = ws[i]
<1> DEFINE w == Append(ws, Unwritten)
<1>1. /\ IsList(w) /\ Len(w) = Len(ws) + 1
      /\ \A i \in 1..Len(ws) : w[i] = ws[i]
      /\ w[Len(ws) + 1] = Unwritten
  BY ListAppend DEF Queue
<1>2. DOMAIN Unwritten = {"status", "headers", "body"} /\ Unwritten.status = 0
  BY DEF Unwritten
<1> HIDE DEF w
<1>3. Len(ws) \in Nat /\ Len(ws) >= 1
  BY DEF Queue
<1>4. \A i \in 1..Len(ws) : w[i].status = 0 /\ DOMAIN w[i] = {"status", "headers", "body"}
  <2> SUFFICES ASSUME NEW i \in 1..Len(ws)
               PROVE  w[i].status = 0 /\ DOMAIN w[i] = {"status", "headers", "body"}
    OBVIOUS
  <2>1. i = Len(ws) \/ i \in 1..Len(ws) - 1
    BY <1>3
  <2>2. QED
    BY <1>1, <2>1 DEF Queue, Last
<1>5. Queue(w)
  <2>1. \A i \in 1..Len(w) : DOMAIN w[i] = {"status", "headers", "body"}
    <3> SUFFICES ASSUME NEW i \in 1..Len(w) PROVE DOMAIN w[i] = {"status", "headers", "body"}
      OBVIOUS
    <3>1. i = Len(ws) + 1 \/ i \in 1..Len(ws)
      BY <1>1, <1>3
    <3>2. QED
      BY <1>1, <1>2, <1>4, <3>1
  <2>2. QED
    BY <1>1, <1>3, <1>4, <2>1 DEF Queue
<1>6. Last(w).status = 0
  BY <1>1, <1>2 DEF Last
<1>7. QED
  BY <1>1, <1>5, <1>6 DEF w

\* A response less.
LEMMA DropFacts ==
  ASSUME NEW ws, Queue(ws), Len(ws) > 1
  PROVE  /\ Queue(Front(ws)) /\ Len(Front(ws)) = Len(ws) - 1
         /\ Last(Front(ws)).status = 0
         /\ \A i \in 1..Len(ws) - 1 : Front(ws)[i] = ws[i]
<1>1. /\ IsList(Front(ws)) /\ Len(Front(ws)) = Len(ws) - 1
      /\ \A i \in 1..Len(ws) - 1 : Front(ws)[i] = ws[i]
  BY ListFront DEF Queue
<1>2. Len(ws) \in Nat
  BY DEF Queue
<1>3. Queue(Front(ws))
  BY <1>1, <1>2 DEF Queue
<1>4. Len(Front(ws)) \in 1..Len(ws) - 1
  BY <1>1, <1>2
<1>5. Last(Front(ws)).status = 0
  BY <1>1, <1>4 DEF Queue, Last
<1>6. QED
  BY <1>1, <1>3, <1>5

(***************************************************************************)
(* The kinds of steps.                                                     *)
(***************************************************************************)

Base == WellFormed /\ Shape /\ Carried /\ Responses

\* A layer calls its inner handler, and may hold its response back.
Calls ==
  /\ mode = "in" /\ Head(todo).type \notin {"router", "proxy"}
  /\ \E c : Call(c) /\ c.route = ctx.route /\ DOMAIN c = DOMAIN ctx /\ (Depth >= 3 => c.holder = TRUE)
  /\ UNCHANGED <<given, holder, forwarded, records>>
  /\ Fixed(cur')
  /\ Depth < 1 => cur'.headers = req.headers
  /\ Depth = 1 => cur'.headers = Seen.headers
  /\ Depth >= 2 /\ Head(todo).type # "transform" => cur'.headers = cur.headers
  /\ IF Buffers(Head(todo)) THEN writers' = Append(writers, Unwritten) ELSE Marked(writers', writers)

\* The router hands the request to its route.
Routes ==
  /\ mode = "in" /\ Depth = 4 /\ ctx.route = 0 /\ Served # 0
  /\ todo' = Inner /\ holder' = Served /\ ctx' = [ctx EXCEPT !.route = Served]
  /\ Fixed(cur') /\ cur'.headers = cur.headers
  /\ UNCHANGED <<given, mode, stack, writers, passed, charged, forwarded, records>>

\* A layer answers, or panics, without calling any further.
Answers ==
  /\ mode = "in" /\ Stop("out") /\ ctx.route = Served /\ Depth >= 4
  /\ UNCHANGED <<given, holder, records>>
  /\ Fixed(cur')
  /\ \E status, body : status # 0 /\ Settled(writers', writers, status, body)
Panics ==
  /\ mode = "in" /\ Stop("panic") /\ ctx.route # 0
  /\ UNCHANGED <<given, holder, records>>
  /\ Fixed(cur')
  /\ Queue(writers')

\* A layer is left, with or without a response that it held back.
Leaves ==
  /\ mode = "out" /\ mode' = "out" /\ Depth > 0 /\ Pop
  /\ IF Buffers(Top.layer)
     THEN Width > 1 /\ \E status, body : status # 0 /\ Settled(writers', Front(writers), status, body)
     ELSE UNCHANGED writers
Breaks ==
  /\ mode = "out" /\ mode' = "panic" /\ Depth > 0 /\ Pop /\ Buffers(Top.layer)
  /\ UNCHANGED <<writers, records>>

\* A request without its transforms is fixed.
LEMMA FixedFacts ==
  ASSUME Fixed(cur)
  PROVE  /\ \A h : Fixed([cur EXCEPT !.headers = h]) /\ [cur EXCEPT !.headers = h].headers = h
         /\ \A n : Fixed([cur EXCEPT !.route = n]) /\ [cur EXCEPT !.route = n].headers = cur.headers
         /\ \A h, b : Fixed([[cur EXCEPT !.headers = h] EXCEPT !.body = b])
         /\ \A n, h : /\ Fixed([cur EXCEPT !.id = n, !.headers = h])
                      /\ [cur EXCEPT !.id = n, !.headers = h].headers = h
         /\ \A h, b, g : Fixed([[cur EXCEPT !.headers = h] EXCEPT !.body = b, !.headers = g])
  BY DEF Fixed, Parts

\* Where a layer is, and what surrounds it.
LEMMA Entering ==
  ASSUME Base, NEW type, At(type)
  PROVE  /\ mode = "in" /\ Depth \in Nat /\ Head(todo).type = type
         /\ type = "recovery" <=> Depth = 0
         /\ type = "request_id" <=> Depth = 1
         /\ type = "logging" <=> Depth = 2
         /\ type = "metrics" <=> Depth = 3
         /\ type \in DOMAIN Zero \cup {"proxy"} => Depth >= 4 /\ ctx.route # 0 /\ ctx.route = Served
<1>1. /\ Depth \in Nat /\ mode = "in" /\ Head(todo).type = type
      /\ Head(todo) = Path[Depth + 1] /\ Depth + 1 \in 1..Len(Path) /\ Len(Path) \in Nat
  BY Position DEF At, Base
<1>2. ctx.route # 0 => ctx.route = Served
  BY DEF Base, Shape
<1>3. /\ Path[Depth + 1].type = "recovery" <=> Depth + 1 = 1
      /\ Path[Depth + 1].type = "request_id" <=> Depth + 1 = 2
      /\ Path[Depth + 1].type = "logging" <=> Depth + 1 = 3
      /\ Path[Depth + 1].type = "metrics" <=> Depth + 1 = 4
      /\ Path[Depth + 1].type = "proxy" <=> Depth + 1 = Len(Path) /\ ctx.route # 0
      /\ Path[Depth + 1].type \in DOMAIN Zero <=> Depth + 1 \in 5..Len(Path) - 1
      /\ Path[Depth + 1].type \in DOMAIN Zero => ctx.route # 0
  BY <1>1, <1>2, LayerAt DEF Base
<1>4. type \in DOMAIN Zero => Depth >= 4 /\ ctx.route # 0
  BY <1>1, <1>3
<1>5. type = "proxy" => Depth >= 4 /\ ctx.route # 0
  BY <1>1, <1>3, Position DEF Base
<1>6. /\ type = "recovery" <=> Depth = 0
      /\ type = "request_id" <=> Depth = 1
      /\ type = "logging" <=> Depth = 2
      /\ type = "metrics" <=> Depth = 3
  BY <1>1, <1>3
<1>7. QED
  BY <1>1, <1>2, <1>4, <1>5, <1>6

\* A response that is not touched.
LEMMA Untouched == ASSUME Base PROVE Marked(writers, writers) /\ Queue(writers) /\ Out.status = Last(writers).status
  BY DEF Base, Responses, Marked, Out

\* The outer layers call.
LEMMA OuterCalls ==
  ASSUME Base, EnterOuter \/ EnterRequestID \/ EnterMetrics
  PROVE  Calls
<1>1. Carried /\ WellFormed /\ Shape /\ Queue(writers)
  BY DEF Base, Responses
<1>2. CASE EnterOuter
  <2>1. PICK type \in {"recovery", "logging"} : At(type)
    BY <1>2 DEF EnterOuter
  <2>2. mode = "in" /\ Depth \in Nat /\ Head(todo).type = type /\ (Depth = 0 \/ Depth = 2)
    BY <2>1, Entering
  <2>3. /\ Call(ctx) /\ UNCHANGED <<given, holder, forwarded, records>> /\ cur' = cur /\ writers' = writers
    BY <1>2 DEF EnterOuter
  <2>4. ~Buffers(Head(todo)) /\ Marked(writers', writers)
    BY <2>1, <2>2, <2>3, Untouched DEF Buffers
  <2>5. Fixed(cur') /\ (Depth < 1 => cur'.headers = req.headers)
    BY <1>1, <2>2, <2>3 DEF Carried
  <2>6. QED
    BY <2>1, <2>2, <2>3, <2>4, <2>5 DEF Calls
<1>3. CASE EnterRequestID
  <2>1. At("request_id") /\ Call(ctx) /\ UNCHANGED <<given, holder, forwarded, records>>
    BY <1>3 DEF EnterRequestID
  <2>2. mode = "in" /\ Depth = 1 /\ Head(todo).type = "request_id"
    BY <2>1, Entering
  <2>3. /\ cur' = [cur EXCEPT !.id = RequestID(cur.headers),
                              !.headers = Set(cur.headers, "X-Request-ID", RequestID(cur.headers))]
        /\ SetOut("X-Request-ID", RequestID(cur.headers))
    BY <1>3 DEF EnterRequestID
  <2>4. cur.headers = req.headers /\ Fixed(cur)
    BY <1>1, <2>2 DEF Carried
  <2>5. Fixed(cur') /\ cur'.headers = Seen.headers
    <3> DEFINE id == RequestID(cur.headers)
               h == Set(cur.headers, "X-Request-ID", id)
    <3>1. cur' = [cur EXCEPT !.id = id, !.headers = h]
      BY <2>3
    <3>2. Seen.headers = h
      BY <1>1, <2>4, SeenFacts
    <3> HIDE DEF h, id
    <3>3. QED
      BY <2>4, <3>1, <3>2 DEF Fixed, Parts
  <2>6. ~Buffers(Head(todo)) /\ Marked(writers', writers)
    BY <1>1, <2>2, <2>3, SetOutFacts DEF Buffers
  <2>7. QED
    BY <2>1, <2>2, <2>5, <2>6 DEF Calls
<1>4. CASE EnterMetrics
  <2>1. /\ At("metrics") /\ Call([ctx EXCEPT !.holder = TRUE])
        /\ UNCHANGED <<given, holder, forwarded, records>> /\ cur' = cur /\ writers' = writers
    BY <1>4 DEF EnterMetrics
  <2>2. mode = "in" /\ Depth = 3 /\ Head(todo).type = "metrics"
    BY <2>1, Entering
  <2>3. ~Buffers(Head(todo)) /\ Marked(writers', writers)
    BY <2>1, <2>2, Untouched DEF Buffers
  <2> DEFINE c == [ctx EXCEPT !.holder = TRUE]
  <2>4. c.route = ctx.route /\ DOMAIN c = DOMAIN ctx /\ c.holder = TRUE
    BY <1>1 DEF Carried
  <2>5. Fixed(cur')
    BY <1>1, <2>1 DEF Carried
  <2>6. \E d : Call(d) /\ d.route = ctx.route /\ DOMAIN d = DOMAIN ctx /\ (Depth >= 3 => d.holder = TRUE)
    BY <2>1, <2>4
  <2>7. QED
    BY <2>1, <2>2, <2>3, <2>5, <2>6 DEF Calls
<1>5. QED
  BY <1>2, <1>3, <1>4

\* A status is what an authentication ends with.
LEMMA VerdictStatus ==
  ASSUME NEW providers, NEW reached
  PROVE  Verdict(providers, reached).status \in {0, 401, 500}
<1> DEFINE i == SelectInSeq(providers, LAMBDA name : \/ name \notin DOMAIN Providers
                                                     \/ Authenticate(name, cur, name \in reached).ok)
<1>1. CASE providers = <<>>
  BY <1>1 DEF Verdict
<1>2. CASE providers # <<>> /\ providers = <<"none">>
  BY <1>2 DEF Verdict
<1>3. CASE providers # <<>> /\ providers # <<"none">> /\ i = 0
  BY <1>3 DEF Verdict
<1>4. CASE /\ providers # <<>> /\ providers # <<"none">>
           /\ i # 0 /\ providers[i] \notin DOMAIN Providers
  BY <1>4 DEF Verdict
<1>5. CASE /\ providers # <<>> /\ providers # <<"none">>
           /\ i # 0 /\ providers[i] \in DOMAIN Providers
  BY <1>5 DEF Verdict
<1>6. QED
  BY <1>1, <1>2, <1>3, <1>4, <1>5

\* A guard that calls leaves the request and the queue of responses.
LEMMA GuardCalls ==
  ASSUME Base, NEW type \in {"cors", "auth", "rate_limit"}, At(type),
         NEW c, Call(c), c.route = ctx.route, DOMAIN c = DOMAIN ctx, c.holder = ctx.holder,
         UNCHANGED <<given, cur, holder, forwarded, records>>, Marked(writers', writers)
  PROVE  Calls
<1>1. mode = "in" /\ Depth \in Nat /\ Head(todo).type = type /\ Depth >= 4
  BY Entering, Types
<1>2. ctx.holder = TRUE /\ Fixed(cur)
  BY <1>1 DEF Base, Carried
<1>3. ~Buffers(Head(todo)) /\ Fixed(cur') /\ cur' = cur
  BY <1>1, <1>2 DEF Buffers
<1>4. QED
  BY <1>1, <1>2, <1>3 DEF Calls

\* A layer of the route that writes and returns.
LEMMA LayerAnswers ==
  ASSUME Base, NEW type \in DOMAIN Zero \cup {"proxy"}, At(type), Stop("out"),
         UNCHANGED <<given, holder, records>>, Fixed(cur'),
         NEW status, status # 0, NEW headers, NEW body,
         writers' = Written(writers, stack, status, headers, body)
  PROVE  Answers
<1>1. mode = "in" /\ ctx.route = Served /\ Depth >= 4
  BY Entering
<1>2. Settled(writers', writers, status, body)
  BY WrittenFacts DEF Base, Responses
<1>3. QED
  BY <1>1, <1>2 DEF Answers

\* CORS.
LEMMA CorsKind == ASSUME Base, CORSMiddleware PROVE Calls \/ Answers
<1>1. At("cors") /\ UNCHANGED <<given, cur, holder, forwarded, records>>
  BY DEF CORSMiddleware
<1>2. Fixed(cur')
  BY <1>1 DEF Base, Carried
<1>3. CASE isPreflight(cur)
  <2>1. /\ writers' = Written(writers, stack, 204,
                              handlePreflight(Out.headers, Get(cur.headers, "Origin"), Settings), <<>>)
        /\ Stop("out")
    BY <1>3 DEF CORSMiddleware
  <2>2. QED
    BY <1>1, <1>2, <2>1, LayerAnswers, Types
<1>4. CASE ~isPreflight(cur)
  <2>1. Call(ctx) /\ writers' = writers
    BY <1>4 DEF CORSMiddleware
  <2>2. QED
    BY <1>1, <2>1, GuardCalls, Untouched
<1>5. QED
  BY <1>3, <1>4

\* Authentication.
LEMMA AuthKind == ASSUME Base, AuthMiddleware PROVE Calls \/ Answers
<1>1. At("auth") /\ UNCHANGED <<given, cur, holder, forwarded, records>>
  BY DEF AuthMiddleware
<1>2. Fixed(cur')
  BY <1>1 DEF Base, Carried
<1>3. PICK verdict : /\ verdict.status \in {0, 401, 500}
                     /\ IF verdict.status = 0
                        THEN Call([ctx EXCEPT !.claims = verdict.claims]) /\ UNCHANGED writers
                        ELSE Answer(verdict.status, Denied(verdict.status))
  BY VerdictStatus DEF AuthMiddleware
<1>4. CASE verdict.status = 0
  <2> DEFINE c == [ctx EXCEPT !.claims = verdict.claims]
  <2>1. Call(c) /\ writers' = writers
    BY <1>3, <1>4
  <2>2. c.route = ctx.route /\ DOMAIN c = DOMAIN ctx /\ c.holder = ctx.holder
    BY DEF Base, Carried
  <2> HIDE DEF c
  <2>3. QED
    BY <1>1, <2>1, <2>2, GuardCalls, Untouched
<1>5. CASE verdict.status # 0
  <2>1. /\ Stop("out")
        /\ writers' = Written(writers, stack, verdict.status, JSON(Last(writers).headers), Denied(verdict.status))
    BY <1>3, <1>5 DEF Answer, WrittenError
  <2>2. QED
    BY <1>1, <1>2, <1>5, <2>1, LayerAnswers, Types
<1>6. QED
  BY <1>4, <1>5

\* Rate limits.
LEMMA LimitKind == ASSUME Base, RateLimitMiddleware PROVE Calls \/ Answers
<1>1. At("rate_limit") /\ UNCHANGED <<given, cur, holder, forwarded, records>>
  BY DEF RateLimitMiddleware
<1>2. Fixed(cur')
  BY <1>1 DEF Base, Carried
<1>3. CASE Call(ctx) /\ SetOut("X-RateLimit-Limit", Settings.requests)
  <2>1. Marked(writers', writers)
    BY <1>3, Untouched, SetOutFacts
  <2>2. QED
    BY <1>1, <1>3, <2>1, GuardCalls
<1>4. CASE Call(ctx) /\ writers' = writers
  BY <1>1, <1>4, GuardCalls, Untouched
<1>5. CASE /\ writers' = Written(writers, stack, 429,
                                 JSON(Set(Out.headers, "X-RateLimit-Limit", Settings.requests)),
                                 Error("rate_limit_exceeded", "Rate limit exceeded"))
           /\ Stop("out")
  <2>1. PICK headers, body : writers' = Written(writers, stack, 429, headers, body)
    BY <1>5
  <2>2. 429 # 0 /\ "rate_limit" \in DOMAIN Zero \cup {"proxy"}
    BY Types
  <2>3. Stop("out")
    BY <1>5, Zenon
  <2>4. UNCHANGED <<given, holder, records>>
    BY <1>1
  <2>5. QED
    BY <1>1, <1>2, <2>1, <2>2, <2>3, <2>4, LayerAnswers
<1>6. UNCHANGED <<charged, writers>> => writers' = writers
  OBVIOUS
<1>7. QED
  BY <1>3, <1>4, <1>5, <1>6, Zenon DEF RateLimitMiddleware

\* The router.
LEMMA RouterKind == ASSUME Base, ServeHTTP PROVE Routes \/ Answers
<1>1. At("router") /\ UNCHANGED <<given, charged, forwarded, records>>
  BY DEF ServeHTTP
<1>2. firstMatch(cfg.routes, cur) = Served /\ Depth = 4 /\ ctx.route = 0 /\ mode = "in"
  BY <1>1, RouterFinds DEF Base, At
<1>3. ctx.holder = TRUE /\ Fixed(cur)
  BY <1>2 DEF Base, Carried
<1>4. CASE Served = 0
  <2>1. NotFound /\ UNCHANGED <<holder, cur>>
    BY <1>2, <1>4 DEF ServeHTTP
  <2>2. PICK headers, body : Stop("out") /\ writers' = Written(writers, stack, 404, headers, body)
    BY <2>1 DEF NotFound, Answer, WrittenError
  <2>3. Settled(writers', writers, 404, body)
    BY <2>2, WrittenFacts DEF Base, Responses
  <2>4. Fixed(cur') /\ holder' = holder
    BY <1>3, <2>1
  <2>5. QED
    BY <1>1, <1>2, <1>4, <2>2, <2>3, <2>4 DEF Answers
<1>5. CASE Served # 0
  <2>1. /\ todo' = RouteHandler(cfg, cfg.routes[Served])
        /\ holder' = IF ctx.holder THEN Served ELSE holder
        /\ ctx' = [ctx EXCEPT !.route = Served]
        /\ cur' = [cur EXCEPT !.route = cfg.routes[Served].name]
        /\ UNCHANGED <<mode, stack, writers, passed>>
    BY <1>2, <1>5, Zenon DEF ServeHTTP
  <2>2. todo' = Inner
    BY <2>1, Zenon DEF Inner
  <2>3. holder' = Served
    BY <1>3, <2>1, Zenon
  <2>4. Fixed(cur') /\ cur'.headers = cur.headers
    BY <1>3, <2>1, FixedFacts
  <2>5. QED
    BY <1>1, <1>2, <1>5, <2>1, <2>2, <2>3, <2>4 DEF Routes
<1>6. QED
  BY <1>4, <1>5

\* Transforms on the way in.
LEMMA TransformKind == ASSUME Base, RequestTransform PROVE Calls \/ Answers \/ Panics
<1> DEFINE t == Settings.request
           inner == IF Configured(Settings.response) THEN Append(writers, Unwritten) ELSE writers
<1>1. At("transform") /\ UNCHANGED <<given, holder, charged, forwarded, records>>
  BY DEF RequestTransform
<1>2. /\ mode = "in" /\ Depth \in Nat /\ Head(todo).type = "transform"
      /\ Depth >= 4 /\ ctx.route # 0
  BY <1>1, Entering, Types
<1>3. Fixed(cur) /\ ctx.holder = TRUE
  BY <1>2 DEF Base, Carried
<1>4. PICK headers, kind :
        \/ /\ Answer(502, Error("bad_gateway", "failed to read request body"))
           /\ cur' = [cur EXCEPT !.headers = headers]
        \/ /\ Answer(413, Error("request_too_large", "request body exceeds transform size limit"))
           /\ cur' = [cur EXCEPT !.headers = headers]
        \/ Stop("panic") /\ cur' = [cur EXCEPT !.headers = headers] /\ UNCHANGED writers
        \/ cur' = [cur EXCEPT !.headers = headers] /\ Call(ctx) /\ writers' = inner
        \/ /\ \E body : cur' = [[cur EXCEPT !.headers = headers]
                                  EXCEPT !.body = body, !.headers = Set(@, "Content-Length", body)]
           /\ Call(ctx) /\ writers' = inner
  BY ZenonT(60) DEF RequestTransform
<1>5. Fixed(cur')
  <2>1. CASE cur' = [cur EXCEPT !.headers = headers]
    BY <1>3, <2>1, FixedFacts
  <2>2. CASE \E body : cur' = [[cur EXCEPT !.headers = headers]
                                  EXCEPT !.body = body, !.headers = Set(@, "Content-Length", body)]
    BY <1>3, <2>2 DEF Fixed, Parts
  <2>3. QED
    BY <1>4, <2>1, <2>2
<1>6. ASSUME NEW status \in {413, 502}, NEW error, Answer(status, error) PROVE Answers
  <2>1. PICK h, body : Stop("out") /\ writers' = Written(writers, stack, status, h, body)
    BY <1>6 DEF Answer, WrittenError
  <2>2. status # 0 /\ "transform" \in DOMAIN Zero \cup {"proxy"}
    BY Types
  <2>3. QED
    BY <1>1, <1>5, <2>1, <2>2, LayerAnswers, Zenon
<1>7. CASE Stop("panic") /\ writers' = writers
  BY <1>1, <1>2, <1>5, <1>7, Untouched DEF Panics
<1>8. CASE Call(ctx) /\ writers' = inner
  <2>1. Buffers(Head(todo)) <=> Configured(Settings.response)
    BY <1>2 DEF Buffers, Settings
  <2>2. IF Buffers(Head(todo)) THEN writers' = Append(writers, Unwritten) ELSE Marked(writers', writers)
    BY <1>8, <2>1, Untouched
  <2> HIDE DEF inner
  <2>3. QED
    BY <1>1, <1>2, <1>3, <1>5, <1>8, <2>2 DEF Calls
<1>9. /\ Answer(502, Error("bad_gateway", "failed to read request body")) => Answers
      /\ Answer(413, Error("request_too_large", "request body exceeds transform size limit")) => Answers
  <2>1. \A error : (Answer(502, error) => Answers) /\ (Answer(413, error) => Answers)
    BY <1>6
  <2>2. QED
    BY <2>1, Zenon
<1> HIDE DEF inner
<1>10. Stop("panic") /\ (UNCHANGED writers) => Calls \/ Answers \/ Panics
  BY <1>7
<1>11. \/ Answer(502, Error("bad_gateway", "failed to read request body"))
       \/ Answer(413, Error("request_too_large", "request body exceeds transform size limit"))
       \/ Stop("panic") /\ (UNCHANGED writers)
       \/ Call(ctx) /\ writers' = inner
  BY <1>4
<1>12. QED
  BY <1>8, <1>9, <1>10, <1>11, Zenon

\* What the proxy and what is around it send in place of a reply.
LEMMA FailureStatus ==
  ASSUME NEW route, NEW kind, NEW f \in Failures(route) \cup Refusals(route, kind)
  PROVE  f.status \in {413, 499, 502, 503}
<1>1. \A status, error : Failure(status, error).status = status
  BY DEF Failure
<1> DEFINE gone == Error("client_closed", "client disconnected during retry")
           last == Error("bad_gateway", "upstream failed after all attempts")
           unread == Error("bad_gateway", "failed to read request body")
           large == Error("request_too_large", "request body exceeds retry buffer limit")
           Known == {Failure(502, Unavailable), Failure(499, gone), Failure(502, last), Failure(503, CircuitOpen),
                     Failure(502, unread), Failure(413, large)}
<1>2. ASSUME NEW g \in Failures(route) PROVE g \in Known
  <2> DEFINE again == Retried(route, 502) \/ (Parses(route) /\ Retried(route, reply.status))
  <2>1. Failures(route) =
          (IF Retried(route, 502) THEN {} ELSE {Failure(502, Unavailable)})
          \cup (IF again THEN {Failure(499, gone), Failure(502, last)} ELSE {})
          \cup (IF again /\ route.breaker THEN {Failure(503, CircuitOpen)} ELSE {})
    BY DEF Failures
  <2> HIDE DEF again, gone, last, unread, large
  <2>2. QED
    BY <1>2, <2>1
<1>3. ASSUME NEW g \in Refusals(route, kind) PROVE g \in Known
  <2>1. Refusals(route, kind) =
          IF Retrying(route) /\ kind = "broken" THEN {Failure(502, unread)}
          ELSE (IF Retrying(route) /\ kind = "large" THEN {Failure(413, large)} ELSE {})
               \cup (IF route.breaker THEN {Failure(503, CircuitOpen)} ELSE {})
               \cup (IF Parses(route) THEN {} ELSE Failures(route))
    BY DEF Refusals
  <2> HIDE DEF gone, last, unread, large
  <2>2. \/ g \in Failures(route) \/ g \in {Failure(502, unread)}
        \/ g \in {Failure(413, large)} \/ g \in {Failure(503, CircuitOpen)}
    BY <1>3, <2>1
  <2>3. QED
    BY <1>2, <2>2
<1> HIDE DEF gone, last, unread, large
<1>4. QED
  BY <1>1, <1>2, <1>3

\* The proxy.
LEMMA ProxyKind == ASSUME Base, Proxy PROVE Answers \/ Panics
<1>1. At("proxy") /\ UNCHANGED <<given, cur, holder, charged, records>>
  BY DEF Proxy
<1>2. mode = "in" /\ ctx.route # 0
  BY <1>1, Entering
<1>3. Fixed(cur') /\ reply.status # 0 /\ Queue(writers)
  BY <1>1 DEF Base, Carried, WellFormed, Responses
<1>4. PICK headers :
        \/ Stop("out") /\ writers' = Written(writers, stack, reply.status, headers, reply.body)
        \/ \E f \in Failures(Route) \cup Refusals(Route, cur.body.kind) : Answer(f.status, f.error)
        \/ Stop("panic") /\ writers' = Written(writers, stack, reply.status, headers, Partial)
        \/ Stop("panic") /\ UNCHANGED writers
  BY ZenonT(60) DEF Proxy
<1>5. ASSUME NEW status, status # 0, NEW h, NEW body, Stop("out"),
             writers' = Written(writers, stack, status, h, body)
      PROVE  Answers
  <2>1. "proxy" \in DOMAIN Zero \cup {"proxy"}
    OBVIOUS
  <2>2. UNCHANGED <<given, holder, records>>
    BY <1>1
  <2>3. QED
    BY <1>1, <1>3, <1>5, <2>1, <2>2, LayerAnswers, Zenon
<1>6. ASSUME NEW status, status # 0, NEW error, Answer(status, error) PROVE Answers
  BY <1>5, <1>6 DEF Answer, WrittenError
<1>7. ASSUME Stop("panic"), Queue(writers') PROVE Panics
  BY <1>1, <1>2, <1>3, <1>7 DEF Panics
<1>8. Stop("panic") /\ writers' = Written(writers, stack, reply.status, headers, Partial) => Queue(writers')
  BY <1>3, WrittenFacts DEF Settled
<1>9. ASSUME NEW f \in Failures(Route) \cup Refusals(Route, cur.body.kind), Answer(f.status, f.error)
      PROVE  Answers
  <2>1. f.status # 0
    BY <1>9, FailureStatus
  <2>2. QED
    BY <1>6, <1>9, <2>1
<1>10. Stop("out") /\ writers' = Written(writers, stack, reply.status, headers, reply.body) => Answers
  BY <1>3, <1>5
<1>11. Stop("panic") /\ (UNCHANGED writers) => Panics
  BY <1>3, <1>7
<1>12. QED
  BY <1>4, <1>7, <1>8, <1>9, <1>10, <1>11, Zenon

\* Only the empty list has no length.
LEMMA NoLength == ASSUME NEW s, IsList(s) PROVE s = <<>> <=> Len(s) = 0
<1>1. s \in Seq(Range(s) \cup {0})
  BY ListSeq
<1>2. QED
  BY <1>1, EmptySeq

\* Where the layer is that is left.
LEMMA LeavingFacts ==
  ASSUME Base, mode \in {"out", "panic"}, stack # <<>>
  PROVE  /\ Depth \in Nat /\ Depth > 0 /\ Depth - 1 \in Nat /\ Top.layer = Path[Depth]
         /\ Top.layer.type = "recovery" <=> Depth = 1
         /\ Top.layer.type = "request_id" <=> Depth = 2
         /\ Top.layer.type = "logging" <=> Depth = 3
         /\ Top.layer.type = "metrics" <=> Depth = 4
         /\ Top.layer.type \in DOMAIN Zero <=> Depth > 4
<1>1. Depth \in Nat /\ Len(Path) \in Nat /\ Depth < Len(Path) /\ IsList(stack)
  BY Position DEF Base, Shape
<1>2. Depth > 0 /\ Depth - 1 \in Nat
  <2>1. Depth # 0
    BY <1>1, NoLength DEF Depth
  <2>2. QED
    BY <1>1, <2>1
<1>3. Top.layer = Path[Depth] /\ Depth \in 1..Len(Path)
  BY <1>2, Position DEF Base
<1>4. /\ Path[Depth].type = "recovery" <=> Depth = 1
      /\ Path[Depth].type = "request_id" <=> Depth = 2
      /\ Path[Depth].type = "logging" <=> Depth = 3
      /\ Path[Depth].type = "metrics" <=> Depth = 4
      /\ Path[Depth].type \in DOMAIN Zero <=> Depth \in 5..Len(Path) - 1
  BY <1>3, LayerAt DEF Base, Shape
<1>5. Depth \in 5..Len(Path) - 1 <=> Depth > 4
  BY <1>1
<1>6. QED
  BY <1>1, <1>2, <1>3, <1>4, <1>5

\* What is held back at a layer that is left.
LEMMA HeldAtTop ==
  ASSUME Base, mode = "out", stack # <<>>
  PROVE  /\ Buffers(Top.layer) => Width > 1 /\ Width - 1 = 1 + HeldBack(Path, Depth - 1)
         /\ ~Buffers(Top.layer) => Width = 1 + HeldBack(Path, Depth - 1)
<1>1. Depth \in Nat /\ Depth - 1 \in Nat /\ Top.layer = Path[Depth] /\ (Depth - 1) + 1 = Depth
  BY LeavingFacts
<1>2. Width = 1 + HeldBack(Path, Depth)
  BY DEF Base, Responses
<1>3. /\ HeldBack(Path, Depth - 1) \in Nat
      /\ Buffers(Path[(Depth - 1) + 1]) => HeldBack(Path, (Depth - 1) + 1) = HeldBack(Path, Depth - 1) + 1
      /\ ~Buffers(Path[(Depth - 1) + 1]) => HeldBack(Path, (Depth - 1) + 1) = HeldBack(Path, Depth - 1)
  BY <1>1, HeldFacts
<1>4. QED
  BY <1>1, <1>2, <1>3

\* The way out.
LEMMA OutKind ==
  ASSUME Base, ResponseTransform \/ LeaveLogging \/ LeaveMetrics \/ LeaveOther
  PROVE  Leaves \/ Breaks
<1>1. mode = "out" /\ stack # <<>> /\ Pop
  BY DEF ResponseTransform, LeaveLogging, LeaveMetrics, LeaveOther, Leaving
<1>2. Depth > 0
  BY <1>1, LeavingFacts
<1>3. CASE ResponseTransform
  <2>1. Buffers(Top.layer)
    BY <1>3 DEF ResponseTransform, Leaving, Buffers
  <2>2. Width > 1 /\ Queue(writers) /\ Out.status # 0
    BY <1>1, <2>1, HeldAtTop DEF Base, Responses
  <2>3. Queue(Front(writers))
    BY <2>2, DropFacts DEF Width
  <2>4. PICK status, headers, body :
          \/ /\ status \in {502, Out.status} /\ UNCHANGED mode
             /\ writers' = Written(Front(writers), Rest, status, headers, body)
          \/ mode' = "panic" /\ UNCHANGED <<writers, records>>
    <3>1. CASE writers' = WrittenError(Front(writers), Rest, 502, Error("bad_gateway", "response too large"))
               /\ UNCHANGED mode
      BY <3>1, ZenonT(60) DEF WrittenError
    <3>2. CASE \E h, b : writers' = Written(Front(writers), Rest, Out.status, h, b) /\ UNCHANGED mode
      BY <3>2
    <3>3. CASE mode' = "panic" /\ UNCHANGED writers
      BY <1>3, <3>3 DEF ResponseTransform
    <3>4. QED
      BY <1>3, <3>1, <3>2, <3>3, ZenonT(60) DEF ResponseTransform
  <2>5. CASE status \in {502, Out.status} /\ mode' = "out"
             /\ writers' = Written(Front(writers), Rest, status, headers, body)
    <3>1. status # 0
      BY <2>2, <2>5
    <3>2. Settled(writers', Front(writers), status, body)
      BY <2>3, <2>5, <3>1, WrittenFacts
    <3>3. QED
      BY <1>1, <1>2, <2>1, <2>2, <2>5, <3>1, <3>2 DEF Leaves
  <2>6. CASE mode' = "panic" /\ UNCHANGED <<writers, records>>
    BY <1>1, <1>2, <2>1, <2>6 DEF Breaks
  <2>7. QED
    BY <1>1, <2>4, <2>5, <2>6
<1>4. CASE LeaveLogging \/ LeaveMetrics \/ LeaveOther
  <2>1. UNCHANGED <<mode, writers>>
    BY <1>4 DEF LeaveLogging, LeaveMetrics, LeaveOther
  <2>2. ~Buffers(Top.layer)
    BY <1>4 DEF LeaveLogging, LeaveMetrics, LeaveOther, Leaving, Buffers
  <2>3. QED
    BY <1>1, <1>2, <2>1, <2>2 DEF Leaves
<1>5. QED
  BY <1>3, <1>4

(***************************************************************************)
(* Every kind of step keeps the base.                                      *)
(***************************************************************************)

\* A call.
LEMMA CallsKeep == ASSUME Base, Calls PROVE Base' /\ Depth' = Depth + 1 /\ Path' = Path
<1>1. WellFormed /\ Shape /\ Carried /\ Responses
  BY DEF Base
<1>2. PICK c : Call(c) /\ c.route = ctx.route /\ DOMAIN c = DOMAIN ctx /\ (Depth >= 3 => c.holder = TRUE)
  BY DEF Calls
<1>3. /\ mode = "in" /\ Head(todo).type \notin {"router", "proxy"}
      /\ UNCHANGED given /\ UNCHANGED <<given, holder>>
      /\ Fixed(cur')
      /\ Depth < 1 => cur'.headers = req.headers
      /\ Depth = 1 => cur'.headers = Seen.headers
      /\ Depth >= 2 /\ Head(todo).type # "transform" => cur'.headers = cur.headers
      /\ IF Buffers(Head(todo)) THEN writers' = Append(writers, Unwritten) ELSE Marked(writers', writers)
  BY DEF Calls
<1>4. Shape'
  BY <1>1, <1>2, <1>3, ShapeCall
<1>5. Carried'
  BY <1>1, <1>2, <1>3, CarriedCall
<1>6. Path' = Path /\ WellFormed' /\ mode' = "in"
  BY <1>1, <1>2, <1>3, PathStays DEF Call
<1>7. Depth' = Depth + 1
  BY <1>1, <1>2, ListAppend DEF Shape, Call, Depth
<1>8. Depth \in Nat /\ Head(todo) = Path[Depth + 1]
  BY <1>1, <1>3, Position
<1>9. Width = 1 + HeldBack(Path, Depth) /\ Queue(writers) /\ Out.status = 0 /\ Width \in Nat /\ Width >= 1
  BY <1>1, <1>3 DEF Responses, Queue, Width
<1>10. Responses'
  <2>1. CASE Buffers(Head(todo))
    <3>1. writers' = Append(writers, Unwritten)
      BY <1>3, <2>1
    <3>2. Queue(writers') /\ Len(writers') = Len(writers) + 1 /\ Last(writers').status = 0
      BY <1>9, <3>1, PushFacts DEF Out
    <3>3. HeldBack(Path, Depth + 1) = HeldBack(Path, Depth) + 1 /\ HeldBack(Path, Depth) \in Nat
      BY <1>8, <2>1, HeldFacts
    <3>4. Width' = 1 + HeldBack(Path, Depth + 1)
      BY <1>9, <3>2, <3>3 DEF Width
    <3>5. QED
      BY <1>6, <1>7, <3>2, <3>4 DEF Responses, Out
  <2>2. CASE ~Buffers(Head(todo))
    <3>1. Marked(writers', writers)
      BY <1>3, <2>2
    <3>2. Queue(writers') /\ Len(writers') = Len(writers) /\ Last(writers').status = 0
      BY <1>9, <3>1 DEF Marked, Last, Out, Width
    <3>3. HeldBack(Path, Depth + 1) = HeldBack(Path, Depth)
      BY <1>8, <2>2, HeldFacts
    <3>4. QED
      BY <1>6, <1>7, <1>9, <3>2, <3>3 DEF Responses, Out, Width
  <2>3. QED
    BY <2>1, <2>2
<1>11. QED
  BY <1>4, <1>5, <1>6, <1>7, <1>10 DEF Base

\* The layers outside hold nothing back.
LEMMA NoneHeld ==
  ASSUME WellFormed, ctx.route # 0 => ctx.route = Served, NEW n \in 0..4
  PROVE  HeldBack(Path, n) = 0
<1>1. \A i \in 1..n : i \in 1..Len(Path) /\ i <= 4 /\ i \in Nat
  BY PathFacts
<1>2. \A i \in 1..n : ~Buffers(Path[i])
  <2> SUFFICES ASSUME NEW i \in 1..n, Path[i].type = "transform" PROVE FALSE
    BY DEF Buffers
  <2>1. i \in 5..Len(Path) - 1
    BY <1>1, LayerAt, Types
  <2>2. QED
    BY <1>1, <2>1
<1>3. QED
  BY <1>2, HeldFacts

\* The router.
LEMMA RoutesKeep ==
  ASSUME Base, Routes
  PROVE  Base' /\ ctx'.route = Served /\ Served' = Served /\ Depth' = Depth /\ mode' = "in"
<1>1. WellFormed /\ Shape /\ Carried /\ Responses
  BY DEF Base
<1>2. /\ mode = "in" /\ Depth = 4 /\ ctx.route = 0 /\ Served # 0
      /\ todo' = Inner /\ holder' = Served /\ ctx' = [ctx EXCEPT !.route = Served]
      /\ Fixed(cur') /\ cur'.headers = cur.headers
      /\ cfg' = cfg /\ req' = req /\ reply' = reply
      /\ mode' = mode /\ stack' = stack /\ writers' = writers
  BY DEF Routes, given
<1>3. ctx'.route = Served /\ DOMAIN ctx' = DOMAIN ctx /\ ctx'.holder = ctx.holder
  BY <1>1, <1>2 DEF Carried
<1>4. Seen' = Seen
  BY <1>2 DEF Seen
<1>5. Served' = Served
  BY <1>2, <1>4, Zenon DEF Served
<1>6. WellFormed' /\ Depth' = Depth
  BY <1>1, <1>2 DEF WellFormed, Depth
<1>7. Inner' = Inner
  BY <1>2, <1>5 DEF Inner
<1>8. /\ IsList(Path') /\ Len(Path') = 4 + Len(Inner)
      /\ \A i \in 1..Len(Inner) : Path'[4 + i] = Inner[i]
      /\ IsList(Inner) /\ Len(Inner) \in Nat /\ Len(Inner) >= 1
  <2>1. Path' = Outer \o Inner
    BY <1>2, <1>3, <1>7 DEF Path
  <2>2. IsList(Outer) /\ Len(Outer) = 4
    BY DEF Outer, IsList
  <2>3. /\ IsList(Before) /\ IsList(Around) /\ IsList(Inner)
        /\ Len(Inner) = Len(Before) + Len(Around) + 1
    BY <1>1, <1>2, InnerFacts
  <2>4. Len(Inner) \in Nat /\ Len(Inner) >= 1
    BY <2>3, ListSeq
  <2>5. Joined(Path', Outer, Inner)
    BY <2>1, <2>2, <2>3, JoinFacts, Zenon
  <2>6. QED
    BY <2>2, <2>3, <2>4, <2>5 DEF Joined
<1>9. \A i \in 1..4 : Path'[i] = Path[i]
  <2>1. Path' = Outer \o Inner /\ Path = Outer \o <<Layer("router")>>
    BY <1>2, <1>3, <1>7 DEF Path
  <2>2. IsList(Outer) /\ Len(Outer) = 4 /\ IsList(<<Layer("router")>>) /\ IsList(Inner)
    BY <1>8 DEF Outer, IsList
  <2>3. Joined(Path', Outer, Inner) /\ Joined(Path, Outer, <<Layer("router")>>)
    BY <2>1, <2>2, JoinFacts, Zenon
  <2>4. QED
    BY <2>2, <2>3 DEF Joined
<1>10. Shape'
  <2>1. \A i \in 1..Depth' : stack'[i].layer = Path'[i]
    BY <1>1, <1>2, <1>6, <1>9 DEF Shape
  <2>2. Depth' < Len(Path') /\ Len(todo') = Len(Path') - Depth'
    BY <1>2, <1>6, <1>8
  <2>3. \A i \in 1..Len(todo') : todo'[i] = Path'[Depth' + i]
    BY <1>2, <1>6, <1>8
  <2>4. IsList(todo') /\ IsList(stack') /\ Depth' >= 4
    BY <1>1, <1>2, <1>6, <1>8 DEF Shape
  <2>5. QED
    BY <1>2, <1>3, <1>5, <2>1, <2>2, <2>3, <2>4 DEF Shape
<1>11. Carried'
  <2>1. Fixed(cur)'
    BY <1>2 DEF Fixed
  <2>2. QED
    BY <1>1, <1>2, <1>3, <1>4, <1>5, <1>6, <2>1 DEF Carried
<1>12. Responses'
  <2>1. HeldBack(Path', Depth') = 0
    <3>1. (ctx.route # 0 => ctx.route = Served)' /\ Depth' \in 0..4
      BY <1>2, <1>3, <1>5, <1>6
    <3>2. (\A n \in 0..4 : HeldBack(Path, n) = 0)'
      <4>1. \A i \in 1..4 : ~Buffers(Path[i])
        <5> SUFFICES ASSUME NEW i \in 1..4, Path[i].type = "transform" PROVE FALSE
          BY DEF Buffers
        <5>1. i \in 1..Len(Path) /\ (ctx.route # 0 => ctx.route = Served)
          BY <1>1, PathFacts DEF Shape
        <5>2. i \in 5..Len(Path) - 1
          BY <1>1, <5>1, LayerAt, Types
        <5>3. QED
          BY <5>2
      <4>2. \A i \in 1..4 : ~Buffers(Path'[i])
        BY <1>9, <4>1
      <4>3. ASSUME NEW n \in 0..4 PROVE HeldBack(Path', n) = 0
        <5>1. n \in Nat /\ \A i \in 1..n : ~Buffers(Path'[i])
          BY <4>2
        <5>2. QED
          BY <5>1, HeldFacts
      <4>4. QED
        BY <4>3
    <3>3. QED
      BY <3>1, <3>2
  <2>2. HeldBack(Path, Depth) = 0
    BY <1>1, <1>2, NoneHeld
  <2>3. Width = 1 /\ Queue(writers) /\ Out.status = 0
    BY <1>1, <1>2, <2>2 DEF Responses
  <2>4. QED
    BY <1>2, <2>1, <2>3 DEF Responses, Width, Out
<1>13. QED
  BY <1>2, <1>3, <1>5, <1>6, <1>10, <1>11, <1>12 DEF Base

\* An answer, or a panic.
LEMMA StopsKeep ==
  ASSUME Base, Answers \/ Panics
  PROVE  Base' /\ Depth' = Depth /\ Path' = Path
<1>1. WellFormed /\ Shape /\ Carried /\ Responses
  BY DEF Base
<1>2. /\ mode = "in" /\ Fixed(cur') /\ ctx' = ctx /\ stack' = stack /\ holder' = holder
      /\ UNCHANGED given /\ UNCHANGED <<given, holder, ctx>>
  BY DEF Answers, Panics, Stop
<1>3. Path' = Path /\ WellFormed' /\ Depth' = Depth
  BY <1>1, <1>2, PathStays DEF Depth
<1>4. Depth \in Nat /\ Queue(writers) /\ Width = 1 + HeldBack(Path, Depth)
  BY <1>1, <1>2, Position DEF Responses
<1>5. CASE Answers
  <2>1. Stop("out") /\ mode' = "out" /\ ctx.route = Served
    BY <1>5 DEF Answers, Stop
  <2>2. Shape'
    BY <1>1, <1>2, <2>1, ShapeStop
  <2>3. Carried'
    BY <1>1, <1>2, <2>1, CarriedAfter
  <2>4. PICK status, body : Settled(writers', writers, status, body)
    BY <1>5 DEF Answers
  <2>5. Queue(writers') /\ Len(writers') = Len(writers) /\ Last(writers').status # 0
    BY <2>4 DEF Settled
  <2>6. Responses'
    BY <1>3, <1>4, <2>1, <2>5 DEF Responses, Out, Width
  <2>7. QED
    BY <1>3, <2>2, <2>3, <2>6 DEF Base
<1>6. CASE Panics
  <2>1. Stop("panic") /\ mode' = "panic" /\ ctx.route # 0 /\ ctx.route = Served /\ Queue(writers')
    BY <1>1, <1>6 DEF Panics, Stop, Shape
  <2>2. Depth >= 1
    BY <1>1, <1>2, <1>4, <2>1 DEF Shape
  <2>3. Shape'
    BY <1>1, <1>2, <2>1, <2>2, ShapeStop
  <2>4. Carried'
    BY <1>1, <1>2, <2>1, CarriedAfter
  <2>5. Responses'
    BY <2>1 DEF Responses
  <2>6. QED
    BY <1>3, <2>3, <2>4, <2>5 DEF Base
<1>7. QED
  BY <1>5, <1>6

\* A layer is left.
LEMMA LeavesKeep ==
  ASSUME Base, Leaves \/ Breaks
  PROVE  Base' /\ Depth' = Depth - 1 /\ Path' = Path
<1>1. WellFormed /\ Shape /\ Carried /\ Responses
  BY DEF Base
<1>2. mode = "out" /\ mode' \in {"out", "panic"} /\ Depth > 0 /\ Pop
  BY DEF Leaves, Breaks
<1>3. stack # <<>>
  BY <1>1, <1>2, NoLength DEF Shape, Depth
<1>4. /\ UNCHANGED given /\ UNCHANGED <<given, holder, ctx>> /\ cur' = cur /\ ctx' = ctx
  BY <1>2 DEF Pop
<1>5. Path' = Path /\ WellFormed'
  BY <1>1, <1>4, PathStays
<1>6. Carried'
  BY <1>1, <1>2, <1>4, CarriedAfter DEF Carried
<1>7. Depth \in Nat /\ (Buffers(Top.layer) => Depth > 4)
  BY <1>2, <1>3, LeavingFacts, Types DEF Buffers
<1>8. mode' = "panic" => Depth > 1
  BY <1>7 DEF Leaves, Breaks
<1>9. Shape' /\ Depth' = Depth - 1
  BY <1>1, <1>2, <1>8, ShapePop
<1>10. /\ Buffers(Top.layer) => Width > 1 /\ Width - 1 = 1 + HeldBack(Path, Depth - 1)
       /\ ~Buffers(Top.layer) => Width = 1 + HeldBack(Path, Depth - 1)
  BY <1>2, <1>3, HeldAtTop
<1>11. Responses'
  <2>1. CASE Breaks
    BY <1>1, <2>1 DEF Breaks, Responses
  <2>2. CASE Leaves /\ ~Buffers(Top.layer)
    <3>1. writers' = writers /\ mode' = "out"
      BY <2>2 DEF Leaves
    <3>2. Width' = 1 + HeldBack(Path', Depth')
      BY <1>5, <1>9, <1>10, <2>2, <3>1 DEF Width
    <3>3. QED
      BY <1>1, <1>2, <3>1, <3>2 DEF Responses, Out
  <2>3. CASE Leaves /\ Buffers(Top.layer)
    <3>1. PICK status, body : Settled(writers', Front(writers), status, body)
      BY <2>3 DEF Leaves
    <3>2. Queue(writers') /\ Len(writers') = Len(Front(writers)) /\ Last(writers').status # 0 /\ mode' = "out"
      BY <2>3, <3>1 DEF Settled, Leaves
    <3>3. Len(Front(writers)) = Width - 1
      BY <1>1, <1>10, <2>3, DropFacts DEF Width, Responses
    <3>4. Width' = 1 + HeldBack(Path', Depth')
      BY <1>5, <1>9, <1>10, <2>3, <3>2, <3>3 DEF Width
    <3>5. QED
      BY <3>2, <3>4 DEF Responses, Out
  <2>4. QED
    BY <2>1, <2>2, <2>3
<1>12. QED
  BY <1>5, <1>6, <1>9, <1>11 DEF Base

\* A panic goes up one layer.
LEMMA UnwindKeeps ==
  ASSUME Base, Unwind
  PROVE  Base' /\ Depth' = Depth - 1 /\ Path' = Path /\ Depth > 1
<1>1. WellFormed /\ Shape /\ Carried /\ Responses
  BY DEF Base
<1>2. mode = "panic" /\ mode' = "panic" /\ Pop /\ Top.layer.type # "recovery" /\ writers' = writers
  BY DEF Unwind
<1>3. Depth >= 1 /\ stack # <<>>
  BY <1>1, <1>2, NoLength DEF Shape, Depth
<1>4. Depth \in Nat /\ Depth > 1
  BY <1>2, <1>3, LeavingFacts
<1>5. Shape' /\ Depth' = Depth - 1
  BY <1>1, <1>2, <1>4, ShapePop
<1>6. UNCHANGED given /\ UNCHANGED <<given, holder, ctx>> /\ cur' = cur /\ ctx' = ctx
  BY <1>2 DEF Pop
<1>7. Path' = Path /\ WellFormed'
  BY <1>1, <1>6, PathStays
<1>8. Carried'
  BY <1>1, <1>2, <1>6, CarriedAfter DEF Carried
<1>9. Responses'
  BY <1>1, <1>2 DEF Responses
<1>10. QED
  BY <1>4, <1>5, <1>7, <1>8, <1>9 DEF Base

\* The recovery answers.
LEMMA RecoveryKeeps ==
  ASSUME Base, Recovery
  PROVE  /\ Base' /\ Depth = 1 /\ Depth' = 0 /\ Path' = Path
         /\ Settled(writers', <<sent>>, 500, Recovered)
<1>1. WellFormed /\ Shape /\ Carried /\ Responses
  BY DEF Base
<1>2. /\ mode = "panic" /\ mode' = "out" /\ Pop /\ Top.layer.type = "recovery"
      /\ writers' = WrittenError(<<sent>>, Rest, 500, Recovered)
  BY DEF Recovery
<1>3. Depth >= 1 /\ stack # <<>>
  BY <1>1, <1>2, NoLength DEF Shape, Depth
<1>4. Depth \in Nat /\ Depth = 1
  BY <1>2, <1>3, LeavingFacts
<1>5. Shape' /\ Depth' = 0
  BY <1>1, <1>2, <1>4, ShapePop
<1>6. UNCHANGED given /\ UNCHANGED <<given, holder, ctx>> /\ cur' = cur /\ ctx' = ctx
  BY <1>2 DEF Pop
<1>7. Path' = Path /\ WellFormed' /\ (ctx.route # 0 => ctx.route = Served)
  BY <1>1, <1>6, PathStays DEF Shape
<1>8. Carried'
  BY <1>1, <1>2, <1>6, CarriedAfter DEF Carried
<1>9. Queue(<<sent>>)
  <2>1. DOMAIN sent = {"status", "headers", "body"}
    BY <1>1 DEF Responses, Queue, sent
  <2> DEFINE s == sent
  <2>2. IsList(<<s>>) /\ Len(<<s>>) = 1 /\ <<s>>[1] = s
    BY DEF IsList
  <2> HIDE DEF s
  <2>3. \A i \in 1..Len(<<s>>) : i = 1
    BY <2>2
  <2>4. \A i \in 1..Len(<<s>>) - 1 : FALSE
    BY <2>2
  <2>5. QED
    BY <2>1, <2>2, <2>3, <2>4 DEF Queue, s
<1>10. Settled(writers', <<sent>>, 500, Recovered)
  BY <1>2, <1>9, WrittenFacts DEF WrittenError
<1>11. Queue(writers') /\ Last(writers').status # 0 /\ Len(writers') = 1
  BY <1>10 DEF Settled
<1>12. HeldBack(Path, 0) = 0
  BY <1>1, <1>7, NoneHeld
<1>13. Responses'
  <2>1. Width' = 1 /\ Out'.status # 0
    BY <1>11 DEF Width, Out
  <2>2. Width' = 1 + HeldBack(Path', Depth')
    BY <1>5, <1>7, <1>12, <2>1
  <2>3. QED
    BY <1>2, <1>11, <2>1, <2>2 DEF Responses
<1>14. QED
  BY <1>4, <1>5, <1>7, <1>8, <1>10, <1>13 DEF Base

\* The end, and a step of nothing.
LEMMA RestKeeps ==
  ASSUME Base, Finish \/ UNCHANGED vars
  PROVE  Base' /\ Path' = Path
<1>1. WellFormed /\ Shape /\ Carried /\ Responses
  BY DEF Base
<1>2. /\ UNCHANGED given /\ ctx' = ctx /\ stack' = stack /\ todo' = todo /\ holder' = holder /\ cur' = cur
      /\ writers' = writers
      /\ mode' = mode \/ (mode = "out" /\ mode' = "done" /\ stack = <<>>)
  BY DEF Finish, vars
<1>3. Path' = Path /\ WellFormed' /\ Served' = Served /\ Seen' = Seen /\ req' = req /\ Depth' = Depth
  BY <1>1, <1>2, PathStays DEF given, Depth
<1>4. Shape'
  BY <1>1, <1>2, <1>3 DEF Shape
<1>5. Carried'
  BY <1>1, <1>2, <1>3 DEF Carried, Fixed
<1>6. Responses'
  BY <1>1, <1>2, <1>3 DEF Responses, Out, Width
<1>7. QED
  BY <1>3, <1>4, <1>5, <1>6 DEF Base

\* The base holds at first.
LEMMA BaseInit == ASSUME Init PROVE Base
<1>1. WellFormed
  BY FamiliesAssumption DEF Init, WellFormed
<1>2. /\ mode = "in" /\ todo = Outer \o <<Layer("router")>> /\ stack = <<>>
      /\ ctx = [holder |-> FALSE, route |-> 0, claims |-> <<>>] /\ holder = 0
      /\ writers = <<Unwritten>> /\ cur = [field \in DOMAIN req \cup {"id", "route"} |-> IF field \in DOMAIN req THEN req[field] ELSE ""]
  BY Zenon DEF Init, BuildHandler, Wrap, Outer
<1>3. IsList(stack) /\ Depth = 0
  <2>1. <<>> \in Seq({0}) /\ Len(<<>>) = 0
    OBVIOUS
  <2>2. QED
    BY <1>2, <2>1, SeqList DEF Depth
<1>4. Path = todo /\ ctx.route = 0
  BY <1>2 DEF Path
<1>5. IsList(Path) /\ Len(Path) \in Nat /\ Len(Path) >= 5
  BY <1>1, <1>4, PathFacts
<1>6. Shape
  <2>1. Depth < Len(Path) /\ \A i \in 1..Depth : stack[i].layer = Path[i]
    BY <1>3, <1>5
  <2>2. IsList(todo) /\ Len(todo) = Len(Path) - Depth /\ \A i \in 1..Len(todo) : todo[i] = Path[Depth + i]
    BY <1>3, <1>4, <1>5
  <2>3. QED
    BY <1>2, <1>3, <1>4, <2>1, <2>2 DEF Shape
<1>7. Fixed(cur) /\ cur.headers = req.headers
  <2>1. DOMAIN req = {"method", "host", "path", "remote", "headers", "body"}
    BY <1>1 DEF WellFormed
  <2>2. QED
    BY <1>2, <2>1 DEF Fixed, Parts
<1>8. Carried
  <2>1. DOMAIN ctx = {"holder", "route", "claims"} /\ holder = ctx.route
    BY <1>2
  <2>2. ~(Depth >= 4) /\ ~(Depth >= 2)
    BY <1>3
  <2>3. QED
    BY <1>2, <1>7, <2>1, <2>2 DEF Carried
<1>9. Responses
  <2>1. Queue(writers) /\ Out.status = 0 /\ Width = 1
    <3>1. DOMAIN Unwritten = {"status", "headers", "body"} /\ Unwritten.status = 0
      BY DEF Unwritten
    <3>2. <<Unwritten>> \in Seq({Unwritten}) /\ Len(<<Unwritten>>) = 1 /\ <<Unwritten>>[1] = Unwritten
      OBVIOUS
    <3>3. IsList(writers)
      BY <1>2, <3>2, SeqList
    <3>4. Width = 1 /\ writers[1] = Unwritten
      BY <1>2, <3>2 DEF Width
    <3>5. (\A i \in 1..Width : writers[i] = Unwritten) /\ \A i \in 1..Width - 1 : FALSE
      <4>1. 1..1 = {1} /\ 1..1 - 1 = {}
        OBVIOUS
      <4>2. QED
        BY <3>4, <4>1, Zenon
    <3>6. Queue(writers)
      BY <3>1, <3>3, <3>4, <3>5 DEF Queue, Width
    <3>7. Out.status = 0
      BY <3>1, <3>4 DEF Out, Last, Width
    <3>8. QED
      BY <3>4, <3>6, <3>7
  <2>2. HeldBack(Path, 0) = 0
    BY <1>1, <1>4, NoneHeld
  <2>3. Width = 1 + HeldBack(Path, Depth)
    BY <1>3, <2>1, <2>2
  <2>4. QED
    BY <1>2, <2>1, <2>3 DEF Responses
<1>10. QED
  BY <1>1, <1>6, <1>8, <1>9 DEF Base

\* The base holds after every step.
LEMMA BaseStep == ASSUME Base, [Next]_vars PROVE Base'
<1>1. CASE Next
  BY <1>1, OuterCalls, RouterKind, CorsKind, AuthKind, LimitKind, TransformKind, ProxyKind, OutKind,
     CallsKeep, RoutesKeep, StopsKeep, LeavesKeep, UnwindKeeps, RecoveryKeeps, RestKeeps DEF Next
<1>2. CASE UNCHANGED vars
  BY <1>2, RestKeeps
<1>3. QED
  BY <1>1, <1>2

\* A panic anywhere below is answered: a request is done when its stack is
\* empty, and then the one response left, the client's, has been written.
THEOREM AlwaysAnswered == Spec => []Answered
<1>1. Init => Base
  BY BaseInit
<1>2. Base /\ [Next]_vars => Base'
  BY BaseStep
<1>3. Base => Answered
  <2> SUFFICES ASSUME Base, mode = "done" PROVE sent.status # 0
    BY DEF Answered
  <2>1. stack = <<>> /\ WellFormed /\ (ctx.route # 0 => ctx.route = Served)
    BY DEF Base, Shape
  <2>2. Depth = 0
    BY <2>1 DEF Depth
  <2>3. Width = 1 /\ Out.status # 0
    BY <2>1, <2>2, NoneHeld DEF Base, Responses
  <2>4. QED
    BY <2>3 DEF Width, Out, Last, sent
<1>4. QED
  BY <1>1, <1>2, <1>3, PTL DEF Spec

(***************************************************************************)
(* Counting and logging.                                                   *)
(***************************************************************************)

Entry == [route |-> RouteName(Served), status |-> sent.status]
Line == [route |-> "unknown", status |-> sent.status]

\* Nothing is recorded inside the metrics, nor ever after a panic; outside of
\* them the request has been counted, and outside of the logging it has been
\* logged too, each once and as it was answered.
Tally ==
  \/ /\ counted = <<>> /\ logged = <<>>
     /\ mode = "out" => Depth >= 4 \/ Depth = 0
  \/ counted = <<Entry>> /\ logged = <<>> /\ mode = "out" /\ Depth = 3
  \/ counted = <<Entry>> /\ logged = <<Line>> /\ mode \in {"out", "done"} /\ Depth < 3

\* The layers outside were entered before there was a route.
Early == \A i \in 1..Depth : i <= 4 => stack[i].ctx.route = 0

\* Who was sent something before a panic has the start of a reply; who is not
\* counted at the end has that or the error of the recovery.
Uncounted ==
  /\ mode = "panic" /\ sent.status # 0 => sent.body = Partial
  /\ mode \in {"out", "done"} /\ Depth = 0 /\ counted = <<>> => sent.body \in {Recovered, Partial}

\* While layers are entered or a panic unwinds nothing is recorded.
LEMMA TallyQuiet ==
  ASSUME Tally, mode \in {"in", "panic"}, UNCHANGED records,
         mode' = "out" => Depth' >= 4 \/ Depth' = 0
  PROVE  Tally'
<1>1. counted = <<>> /\ logged = <<>>
  BY DEF Tally
<1>2. counted' = <<>> /\ logged' = <<>>
  BY <1>1 DEF records
<1>3. QED
  BY <1>2 DEF Tally

\* The layers that leave nothing behind, and those that do.
LEMMA TallyOut ==
  ASSUME Base, Tally, Early, ResponseTransform \/ LeaveLogging \/ LeaveMetrics \/ LeaveOther
  PROVE  Tally'
<1>1. mode = "out" /\ stack # <<>> /\ Pop
  BY DEF ResponseTransform, LeaveLogging, LeaveMetrics, LeaveOther, Leaving
<1>2. /\ Depth \in Nat /\ Depth > 0
      /\ Top.layer.type = "logging" <=> Depth = 3
      /\ Top.layer.type = "metrics" <=> Depth = 4
      /\ Top.layer.type \in DOMAIN Zero <=> Depth > 4
  BY <1>1, LeavingFacts
<1>3. Depth' = Depth - 1
  BY OutKind, LeavesKeep
<1>4. cfg' = cfg /\ req' = req /\ reply' = reply /\ ctx' = ctx
  BY <1>1 DEF Pop, given
<1>5. Served' = Served
  <2>1. UNCHANGED given /\ ctx'.route = ctx.route
    BY <1>4 DEF given
  <2>2. QED
    BY <2>1, PathStays
<1>6. CASE ResponseTransform
  <2>1. Depth > 4 /\ UNCHANGED records
    BY <1>2, <1>6, Types DEF ResponseTransform, Leaving
  <2>2. counted = <<>> /\ logged = <<>>
    BY <1>1, <1>2, <2>1 DEF Tally
  <2>3. counted' = <<>> /\ logged' = <<>> /\ Depth' >= 4
    BY <1>2, <1>3, <2>1, <2>2 DEF records
  <2>4. QED
    BY <2>3 DEF Tally
<1>7. ASSUME writers' = writers PROVE Entry' = Entry /\ Line' = Line /\ sent' = sent
  BY <1>4, <1>5, <1>7 DEF Entry, Line, RouteName, sent
<1>8. CASE LeaveMetrics
  <2>1. /\ Depth = 4 /\ mode' = "out" /\ writers' = writers /\ logged' = logged
        /\ counted' = Append(counted, [route |-> RouteName(holder), status |-> sent.status])
    BY <1>1, <1>2, <1>8 DEF LeaveMetrics, Leaving
  <2>2. holder = Served
    BY <1>1 DEF Base, Carried
  <2>3. counted = <<>> /\ logged = <<>>
    BY <1>1, <2>1 DEF Tally
  <2>4. counted' = <<Entry>>
    BY <2>1, <2>2, <2>3 DEF Entry
  <2>5. Depth' = 3
    BY <1>3, <2>1
  <2>6. QED
    BY <1>7, <2>1, <2>3, <2>4, <2>5 DEF Tally
<1>9. CASE LeaveLogging
  <2>1. /\ Depth = 3 /\ mode' = "out" /\ writers' = writers /\ counted' = counted
        /\ logged' = Append(logged, [route |-> RouteName(Top.ctx.route), status |-> sent.status])
    BY <1>1, <1>2, <1>9 DEF LeaveLogging, Leaving
  <2>2. counted = <<Entry>> /\ logged = <<>>
    BY <1>1, <2>1 DEF Tally
  <2>3. logged' = <<Line>>
    <3>1. Top.ctx.route = 0
      <4>1. Top = stack[3]
        BY <2>1 DEF Top, Last, Depth
      <4>2. QED
        BY <2>1, <4>1 DEF Early
    <3>2. QED
      BY <2>1, <2>2, <3>1 DEF Line, RouteName
  <2>4. Depth' < 3
    BY <1>3, <2>1
  <2>5. QED
    BY <1>7, <2>1, <2>2, <2>3, <2>4 DEF Tally
<1>10. CASE LeaveOther
  <2>1. mode' = "out" /\ writers' = writers /\ counted' = counted /\ logged' = logged /\ Depth # 3 /\ Depth # 4
    BY <1>1, <1>2, <1>10, Types DEF LeaveOther, Leaving, records
  <2>2. CASE Depth > 4
    <3>1. counted' = <<>> /\ logged' = <<>> /\ Depth' >= 4
      BY <1>1, <1>2, <1>3, <2>1, <2>2 DEF Tally
    <3>2. QED
      BY <3>1 DEF Tally
  <2>3. CASE Depth < 3
    <3>1. counted = <<Entry>> /\ logged = <<Line>>
      BY <1>1, <1>2, <2>3 DEF Tally
    <3>2. Depth' < 3
      BY <1>2, <1>3, <2>3
    <3>3. QED
      BY <1>7, <2>1, <3>1, <3>2 DEF Tally
  <2>4. QED
    BY <1>2, <2>1, <2>2, <2>3
<1>11. QED
  BY <1>6, <1>8, <1>9, <1>10

\* The records are right after every step.
LEMMA TallyStep == ASSUME Base, Tally, Early, [Next]_vars PROVE Tally'
<1>1. CASE Calls
  BY <1>1, TallyQuiet DEF Calls, Call
<1>2. CASE Routes
  BY <1>2, TallyQuiet DEF Routes
<1>3. CASE Answers
  <2>1. Depth' = Depth
    BY <1>3, StopsKeep
  <2>2. QED
    BY <1>3, <2>1, TallyQuiet DEF Answers
<1>4. CASE Panics
  BY <1>4, TallyQuiet DEF Panics, Stop
<1>5. CASE Unwind
  BY <1>5, TallyQuiet DEF Unwind
<1>6. CASE Recovery
  <2>1. Depth' = 0
    BY <1>6, RecoveryKeeps
  <2>2. QED
    BY <1>6, <2>1, TallyQuiet DEF Recovery
<1>7. CASE Finish \/ UNCHANGED vars
  <2>1. /\ cfg' = cfg /\ req' = req /\ stack' = stack /\ writers' = writers
        /\ counted' = counted /\ logged' = logged
        /\ mode' = mode \/ (mode = "out" /\ mode' = "done" /\ stack = <<>>)
        /\ UNCHANGED given /\ ctx' = ctx
    BY <1>7 DEF Finish, vars, given, records
  <2>2. Depth' = Depth /\ Served' = Served
    BY <2>1, PathStays DEF Depth
  <2>3. Entry' = Entry /\ Line' = Line
    BY <2>1, <2>2 DEF Entry, Line, RouteName, sent
  <2>4. stack = <<>> => Depth = 0
    BY DEF Depth
  <2>5. CASE counted = <<>> /\ logged = <<>> /\ (mode = "out" => Depth >= 4 \/ Depth = 0)
    BY <2>1, <2>2, <2>5 DEF Tally
  <2>6. CASE counted = <<Entry>> /\ logged = <<>> /\ mode = "out" /\ Depth = 3
    <3>1. mode' = mode
      BY <2>1, <2>4, <2>6
    <3>2. QED
      BY <2>1, <2>2, <2>3, <2>6, <3>1 DEF Tally
  <2>7. CASE counted = <<Entry>> /\ logged = <<Line>> /\ mode \in {"out", "done"} /\ Depth < 3
    BY <2>1, <2>2, <2>3, <2>7 DEF Tally
  <2>8. QED
    BY <2>5, <2>6, <2>7 DEF Tally
<1>8. CASE ResponseTransform \/ LeaveLogging \/ LeaveMetrics \/ LeaveOther
  BY <1>8, TallyOut
<1>9. QED
  BY <1>1, <1>2, <1>3, <1>4, <1>5, <1>6, <1>7, <1>8,
     OuterCalls, RouterKind, CorsKind, AuthKind, LimitKind, TransformKind, ProxyKind DEF Next

\* What a layer was called with does not change.
LEMMA EarlyStep == ASSUME Base, Early, [Next]_vars PROVE Early'
<1>1. Shape /\ WellFormed /\ IsList(stack)
  BY DEF Base, Shape
<1>2. ASSUME stack' = stack PROVE Early'
  BY <1>2 DEF Early, Depth
<1>3. CASE Calls
  <2>1. mode = "in" /\ stack' = Append(stack, [layer |-> Head(todo), ctx |-> ctx])
    BY <1>3 DEF Calls, Call
  <2>2. /\ Depth' = Depth + 1 /\ Depth \in Nat
        /\ \A i \in 1..Depth : stack'[i] = stack[i]
        /\ stack'[Depth + 1].ctx = ctx
    BY <1>1, <2>1, ListAppend, ListSeq DEF Depth
  <2>3. Depth + 1 <= 4 => ctx.route = 0
    BY <1>1, <2>1, <2>2 DEF Shape
  <2>4. QED
    BY <2>2, <2>3 DEF Early
<1>4. ASSUME Pop, mode \in {"out", "panic"}, Depth > 0 PROVE Early'
  <2>1. Depth' = Depth - 1 /\ Depth \in Nat /\ \A i \in 1..Depth - 1 : stack'[i] = stack[i]
    BY <1>1, <1>4, ListFront, ListSeq DEF Pop, Rest, Depth
  <2>2. QED
    BY <2>1 DEF Early
<1>5. CASE Routes \/ Answers \/ Panics
  BY <1>2, <1>5 DEF Routes, Answers, Panics, Stop
<1>6. CASE Leaves \/ Breaks
  BY <1>4, <1>6 DEF Leaves, Breaks
<1>7. CASE Unwind \/ Recovery
  <2>1. mode = "panic" /\ Depth >= 1 /\ Pop
    BY <1>1, <1>7 DEF Unwind, Recovery, Shape
  <2>2. Depth \in Nat
    BY <1>1, ListSeq DEF Depth
  <2>3. QED
    BY <1>4, <2>1, <2>2
<1>8. CASE Finish \/ UNCHANGED vars
  BY <1>2, <1>8 DEF Finish, vars
<1>9. QED
  BY <1>3, <1>5, <1>6, <1>7, <1>8,
     OuterCalls, RouterKind, CorsKind, AuthKind, LimitKind, TransformKind, ProxyKind, OutKind DEF Next

\* Only the proxy writes before it panics, and what it has written is cut off.
LEMMA PanicBody ==
  ASSUME Base, [Next]_vars, mode # "panic", mode' = "panic", sent'.status # 0
  PROVE  sent'.body = Partial
<1>1. Queue(writers) /\ Responses /\ Shape /\ Width \in Nat
  BY DEF Base, Responses, Queue, Width
<1>2. mode = "in" => sent.status = 0
  BY <1>1 DEF Responses, Queue, Out, Last, Width, sent
<1>3. mode = "in" => sent' # sent
  BY <1>2
<1>4. ~Breaks
  <2> SUFFICES ASSUME Breaks PROVE FALSE
    OBVIOUS
  <2>1. mode = "out" /\ stack # <<>> /\ Buffers(Top.layer) /\ writers' = writers
    BY <1>1 DEF Breaks, Shape, Depth
  <2>2. Width > 1
    BY <2>1, HeldAtTop
  <2>3. sent.status = 0
    BY <1>1, <2>2 DEF Queue, Width, sent
  <2>4. QED
    BY <2>1, <2>3 DEF sent
<1>5. ASSUME RequestTransform PROVE FALSE
  <2>1. mode = "in" /\ (writers' = writers \/ mode' # "panic")
    BY <1>5, ZenonT(60) DEF RequestTransform, At, Call, Stop, Answer
  <2>2. QED
    BY <1>3, <2>1 DEF sent
<1>6. ASSUME Proxy PROVE sent'.body = Partial
  <2>1. mode = "in" /\ reply.status # 0 /\ Out.status = 0
    BY <1>1, <1>6 DEF Proxy, At, Base, WellFormed, Responses
  <2>2. writers' # writers
    BY <1>3, <2>1 DEF sent
  <2>3. PICK headers : writers' = Written(writers, stack, reply.status, headers, Partial)
    BY <1>6, <2>2, ZenonT(60) DEF Proxy, Stop, Answer
  <2>4. Settled(writers', writers, reply.status, Partial)
    BY <1>1, <2>1, <2>3, WrittenFacts
  <2>5. Width = 1
    <3>1. Width >= 1
      BY <1>1 DEF Queue, Width
    <3>2. Width > 1 => sent' = sent
      BY <1>1, <2>4 DEF Settled, Width, sent
    <3>3. QED
      BY <1>1, <1>3, <2>1, <3>1, <3>2
  <2>6. QED
    BY <2>1, <2>4, <2>5 DEF Settled, Last, Width, sent, Out
<1>7. CASE Next
  <2>1. CASE ResponseTransform \/ LeaveLogging \/ LeaveMetrics \/ LeaveOther
    BY <1>4, <2>1, OutKind DEF Leaves
  <2>2. CASE Unwind \/ Recovery \/ Finish
    BY <2>2 DEF Unwind, Recovery, Finish
  <2>3. CASE EnterOuter \/ EnterRequestID \/ EnterMetrics
    BY <2>3, OuterCalls DEF Calls, Call
  <2>4. CASE ServeHTTP
    BY <2>4, RouterKind DEF Routes, Answers, Stop
  <2>5. CASE CORSMiddleware \/ AuthMiddleware \/ RateLimitMiddleware
    BY <2>5, CorsKind, AuthKind, LimitKind DEF Calls, Call, Answers, Stop
  <2>6. QED
    BY <1>5, <1>6, <1>7, <2>1, <2>2, <2>3, <2>4, <2>5 DEF Next
<1>8. QED
  BY <1>7 DEF vars

\* Who is not counted has panicked.
LEMMA UncountedStep == ASSUME Base, Tally, Uncounted, [Next]_vars PROVE Uncounted'
<1>1. ASSUME mode' = "in" PROVE Uncounted'
  BY <1>1 DEF Uncounted
<1>2. ASSUME mode # "panic", mode' = "panic" PROVE Uncounted'
  BY <1>2, PanicBody DEF Uncounted
<1>3. CASE Calls \/ Routes
  BY <1>1, <1>3 DEF Calls, Call, Routes
<1>4. CASE Answers
  <2>1. Depth' >= 4 /\ mode' = "out" /\ Depth \in Nat
    BY <1>4, StopsKeep DEF Answers, Stop, Base, Shape, Depth, IsList
  <2>2. QED
    BY <2>1 DEF Uncounted
<1>5. CASE Panics
  BY <1>2, <1>5 DEF Panics, Stop
<1>6. CASE Unwind
  BY <1>6 DEF Unwind, Uncounted, Pop, sent
<1>7. CASE Recovery
  <2>1. mode = "panic" /\ mode' = "out" /\ Settled(writers', <<sent>>, 500, Recovered)
    BY <1>7, RecoveryKeeps DEF Recovery
  <2>2. Len(<<sent>>) = 1 /\ Last(<<sent>>) = sent /\ <<sent>>[1] = sent
    BY DEF Last
  <2>3. Last(writers') = sent'
    BY <2>1, <2>2 DEF Settled, Last, sent
  <2>4. CASE sent.status = 0
    BY <2>1, <2>2, <2>3, <2>4 DEF Settled, Uncounted
  <2>5. CASE sent.status # 0
    <3>1. sent' = sent /\ sent.body = Partial
      BY <2>1, <2>2, <2>5 DEF Settled, Uncounted, sent
    <3>2. QED
      BY <2>1, <3>1 DEF Uncounted
  <2>6. QED
    BY <2>4, <2>5
<1>8. CASE ResponseTransform \/ LeaveLogging \/ LeaveMetrics \/ LeaveOther
  <2>1. CASE mode' = "panic"
    BY <1>2, <1>8, <2>1 DEF ResponseTransform, LeaveLogging, LeaveMetrics, LeaveOther, Leaving
  <2>2. CASE mode' # "panic"
    <3>1. /\ mode = "out" /\ mode' = "out" /\ stack # <<>> /\ Depth' = Depth - 1
      BY <1>8, <2>2, OutKind, LeavesKeep
         DEF ResponseTransform, LeaveLogging, LeaveMetrics, LeaveOther, Leaving, Leaves, Breaks
    <3>2. Depth \in Nat /\ (LeaveMetrics => Depth = 4)
      BY <3>1, LeavingFacts DEF LeaveMetrics, Leaving
    <3>3. Depth' = 0 => counted' = counted
      <4>1. ResponseTransform \/ LeaveLogging \/ LeaveOther => counted' = counted
        BY DEF ResponseTransform, LeaveLogging, LeaveOther, records
      <4>2. Depth = 4 => Depth' # 0
        BY <3>1
      <4>3. QED
        BY <1>8, <3>2, <4>1, <4>2
    <3>4. Depth' = 0 => counted = <<Entry>>
      BY <3>1, <3>2 DEF Tally
    <3>5. QED
      BY <3>1, <3>3, <3>4 DEF Uncounted
  <2>3. QED
    BY <2>1, <2>2
<1>9. CASE Finish \/ UNCHANGED vars
  BY <1>9 DEF Finish, vars, Uncounted, Depth, sent, records
<1>10. QED
  BY <1>3, <1>4, <1>5, <1>6, <1>7, <1>8, <1>9,
     OuterCalls, RouterKind, CorsKind, AuthKind, LimitKind, TransformKind, ProxyKind DEF Next

\* A request is counted and logged once, with what the client was sent: counted
\* under the route that served it, logged under none; or not at all when it ended
\* in a panic, and then the client was sent the recovery's error or the start of a
\* reply.
THEOREM CountedRight == Spec => []CountedAsAnswered
<1> DEFINE I == Base /\ Tally /\ Early /\ Uncounted
<1>1. Init => I
  <2>1. Init => Tally
    BY DEF Init, Tally
  <2>2. Init => Early /\ Uncounted
    <3>1. Init => mode = "in" /\ stack = <<>>
      BY DEF Init
    <3>2. stack = <<>> => Depth = 0
      BY DEF Depth
    <3>3. QED
      BY <3>1, <3>2 DEF Early, Uncounted
  <2>3. QED
    BY <2>1, <2>2, BaseInit
<1>2. I /\ [Next]_vars => I'
  BY BaseStep, TallyStep, EarlyStep, UncountedStep
<1>3. I => CountedAsAnswered
  <2> SUFFICES ASSUME I PROVE CountedAsAnswered
    OBVIOUS
  <2>1. mode = "done" => Depth = 0
    BY DEF Base, Shape, Depth
  <2>2. CASE counted = <<>> /\ logged = <<>>
    BY <2>1, <2>2 DEF CountedAsAnswered, Uncounted
  <2>3. CASE counted = <<Entry>> /\ logged = <<>> /\ mode = "out"
    BY <2>3 DEF CountedAsAnswered, Entry
  <2>4. CASE counted = <<Entry>> /\ logged = <<Line>>
    BY <2>4 DEF CountedAsAnswered, Entry, Line
  <2>5. QED
    BY <2>2, <2>3, <2>4 DEF Tally
<1>4. QED
  BY <1>1, <1>2, <1>3, PTL DEF Spec

(***************************************************************************)
(* Preflights.                                                             *)
(***************************************************************************)

\* The scenario does not change, nor what hangs on it alone.
LEMMA GivenStays ==
  ASSUME [Next]_vars
  PROVE  /\ cfg' = cfg /\ req' = req /\ reply' = reply
         /\ Seen' = Seen /\ Served' = Served /\ Chain' = Chain /\ Inner' = Inner
<1>1. UNCHANGED given
  BY DEF Next, vars, EnterOuter, EnterRequestID, EnterMetrics, ServeHTTP, CORSMiddleware, AuthMiddleware,
         RateLimitMiddleware, RequestTransform, Proxy, ResponseTransform, LeaveLogging, LeaveMetrics,
         LeaveOther, Unwind, Recovery, Finish, Pop
<1>2. cfg' = cfg /\ req' = req /\ reply' = reply
  BY <1>1 DEF given
<1>3. Seen' = Seen
  BY <1>2 DEF Seen
<1>4. Served' = Served
  BY <1>2, <1>3, Zenon DEF Served
<1>5. Chain' = Chain
  BY <1>2, <1>4 DEF Chain
<1>6. Inner' = Inner
  BY <1>2, <1>4 DEF Inner
<1>7. QED
  BY <1>2, <1>3, <1>4, <1>5, <1>6

Asked ==
  /\ isPreflight(req)
  /\ Served # 0
  /\ \E i \in DOMAIN Chain : Chain[i].type = "cors"

\* A preflight for a route with CORS gets no further than the CORS layer.
Preflight ==
  Asked => /\ passed = <<>> /\ charged = <<>> /\ forwarded = <<>> /\ sent.status \in {0, 204}
           /\ Depth <= 4 /\ mode # "panic"

\* Validation lets a CORS middleware stand in the first place only, and then it
\* is the first layer of the route.
LEMMA CorsOutermost ==
  ASSUME WellFormed, Served # 0, NEW i \in DOMAIN Chain, Chain[i].type = "cors"
  PROVE  i = 1 /\ Len(Before) >= 1 /\ Inner[1] = Chain[1]
<1> DEFINE b == {j \in DOMAIN Chain : Chain[j].type # "transform"}
<1>1. IsList(Chain) /\ CorsFirst(Chain)
  BY ChainFacts
<1>2. i = 1 /\ 1 \in b
  BY <1>1 DEF CorsFirst
<1>3. b \subseteq 1..Len(Chain) /\ Len(Chain) \in Nat /\ b \subseteq DOMAIN Chain
  BY <1>1, ListSeq
<1>4. Before = Sieve(Chain, b)
  BY Zenon DEF Before, Guards
<1> HIDE DEF b
<1>5. /\ Len(Before) = Cardinality(b) /\ Cardinality(b) \in Nat
      /\ \A n \in 1..Len(Before) : Before[n] = Chain[Place(b, n)]
  BY <1>1, <1>3, <1>4, SieveFacts, PlaceFacts
<1>6. PICK n \in 1..Cardinality(b) : Place(b, n) = 1
  BY <1>2, <1>3, PlaceFacts
<1>7. n = 1
  <2> SUFFICES ASSUME 1 < n PROVE FALSE
    BY <1>5
  <2>1. 1 \in 1..Cardinality(b)
    BY <1>5
  <2>2. Place(b, 1) < Place(b, n) /\ Place(b, 1) \in b
    BY <1>3, <2>1, PlaceFacts
  <2>3. QED
    BY <1>3, <1>6, <2>2
<1>8. Len(Before) >= 1 /\ Before[1] = Chain[1]
  BY <1>5, <1>6, <1>7
<1>9. Inner[1] = Before[1]
  BY <1>5, <1>8, InnerFacts
<1>10. QED
  BY <1>2, <1>8, <1>9

\* The layer after the outer four, once the route is known.
LEMMA FirstInner ==
  ASSUME Base, Depth = 4, mode = "in", ctx.route # 0
  PROVE  Head(todo) = Inner[1]
<1>1. WellFormed /\ ctx.route = Served /\ Head(todo) = Path[Depth + 1]
  BY Position DEF Base, Shape
<1>2. Len(Inner) >= 1 /\ Len(Inner) \in Nat
  <2>1. Len(Inner) = Len(Before) + Len(Around) + 1 /\ IsList(Before) /\ IsList(Around)
    BY <1>1, InnerFacts
  <2>2. QED
    BY <2>1, ListSeq
<1>3. Path[4 + 1] = Inner[1]
  BY <1>1, <1>2, PathFacts
<1>4. QED
  BY <1>1, <1>3

\* A preflight stays one with its id.
LEMMA StillPreflight ==
  ASSUME WellFormed, isPreflight(req), cur.method = req.method, cur.headers = Seen.headers
  PROVE  isPreflight(cur)
<1>1. Seen.headers = Set(req.headers, "X-Request-ID", RequestID(req.headers))
  BY SeenFacts
<1>2. ASSUME NEW name \in {"Origin", "Access-Control-Request-Method"}
      PROVE  Get(cur.headers, name) = Get(req.headers, name)
  BY <1>1 DEF Get, Set
<1>3. QED
  BY <1>2 DEF isPreflight

\* With one response the innermost one is the client's.
LEMMA OnlyOne ==
  ASSUME Base, mode # "panic", Depth \in 0..4
  PROVE  Width = 1 /\ Out = sent
<1>1. HeldBack(Path, Depth) = 0
  BY NoneHeld DEF Base, Shape
<1>2. Width = 1
  BY <1>1 DEF Base, Responses
<1>3. QED
  BY <1>2 DEF Width, Out, Last, sent

\* Setting a header of any response leaves the client's status and body.
LEMMA SentMarked ==
  ASSUME Base, Marked(writers', writers)
  PROVE  sent'.status = sent.status /\ sent'.body = sent.body
<1>1. 1 \in 1..Len(writers)
  BY DEF Base, Responses, Queue
<1>2. QED
  BY <1>1 DEF Marked, sent

\* No step takes a preflight further.
LEMMA PreflightStep == ASSUME Base, Preflight, [Next]_vars PROVE Preflight'
<1> SUFFICES ASSUME Asked
             PROVE  Preflight'
  <2>1. Asked' => Asked
    BY GivenStays DEF Asked
  <2>2. QED
    BY <2>1 DEF Preflight
<1> DEFINE free == /\ passed = <<>> /\ charged = <<>> /\ forwarded = <<>> /\ sent.status \in {0, 204}
                   /\ Depth <= 4 /\ mode # "panic"
<1> SUFFICES free'
  BY DEF Preflight
<1>1. WellFormed /\ Shape /\ Carried /\ Responses
  BY DEF Base
<1>2. free
  BY DEF Preflight
<1>3. Depth \in Nat /\ Served # 0
  BY <1>1, Position DEF Asked
<1>4. ASSUME NEW type \in {"auth", "rate_limit", "transform", "proxy"}, At(type) PROVE FALSE
  <2>1. mode = "in" /\ Depth >= 4 /\ ctx.route # 0 /\ Head(todo).type = type
    BY <1>4, Entering, Types
  <2>2. Head(todo) = Inner[1]
    BY <1>2, <1>3, <2>1, FirstInner
  <2>3. Inner[1].type = "cors"
    BY <1>1, CorsOutermost DEF Asked
  <2>4. QED
    BY <1>4, <2>1, <2>2, <2>3
<1>5. CASE EnterOuter \/ EnterRequestID \/ EnterMetrics
  <2>1. /\ mode = "in" /\ Depth < 4 /\ Head(todo).type \notin DOMAIN Zero
    BY <1>5, Entering, Types DEF EnterOuter, EnterRequestID, EnterMetrics
  <2>2. Calls
    BY <1>5, OuterCalls
  <2>3. charged' = charged /\ forwarded' = forwarded /\ passed' = passed /\ mode' = mode
    BY <1>5, <2>1 DEF EnterOuter, EnterRequestID, EnterMetrics, Call
  <2>4. Depth' = Depth + 1
    BY <2>2, CallsKeep
  <2>5. Marked(writers', writers)
    BY <2>1, <2>2, Types DEF Calls, Buffers
  <2>6. sent'.status = sent.status
    BY <2>5, SentMarked
  <2>7. QED
    BY <1>2, <1>3, <2>1, <2>3, <2>4, <2>6
<1>6. CASE ServeHTTP
  <2>1. At("router")
    BY <1>6 DEF ServeHTTP
  <2>2. firstMatch(cfg.routes, cur) = Served
    BY <1>1, <2>1, RouterFinds
  <2>3. UNCHANGED <<mode, stack, writers, passed>> /\ UNCHANGED <<charged, forwarded>>
    BY <1>3, <1>6, <2>2 DEF ServeHTTP
  <2>4. QED
    BY <1>2, <2>3 DEF sent, Depth
<1>7. CASE CORSMiddleware
  <2>1. At("cors") /\ UNCHANGED <<charged, forwarded>>
    BY <1>7 DEF CORSMiddleware
  <2>2. mode = "in" /\ Depth = 4 /\ Head(todo).type = "cors"
    <3>1. mode = "in" /\ Depth >= 4 /\ Head(todo).type = "cors"
      BY <2>1, Entering, Types
    <3>2. QED
      BY <1>2, <1>3, <3>1
  <2>3. cur.headers = Seen.headers /\ cur.method = req.method
    <3>1. Depth >= 2 /\ Head(todo).type \notin {"transform", "proxy"}
      BY <2>2
    <3>2. cur.headers = Seen.headers
      BY <1>1, <2>2, <3>1, Unrewritten
    <3>3. QED
      BY <1>1, <3>2 DEF Carried, Fixed
  <2>4. isPreflight(cur)
    BY <1>1, <2>3, StillPreflight DEF Asked
  <2>5. PICK headers : writers' = Written(writers, stack, 204, headers, <<>>) /\ Stop("out")
    BY <1>7, <2>4 DEF CORSMiddleware
  <2>6. Settled(writers', writers, 204, <<>>)
    BY <1>1, <2>5, WrittenFacts DEF Responses
  <2>7. Width = 1 /\ Out.status = 0
    BY <1>1, <2>2, OnlyOne DEF Responses
  <2>8. Last(writers').status = 204 /\ Len(writers') = Width
    BY <2>6, <2>7 DEF Settled, Out, Width
  <2>9. sent'.status = 204
    BY <2>7, <2>8 DEF Last, sent
  <2>10. QED
    BY <1>2, <2>1, <2>5, <2>9 DEF Stop, Depth
<1>8. CASE AuthMiddleware \/ RateLimitMiddleware \/ RequestTransform \/ Proxy
  BY <1>4, <1>8 DEF AuthMiddleware, RateLimitMiddleware, RequestTransform, Proxy
<1>9. CASE ResponseTransform
  <2>1. mode = "out" /\ stack # <<>> /\ Top.layer.type = "transform"
    BY <1>9 DEF ResponseTransform, Leaving
  <2>2. Depth > 4
    BY <2>1, LeavingFacts, Types
  <2>3. QED
    BY <1>2, <1>3, <2>2
<1>10. CASE LeaveLogging \/ LeaveMetrics \/ LeaveOther
  <2>1. Pop /\ UNCHANGED <<mode, writers>>
    BY <1>10 DEF LeaveLogging, LeaveMetrics, LeaveOther
  <2>2. Depth' = Depth - 1
    BY <1>10, OutKind, LeavesKeep
  <2>3. QED
    BY <1>2, <1>3, <2>1, <2>2 DEF Pop, sent
<1>11. CASE Unwind \/ Recovery
  BY <1>2, <1>11 DEF Unwind, Recovery
<1>12. CASE Finish \/ UNCHANGED vars
  BY <1>2, <1>12 DEF Finish, vars, sent, Depth
<1>13. QED
  BY <1>5, <1>6, <1>7, <1>8, <1>9, <1>10, <1>11, <1>12 DEF Next

\* Under every configuration that passes validation, a preflight for a route with
\* CORS is answered 204, before it is authenticated, charged or transformed.
THEOREM PreflightsFree == Spec => []PreflightFree
<1> DEFINE I == Base /\ Preflight
<1>1. Init => I
  <2>1. ASSUME Init PROVE Preflight
    <3>1. Depth = 0 /\ sent.status = 0
      BY <2>1 DEF Init, Depth, sent, Unwritten
    <3>2. passed = <<>> /\ charged = <<>> /\ forwarded = <<>> /\ mode = "in"
      BY <2>1 DEF Init
    <3>3. QED
      BY <3>1, <3>2 DEF Preflight
  <2>2. QED
    BY <2>1, BaseInit
<1>2. I /\ [Next]_vars => I'
  BY BaseStep, PreflightStep
<1>3. I => PreflightFree
  BY DEF Preflight, PreflightFree, Asked
<1>4. QED
  BY <1>1, <1>2, <1>3, PTL DEF Spec

(***************************************************************************)
(* What has let the request through.                                       *)
(***************************************************************************)

\* The middlewares that let the request through are the first of its route's
\* layers, all that have been entered while it is on its way in.
Passage ==
  /\ IsList(passed) /\ Len(passed) \in Nat /\ Len(passed) + 4 < Len(Path)
  /\ \A i \in 1..Len(passed) : passed[i] = Path[4 + i]
  /\ mode = "in" => Len(passed) = IF Depth >= 4 THEN Depth - 4 ELSE 0

\* One layer more, or none.
LEMMA PassageStep == ASSUME Base, Passage, [Next]_vars PROVE Passage'
<1>1. CASE Calls
  <2>1. Path' = Path /\ Depth' = Depth + 1
    BY <1>1, CallsKeep
  <2>2. /\ mode = "in" /\ mode' = "in" /\ Head(todo).type \notin {"router", "proxy"}
        /\ passed' = IF Head(todo).type \in DOMAIN Zero THEN Append(passed, Head(todo)) ELSE passed
    BY <1>1 DEF Calls, Call
  <2>3. /\ Head(todo) = Path[Depth + 1] /\ Depth + 1 \in 1..Len(Path) /\ Depth \in Nat /\ Len(Path) \in Nat
        /\ Len(Path) >= 5
    BY <2>2, Position DEF Base
  <2>4. /\ Path[Depth + 1].type = "router" <=> Depth + 1 = 5 /\ ctx.route = 0
        /\ Path[Depth + 1].type = "proxy" <=> Depth + 1 = Len(Path) /\ ctx.route # 0
        /\ Path[Depth + 1].type \in DOMAIN Zero <=> Depth + 1 \in 5..Len(Path) - 1
    BY <2>3, LayerAt DEF Base, Shape
  <2>5. CASE Depth >= 4
    <3>1. Depth + 1 \in 5..Len(Path) - 1
      <4>1. ctx.route = 0 => Len(Path) = 5
        BY PathFacts DEF Base, Shape
      <4>2. Depth + 1 # Len(Path)
        BY <2>2, <2>3, <2>4, <2>5, <4>1
      <4>3. QED
        BY <2>3, <2>5, <4>2
    <3>2. passed' = Append(passed, Path[Depth + 1])
      BY <2>2, <2>3, <2>4, <3>1
    <3>3. IsList(passed) /\ Len(passed) = Depth - 4 /\ \A i \in 1..Len(passed) : passed[i] = Path[4 + i]
      BY <2>2, <2>5 DEF Passage
    <3>4. /\ IsList(passed') /\ Len(passed') = Len(passed) + 1
          /\ \A i \in 1..Len(passed) : passed'[i] = passed[i]
          /\ passed'[Len(passed) + 1] = Path[Depth + 1]
      BY <3>2, <3>3, ListAppend
    <3>5. \A i \in 1..Len(passed') : passed'[i] = Path[4 + i]
      <4> SUFFICES ASSUME NEW i \in 1..Len(passed') PROVE passed'[i] = Path[4 + i]
        OBVIOUS
      <4>1. CASE i = Len(passed) + 1
        <5>1. 4 + i = Depth + 1
          BY <2>3, <3>3, <4>1
        <5>2. QED
          BY <3>4, <4>1, <5>1
      <4>2. CASE i \in 1..Len(passed)
        BY <3>3, <3>4, <4>2
      <4>3. QED
        BY <2>3, <2>5, <3>3, <3>4, <4>1, <4>2
    <3>6. Len(passed') \in Nat /\ Len(passed') + 4 < Len(Path) /\ Len(passed') = Depth' - 4 /\ Depth' >= 4
      BY <2>1, <2>3, <2>5, <3>1, <3>3, <3>4
    <3>7. QED
      BY <2>1, <3>4, <3>5, <3>6 DEF Passage
  <2>6. CASE ~(Depth >= 4)
    <3>1. passed' = passed
      BY <2>2, <2>3, <2>4, <2>6
    <3>2. Len(passed) = 0
      BY <2>2, <2>6 DEF Passage
    <3>3. (IF Depth' >= 4 THEN Depth' - 4 ELSE 0) = 0
      BY <2>1, <2>3, <2>6
    <3>4. QED
      BY <2>1, <3>1, <3>2, <3>3 DEF Passage
  <2>7. QED
    BY <2>5, <2>6
<1>2. CASE Routes
  <2>1. mode = "in" /\ Depth = 4 /\ passed' = passed /\ mode' = "in"
    BY <1>2 DEF Routes
  <2>2. Base' /\ Depth' = Depth
    BY <1>2, RoutesKeep
  <2>3. Len(passed) = 0 /\ IsList(passed)
    BY <2>1 DEF Passage
  <2>4. (Len(Path) \in Nat /\ Len(Path) >= 5)'
    <3>1. (WellFormed /\ Shape)'
      BY <2>2 DEF Base
    <3>2. ASSUME WellFormed, Shape PROVE Len(Path) \in Nat /\ Len(Path) >= 5
      BY <3>2, Position
    <3>3. QED
      BY <3>1, Position, PTL
  <2>5. QED
    BY <2>1, <2>2, <2>3, <2>4 DEF Passage
<1>3. CASE Answers \/ Panics
  <2>1. Path' = Path /\ passed' = passed /\ mode' # "in"
    BY <1>3, StopsKeep DEF Answers, Panics, Stop
  <2>2. QED
    BY <2>1 DEF Passage
<1>4. CASE Leaves \/ Breaks
  <2>1. Path' = Path /\ passed' = passed /\ mode' # "in"
    BY <1>4, LeavesKeep DEF Leaves, Breaks, Pop
  <2>2. QED
    BY <2>1 DEF Passage
<1>5. CASE Unwind \/ Recovery
  <2>1. Path' = Path /\ passed' = passed /\ mode' # "in"
    BY <1>5, UnwindKeeps, RecoveryKeeps DEF Unwind, Recovery, Pop
  <2>2. QED
    BY <2>1 DEF Passage
<1>6. CASE Finish \/ UNCHANGED vars
  <2>1. Path' = Path /\ passed' = passed /\ (mode' = mode \/ mode' = "done") /\ Depth' = Depth
    BY <1>6, RestKeeps DEF Finish, vars, Depth
  <2>2. QED
    BY <2>1 DEF Passage
<1>7. QED
  BY <1>1, <1>2, <1>3, <1>4, <1>5, <1>6,
     OuterCalls, RouterKind, CorsKind, AuthKind, LimitKind, TransformKind, ProxyKind, OutKind DEF Next

\* Nothing has let it through at first.
LEMMA PassageInit == ASSUME Init PROVE Passage
<1>1. passed = <<>> /\ mode = "in" /\ stack = <<>>
  BY DEF Init
<1>2. Base /\ Depth = 0
  BY <1>1, BaseInit DEF Depth
<1>3. Len(Path) \in Nat /\ Len(Path) >= 5
  BY <1>2, Position DEF Base
<1>4. <<>> \in Seq({0}) /\ Len(<<>>) = 0
  OBVIOUS
<1>5. IsList(passed) /\ Len(passed) = 0
  BY <1>1, <1>4, SeqList
<1>6. QED
  BY <1>2, <1>3, <1>5 DEF Passage

\* At the proxy every middleware of the route has let it through.
LEMMA AtProxy ==
  ASSUME Base, Passage, At("proxy")
  PROVE  /\ WellFormed /\ Served # 0
         /\ Joined(passed, Before, Around)
<1>1. mode = "in" /\ Depth >= 4 /\ ctx.route # 0 /\ ctx.route = Served /\ Head(todo).type = "proxy" /\ WellFormed
  BY Entering DEF Base
<1>2. /\ Head(todo) = Path[Depth + 1] /\ Depth + 1 \in 1..Len(Path) /\ Depth \in Nat
  BY <1>1, Position DEF Base
<1>3. Depth + 1 = Len(Path)
  BY <1>1, <1>2, LayerAt
<1>4. Len(Path) = 4 + Len(Inner) /\ \A i \in 1..Len(Inner) : Path[4 + i] = Inner[i]
  BY <1>1, PathFacts
<1>5. /\ IsList(Before) /\ IsList(Around)
      /\ Len(Inner) = Len(Before) + Len(Around) + 1
      /\ \A i \in 1..Len(Before) : Inner[i] = Before[i]
      /\ \A i \in 1..Len(Around) : Inner[Len(Before) + i] = Around[i]
  BY <1>1, InnerFacts
<1>6. Len(Before) \in Nat /\ Len(Around) \in Nat
  BY <1>5, ListSeq
<1>7. Len(passed) = Depth - 4 /\ IsList(passed) /\ \A i \in 1..Len(passed) : passed[i] = Path[4 + i]
  BY <1>1 DEF Passage
<1>8. Len(passed) = Len(Before) + Len(Around)
  BY <1>2, <1>3, <1>4, <1>5, <1>6, <1>7
<1>9. \A i \in 1..Len(passed) : passed[i] = Inner[i]
  BY <1>4, <1>5, <1>6, <1>7, <1>8
<1>10. \A i \in 1..Len(Before) : passed[i] = Before[i]
  BY <1>5, <1>6, <1>8, <1>9
<1>11. \A i \in 1..Len(Around) : passed[Len(Before) + i] = Around[i]
  BY <1>5, <1>6, <1>8, <1>9
<1>12. QED
  BY <1>1, <1>7, <1>8, <1>10, <1>11 DEF Joined

(***************************************************************************)
(* Guards.                                                                 *)
(***************************************************************************)

Named(s, n) == {i \in DOMAIN s : s[i].name = n}
Times(s, n) == Cardinality(Named(s, n))

\* Sets whose elements stand for each other are of one size.
LEMMA SameSize ==
  ASSUME NEW S, NEW T, IsFiniteSet(S), NEW f \in [S -> T],
         \A i, j \in S : f[i] = f[j] => i = j,
         \A k \in T : \E i \in S : f[i] = k
  PROVE  IsFiniteSet(T) /\ Cardinality(T) = Cardinality(S)
<1>1. f \in Bijection(S, T)
  BY DEF Bijection, Injection, IsInjective, Surjection
<1>2. ExistsBijection(S, T)
  BY <1>1, Zenon DEF ExistsBijection
<1>3. QED
  BY <1>2, FS_Bijection

\* The places of a list are finitely many.
LEMMA SomePlaces ==
  ASSUME NEW s, IsList(s), NEW S, S \subseteq DOMAIN s
  PROVE  IsFiniteSet(S) /\ Cardinality(S) \in Nat
<1>1. DOMAIN s = 1..Len(s) /\ Len(s) \in Nat
  BY ListSeq
<1>2. S \subseteq 1..Len(s)
  BY <1>1
<1>3. QED
  BY <1>1, <1>2, RankFacts

\* A name is as often in two lists joined as in the one and in the other.
LEMMA TimesJoined ==
  ASSUME NEW s, IsList(s), NEW t, IsList(t), NEW u, Joined(u, s, t), NEW n
  PROVE  Times(s, n) \in Nat /\ Times(t, n) \in Nat /\ Times(u, n) = Times(s, n) + Times(t, n)
<1> DEFINE A == Named(s, n)
           T == Named(t, n)
           B == {i \in Named(u, n) : i > Len(s)}
           f == [j \in T |-> Len(s) + j]
<1>1. /\ DOMAIN s = 1..Len(s) /\ Len(s) \in Nat /\ DOMAIN t = 1..Len(t) /\ Len(t) \in Nat
      /\ IsList(u)
  BY ListSeq DEF Joined
<1>2. DOMAIN u = 1..Len(s) + Len(t)
  BY <1>1, ListSeq DEF Joined
<1>3. /\ \A i \in 1..Len(s) : u[i] = s[i]
      /\ \A i \in 1..Len(t) : u[Len(s) + i] = t[i]
  BY DEF Joined
<1>4. /\ \A i : i \in A <=> i \in 1..Len(s) /\ s[i].name = n
      /\ \A i : i \in T <=> i \in 1..Len(t) /\ t[i].name = n
      /\ \A i : i \in B <=> i \in 1..Len(s) + Len(t) /\ i > Len(s) /\ u[i].name = n
      /\ \A i : i \in Named(u, n) <=> i \in 1..Len(s) + Len(t) /\ u[i].name = n
  BY <1>1, <1>2, Zenon DEF Named
<1>5. /\ IsFiniteSet(A) /\ Cardinality(A) \in Nat /\ IsFiniteSet(T) /\ Cardinality(T) \in Nat
  <2>1. A \subseteq DOMAIN s /\ T \subseteq DOMAIN t
    BY DEF Named
  <2>2. QED
    BY <2>1, SomePlaces
<1> HIDE DEF A, T, B
<1>6. f \in [T -> B]
  <2>1. ASSUME NEW j \in T PROVE Len(s) + j \in B
    <3>1. j \in 1..Len(t) /\ t[j].name = n
      BY <1>4
    <3>2. Len(s) + j \in 1..Len(s) + Len(t) /\ Len(s) + j > Len(s)
      BY <1>1, <3>1
    <3>3. QED
      BY <1>3, <1>4, <3>1, <3>2
  <2>2. QED
    BY <2>1
<1>7. \A i, j \in T : f[i] = f[j] => i = j
  BY <1>1, <1>4
<1>8. \A k \in B : \E i \in T : f[i] = k
  <2> SUFFICES ASSUME NEW k \in B PROVE \E i \in T : f[i] = k
    OBVIOUS
  <2>1. k \in 1..Len(s) + Len(t) /\ k > Len(s) /\ u[k].name = n
    BY <1>4
  <2>2. k - Len(s) \in 1..Len(t) /\ Len(s) + (k - Len(s)) = k
    BY <1>1, <2>1
  <2>3. k - Len(s) \in T
    BY <1>3, <1>4, <2>1, <2>2
  <2>4. f[k - Len(s)] = k
    BY <2>2, <2>3
  <2>5. QED
    BY <2>3, <2>4
<1>9. IsFiniteSet(B) /\ Cardinality(B) = Cardinality(T)
  <2> HIDE DEF f
  <2>1. QED
    BY <1>5, <1>6, <1>7, <1>8, SameSize
<1>10. Named(u, n) = A \cup B
  <2>1. ASSUME NEW i PROVE i \in Named(u, n) <=> i \in A \/ i \in B
    <3>1. CASE i \in 1..Len(s)
      <4>1. i \in 1..Len(s) + Len(t) /\ ~(i > Len(s))
        BY <1>1, <3>1
      <4>2. QED
        BY <1>3, <1>4, <3>1, <4>1
    <3>2. CASE i \notin 1..Len(s)
      <4>1. i \in 1..Len(s) + Len(t) => i > Len(s)
        BY <1>1, <3>2
      <4>2. QED
        BY <1>4, <3>2, <4>1
    <3>3. QED
      BY <3>1, <3>2
  <2>2. QED
    BY <2>1
<1>11. A \cap B = {}
  BY <1>1, <1>4
<1>12. Cardinality(A \cup B) = Cardinality(A) + Cardinality(B) - Cardinality(A \cap B)
  BY <1>5, <1>9, FS_Union
<1>13. Cardinality(Named(u, n)) = Cardinality(A) + Cardinality(T)
  <2>1. Cardinality(A \cap B) = 0
    BY <1>11, FS_EmptySet, Zenon
  <2>2. Cardinality(Named(u, n)) = Cardinality(A \cup B)
    BY <1>10, Zenon
  <2>3. QED
    BY <1>5, <1>9, <1>12, <2>1, <2>2
<1>14. QED
  BY <1>5, <1>13 DEF Times, A, T

\* A name is as often in what a sieve leaves as in the places that are kept.
LEMMA TimesSieve ==
  ASSUME NEW s, IsList(s), NEW keep, keep \subseteq DOMAIN s, NEW n
  PROVE  Times(Sieve(s, keep), n) = Cardinality({i \in keep : s[i].name = n})
<1> DEFINE u == Sieve(s, keep)
           S == Named(u, n)
           T == {i \in keep : s[i].name = n}
           f == [m \in S |-> Place(keep, m)]
<1>1. Len(s) \in Nat /\ keep \subseteq 1..Len(s)
  BY ListSeq
<1>2. /\ Cardinality(keep) \in Nat
      /\ \A k \in 1..Cardinality(keep) : Place(keep, k) \in keep
      /\ \A k, m \in 1..Cardinality(keep) : k < m => Place(keep, k) < Place(keep, m)
      /\ \A i \in keep : \E k \in 1..Cardinality(keep) : Place(keep, k) = i
  BY <1>1, PlaceFacts
<1>3. /\ IsList(u) /\ Len(u) = Cardinality(keep)
      /\ \A k \in 1..Len(u) : u[k] = s[Place(keep, k)]
  BY SieveFacts
<1> HIDE DEF u
<1>4. \A k : k \in S <=> k \in 1..Cardinality(keep) /\ s[Place(keep, k)].name = n
  <2>1. DOMAIN u = 1..Cardinality(keep)
    BY <1>3, ListSeq
  <2>2. QED
    BY <1>3, <2>1 DEF Named
<1>5. IsFiniteSet(S)
  <2>1. S \subseteq DOMAIN u
    BY DEF Named
  <2>2. QED
    BY <1>3, <2>1, SomePlaces
<1> HIDE DEF S
<1>6. f \in [S -> T]
  BY <1>2, <1>4
<1>7. \A k, m \in S : f[k] = f[m] => k = m
  <2> SUFFICES ASSUME NEW k \in S, NEW m \in S, Place(keep, k) = Place(keep, m), k # m PROVE FALSE
    OBVIOUS
  <2>1. k \in 1..Cardinality(keep) /\ m \in 1..Cardinality(keep)
    BY <1>4
  <2>2. k < m \/ m < k
    BY <2>1
  <2>3. Place(keep, k) \in Int
    BY <1>1, <1>2, <2>1
  <2>4. QED
    BY <1>2, <2>1, <2>2, <2>3
<1>8. \A i \in T : \E k \in S : f[k] = i
  BY <1>2, <1>4
<1>9. Cardinality(T) = Cardinality(S)
  <2> HIDE DEF T, f
  <2>1. QED
    BY <1>5, <1>6, <1>7, <1>8, SameSize
<1>10. QED
  BY <1>9 DEF Times, S, u

\* What a sieve leaves stands in the order of the list.
LEMMA SieveOrder ==
  ASSUME NEW s, IsList(s), NEW keep, keep \subseteq DOMAIN s, NEW u, u = Sieve(s, keep),
         NEW i \in 1..Len(u), NEW j \in 1..Len(u), i < j
  PROVE  \E k, l \in DOMAIN s : k < l /\ s[k] = u[i] /\ s[l] = u[j]
<1>1. Len(s) \in Nat /\ keep \subseteq 1..Len(s)
  BY ListSeq
<1>2. /\ Len(u) = Cardinality(keep)
      /\ u[i] = s[Place(keep, i)] /\ Place(keep, i) \in keep
      /\ u[j] = s[Place(keep, j)] /\ Place(keep, j) \in keep
  BY SieveFacts
<1>3. Place(keep, i) < Place(keep, j)
  BY <1>1, <1>2, PlaceFacts
<1>4. QED
  BY <1>2, <1>3

\* The guards and the transforms of a route are its chain in two parts, each in
\* the order of the chain.
LEMMA TwoParts ==
  ASSUME WellFormed, Served # 0
  PROVE  /\ \A n : Times(Chain, n) = Times(Before, n) + Times(Around, n)
         /\ \A i, j \in 1..Len(Before) : i < j =>
              \E k, l \in DOMAIN Chain : k < l /\ Chain[k] = Before[i] /\ Chain[l] = Before[j]
         /\ \A i, j \in 1..Len(Around) : i < j =>
              \E k, l \in DOMAIN Chain : k < l /\ Chain[k] = Around[i] /\ Chain[l] = Around[j]
<1> DEFINE b == {i \in DOMAIN Chain : Chain[i].type # "transform"}
           t == {i \in DOMAIN Chain : Chain[i].type = "transform"}
<1>1. IsList(Chain)
  BY ChainFacts
<1>2. Before = Sieve(Chain, b) /\ b \subseteq DOMAIN Chain
  BY Zenon DEF Before, Guards
<1>3. Around = Sieve(Chain, t) /\ t \subseteq DOMAIN Chain
  BY Zenon DEF Around, Transforms
<1>4. ASSUME NEW n PROVE Times(Chain, n) = Times(Before, n) + Times(Around, n)
  <2> DEFINE B == {i \in b : Chain[i].name = n}
             T == {i \in t : Chain[i].name = n}
  <2>1. Named(Chain, n) = B \cup T /\ B \cap T = {}
    BY DEF Named
  <2>2. B \subseteq DOMAIN Chain /\ T \subseteq DOMAIN Chain
    OBVIOUS
  <2>3. Times(Before, n) = Cardinality(B) /\ Times(Around, n) = Cardinality(T)
    <3> HIDE DEF b, t
    <3>1. QED
      BY <1>1, <1>2, <1>3, TimesSieve
  <2> HIDE DEF B, T
  <2>4. IsFiniteSet(B) /\ IsFiniteSet(T) /\ Cardinality(B) \in Nat /\ Cardinality(T) \in Nat
    BY <1>1, <2>2, SomePlaces
  <2>5. Cardinality(B \cup T) = Cardinality(B) + Cardinality(T) - Cardinality(B \cap T)
    BY <2>4, FS_Union
  <2>6. Cardinality(B \cap T) = 0
    BY <2>1, FS_EmptySet, Zenon
  <2>7. Times(Chain, n) = Cardinality(B \cup T)
    BY <2>1, Zenon DEF Times
  <2>8. QED
    BY <2>3, <2>4, <2>5, <2>6, <2>7
<1> HIDE DEF b, t
<1>5. ASSUME NEW i \in 1..Len(Before), NEW j \in 1..Len(Before), i < j
      PROVE  \E k, l \in DOMAIN Chain : k < l /\ Chain[k] = Before[i] /\ Chain[l] = Before[j]
  BY <1>1, <1>2, <1>5, SieveOrder
<1>6. ASSUME NEW i \in 1..Len(Around), NEW j \in 1..Len(Around), i < j
      PROVE  \E k, l \in DOMAIN Chain : k < l /\ Chain[k] = Around[i] /\ Chain[l] = Around[j]
  BY <1>1, <1>3, <1>6, SieveOrder
<1>7. QED
  BY <1>4, <1>5, <1>6

\* A middleware is in the chain of a route as often as the configuration lists it.
LEMMA ListedTimes ==
  ASSUME WellFormed, Served # 0, NEW n
  PROVE  LET route == cfg.routes[Served]
             Listed(refs) == Cardinality({i \in DOMAIN refs : refs[i].ref = n})
         IN  Times(Chain, n) = Listed(route.middlewares)
                               + (IF n \in route.skip THEN 0 ELSE Listed(cfg.middlewares))
<1> DEFINE left == Sieve(Globals, Kept)
           own == cfg.routes[Served].middlewares
           Refs(refs) == {i \in DOMAIN refs : refs[i].ref = n}
           K == {i \in Kept : Globals[i].name = n}
<1>1. /\ Served \in DOMAIN cfg.routes
      /\ IsList(Globals) /\ IsList(Own) /\ IsList(left)
      /\ DOMAIN Globals = DOMAIN cfg.middlewares
      /\ Kept \subseteq DOMAIN Globals
      /\ Chain = left \o Own
  BY ChainParts
<1>2. Joined(Chain, left, Own)
  <2> HIDE DEF left
  <2>1. QED
    BY <1>1, JoinFacts, Zenon
<1>3. Times(left, n) \in Nat /\ Times(Own, n) \in Nat /\ Times(Chain, n) = Times(left, n) + Times(Own, n)
  <2> HIDE DEF left
  <2>1. QED
    BY <1>1, <1>2, TimesJoined
<1>4. Times(Own, n) = Cardinality(Refs(own))
  <2>1. IsList(own)
    BY <1>1 DEF WellFormed
  <2>2. DOMAIN Own = DOMAIN own /\ \A i \in DOMAIN own : Own[i].name = own[i].ref
    BY <2>1, ResolvedFacts DEF Own
  <2>3. Named(Own, n) = Refs(own)
    BY <2>2 DEF Named
  <2>4. QED
    BY <2>3 DEF Times
<1>5. Times(left, n) = Cardinality(K)
  BY <1>1, TimesSieve
<1>6. \A i \in DOMAIN cfg.middlewares : Globals[i].name = cfg.middlewares[i].ref
  BY ResolvedFacts DEF WellFormed, Globals
<1>7. CASE n \in cfg.routes[Served].skip
  <2>1. K = {}
    BY <1>1, <1>6, <1>7 DEF Kept
  <2>2. Times(left, n) = 0
    BY <1>5, <2>1, FS_EmptySet, Zenon
  <2>3. QED
    BY <1>3, <1>4, <1>7, <2>2
<1>8. CASE n \notin cfg.routes[Served].skip
  <2>1. K = Refs(cfg.middlewares)
    BY <1>1, <1>6, <1>8 DEF Kept
  <2>2. Times(left, n) = Cardinality(Refs(cfg.middlewares))
    BY <1>5, <2>1, Zenon
  <2>3. QED
    BY <1>3, <1>4, <1>8, <2>2
<1>9. QED
  BY <1>7, <1>8

\* No request reaches the proxy past a middleware of its route: each has let it
\* through as often as it is listed, those that may refuse it first.
THEOREM GuardsPassed == Spec => []GuardsBeforeUpstream
<1>1. Init => Base /\ Passage
  BY BaseInit, PassageInit
<1>2. Base /\ Passage /\ [Next]_vars => (Base /\ Passage)'
  BY BaseStep, PassageStep
<1>3. Base /\ Passage => GuardsBeforeUpstream
  <2> SUFFICES ASSUME Base, Passage, At("proxy") PROVE GuardsBeforeUpstream
    BY DEF GuardsBeforeUpstream, UpstreamCalled
  <2>1. WellFormed /\ Served # 0 /\ Joined(passed, Before, Around)
    BY AtProxy
  <2>2. IsList(Before) /\ IsList(Around)
    BY <2>1, InnerFacts
  <2>3. /\ Len(Before) \in Nat /\ Len(Around) \in Nat
        /\ DOMAIN passed = 1..Len(Before) + Len(Around)
    BY <2>1, <2>2, ListSeq DEF Joined
  <2>4. /\ \A i \in 1..Len(Before) : passed[i] = Before[i] /\ Before[i].type # "transform"
        /\ \A i \in 1..Len(Around) : passed[Len(Before) + i] = Around[i] /\ Around[i].type = "transform"
    BY <2>1, InnerFacts DEF Joined
  <2>5. ASSUME NEW n
        PROVE  Cardinality({i \in DOMAIN passed : passed[i].name = n}) = Times(Chain, n)
    <3>1. Times(passed, n) = Times(Before, n) + Times(Around, n)
      BY <2>1, <2>2, TimesJoined
    <3>2. QED
      BY <2>1, <3>1, TwoParts DEF Times, Named
  <2>6. ASSUME NEW i \in DOMAIN passed
        PROVE  /\ passed[i].type = "transform" <=> i > Len(Before)
               /\ i > Len(Before) => i - Len(Before) \in 1..Len(Around) /\ passed[i] = Around[i - Len(Before)]
               /\ ~(i > Len(Before)) => i \in 1..Len(Before) /\ passed[i] = Before[i]
    <3>1. CASE i > Len(Before)
      <4>1. i - Len(Before) \in 1..Len(Around) /\ Len(Before) + (i - Len(Before)) = i
        BY <2>3, <3>1
      <4>2. QED
        BY <2>4, <3>1, <4>1
    <3>2. CASE ~(i > Len(Before))
      <4>1. i \in 1..Len(Before)
        BY <2>3, <3>2
      <4>2. QED
        BY <2>4, <3>2, <4>1
    <3>3. QED
      BY <3>1, <3>2
  <2>7. \A i, j \in DOMAIN passed : passed[i].type = "transform" /\ i < j => passed[j].type = "transform"
    BY <2>3, <2>6
  <2>8. ASSUME NEW i \in DOMAIN passed, NEW j \in DOMAIN passed, i < j,
               passed[i].type = "transform" <=> passed[j].type = "transform"
        PROVE  \E k, l \in DOMAIN Chain : k < l /\ Chain[k] = passed[i] /\ Chain[l] = passed[j]
    <3>1. CASE i > Len(Before)
      <4> DEFINE x == i - Len(Before)
                 y == j - Len(Before)
      <4>1. j > Len(Before)
        BY <2>6, <2>8, <3>1
      <4>2. x \in 1..Len(Around) /\ y \in 1..Len(Around) /\ passed[i] = Around[x] /\ passed[j] = Around[y]
        BY <2>6, <3>1, <4>1
      <4>3. x < y
        BY <2>3, <2>8
      <4> HIDE DEF x, y
      <4>4. \E k, l \in DOMAIN Chain : k < l /\ Chain[k] = Around[x] /\ Chain[l] = Around[y]
        BY <2>1, <4>2, <4>3, TwoParts
      <4>5. QED
        BY <4>2, <4>4
    <3>2. CASE ~(i > Len(Before))
      <4>1. ~(j > Len(Before))
        BY <2>6, <2>8, <3>2
      <4>2. i \in 1..Len(Before) /\ j \in 1..Len(Before) /\ passed[i] = Before[i] /\ passed[j] = Before[j]
        BY <2>6, <3>2, <4>1
      <4>3. \E k, l \in DOMAIN Chain : k < l /\ Chain[k] = Before[i] /\ Chain[l] = Before[j]
        BY <2>1, <2>8, <4>2, TwoParts
      <4>4. QED
        BY <4>2, <4>3
    <3>3. QED
      BY <3>1, <3>2
  <2>9. ASSUME NEW n
        PROVE  LET route == cfg.routes[Served]
                   Listed(refs) == Cardinality({i \in DOMAIN refs : refs[i].ref = n})
               IN  Cardinality({i \in DOMAIN passed : passed[i].name = n}) =
                     Listed(route.middlewares) + (IF n \in route.skip THEN 0 ELSE Listed(cfg.middlewares))
    BY <2>1, <2>5, ListedTimes, Zenon
  <2>10. QED
    BY <2>7, <2>8, <2>9, Zenon DEF GuardsBeforeUpstream
<1>4. QED
  BY <1>1, <1>2, <1>3, PTL DEF Spec

(***************************************************************************)
(* Authentication.                                                         *)
(***************************************************************************)

\* The credentials of a request are in its headers.
LEMMA VouchedByHeaders ==
  ASSUME NEW name, NEW r, NEW q, r.headers = q.headers
  PROVE  VouchedClaims(name, r) = VouchedClaims(name, q)
  BY Zenon DEF VouchedClaims

\* An API key is accepted when it is on the list.
LEMMA KeyVouched ==
  ASSUME NEW name \in DOMAIN Providers, NEW r, NEW up, Providers[name].type = "apikey"
  PROVE  Authenticate(name, r, up).ok <=> VouchedClaims(name, r) # {}
<1> DEFINE p == Providers[name]
           key == Get(r.headers, p.header)
           I == {i \in 1..Len(p.keys) : p.keys[i].key = key}
           Values == IF p.header \in DOMAIN r.headers THEN {Head(r.headers[p.header])} ELSE {}
           E == {k \in ToSet(p.keys) : k.key \in Values \ {""}}
<1>1. IsList(p.keys)
  BY ProvidersAssumption
<1>2. DOMAIN p.keys = 1..Len(p.keys) /\ Len(p.keys) \in Nat
  BY <1>1, ListSeq
<1>3. Authenticate(name, r, up).ok <=> key # "" /\ I # {}
  <2> DEFINE i == SelectInSeq(p.keys, LAMBDA entry : entry.key = key)
  <2>1. Authenticate(name, r, up) = IF key # "" /\ i # 0 THEN Accepted([key_name |-> Text(p.keys[i].name)])
                                    ELSE Refused
    BY DEF Authenticate, apikeyAuthenticate
  <2>2. i = IF I # {} THEN Min(I) ELSE 0
    BY DEF SelectInSeq
  <2>3. I \in SUBSET Nat /\ 0 \notin I
    BY <1>2
  <2> HIDE DEF I, key
  <2>4. i # 0 <=> I # {}
    BY <2>2, <2>3, FirstPlace
  <2> HIDE DEF i
  <2>5. QED
    <3>1. Refused.ok = FALSE /\ \A c : Accepted(c).ok = TRUE
      BY DEF Accepted, Refused
    <3>2. QED
      BY <2>1, <2>4, <3>1, Zenon
<1>4. I # {} <=> \E e \in ToSet(p.keys) : e.key = key
  BY <1>2 DEF ToSet
<1>5. ASSUME NEW e PROVE e \in Values \ {""} <=> e = key /\ key # ""
  BY Zenon DEF Get
<1>6. key # "" /\ I # {} <=> E # {}
  <2> HIDE DEF I, key, Values
  <2>1. QED
    BY <1>4, <1>5, Zenon
<1>7. VouchedClaims(name, r) = {[key_name |-> Text(e.name)] : e \in E}
  BY DEF VouchedClaims
<1>8. VouchedClaims(name, r) # {} <=> E # {}
  <2> HIDE DEF E
  <2>1. QED
    BY <1>7
<1>9. QED
  BY <1>3, <1>6, <1>8, Zenon

\* A token is accepted only when the provider vouches for it, and by a provider
\* that needs no endpoint always then.
LEMMA TokenVouched ==
  ASSUME NEW name \in DOMAIN Providers, NEW r, NEW up, Providers[name].type # "apikey"
  PROVE  /\ Authenticate(name, r, up).ok => VouchedClaims(name, r) # {}
         /\ name \notin Remote /\ VouchedClaims(name, r) # {} => Authenticate(name, r, up).ok
<1> DEFINE p == Providers[name]
           Values == IF "Authorization" \in DOMAIN r.headers THEN {Head(r.headers["Authorization"])} ELSE {}
           bearers == {h.token : h \in {v \in Values : v.scheme = "bearer"}}
           ok(t) == /\ OwnKey(p, t)
                    /\ t.exp # "past" /\ (t.exp = "none" => p.type = "jwt")
                    /\ Issuer(p) \in {"", t.iss}
                    /\ p.audience \in {""} \cup t.aud
           good == {t \in bearers : ok(t)}
           token == Bearer(r)
<1>1. (p.type = "jwt" /\ NewJWTAuthenticator(p)) \/ p.type = "oidc"
  BY ProvidersAssumption DEF NewAuthenticator
<1>2. bearers = IF HasBearer(r) THEN {token} ELSE {}
  BY DEF HasBearer, Bearer
<1>3. VouchedClaims(name, r) = IF p.type = "oidc" /\ p.introspection_url # ""
                               THEN {Introspected(t) : t \in {b \in bearers : b.active}}
                               ELSE {t.claims : t \in good}
  BY Zenon DEF VouchedClaims
<1>4. Authenticate(name, r, up) = IF HasBearer(r) THEN bearerAuthenticate(p, token, up) ELSE Refused
  BY DEF Authenticate
<1>5. Refused.ok = FALSE /\ \A c : Accepted(c).ok = TRUE
  BY DEF Refused, Accepted
<1> HIDE DEF Values, token, bearers
<1>6. CASE ~HasBearer(r)
  BY <1>2, <1>3, <1>4, <1>5, <1>6
<1>7. CASE HasBearer(r) /\ p.type = "jwt"
  <2>1. VouchedClaims(name, r) # {} <=> ok(token)
    <3> HIDE DEF ok
    <3>1. VouchedClaims(name, r) = {t.claims : t \in good}
      BY <1>3, <1>7
    <3>2. \A t : t \in good <=> t = token /\ ok(token)
      BY <1>2, <1>7
    <3> HIDE DEF good
    <3>3. QED
      BY <3>1, <3>2
  <2>2. Authenticate(name, r, up).ok <=> jwtParse(p, token)
    BY <1>4, <1>5, <1>7 DEF bearerAuthenticate
  <2>3. jwtParse(p, token) <=> ok(token)
    <3>1. p.algorithm \in KeyFamily(p.algorithm)
      <4>1. p.algorithm \in HMAC \cup RSA \cup ECDSA
        BY <1>1, <1>7, Zenon DEF NewJWTAuthenticator
      <4>2. QED
        BY <4>1 DEF KeyFamily
    <3>2. /\ OwnKey(p, token) <=> token.key = p.key /\ token.alg = p.algorithm
          /\ Issuer(p) = p.issuer
      BY <1>7, Zenon DEF OwnKey, Issuer
    <3> HIDE DEF p
    <3>3. QED
      BY <1>7, <3>1, <3>2, Zenon DEF jwtParse
  <2>4. QED
    BY <2>1, <2>2, <2>3, Zenon
<1>8. CASE HasBearer(r) /\ p.type = "oidc"
  <2>1. name \in Remote
    BY <1>8 DEF Remote
  <2>2. CASE p.introspection_url # ""
    <3>1. Authenticate(name, r, up) = introspect(token, up)
      BY <1>4, <1>8, <2>2, Zenon DEF bearerAuthenticate
    <3>2. Authenticate(name, r, up).ok => token.active
      BY <1>5, <3>1 DEF introspect
    <3>3. VouchedClaims(name, r) = {Introspected(t) : t \in {b \in bearers : b.active}}
      BY <1>3, <1>8, <2>2, Zenon
    <3>4. token \in bearers
      BY <1>2, <1>8
    <3>5. QED
      BY <2>1, <3>2, <3>3, <3>4
  <2>3. CASE p.introspection_url = ""
    <3>1. Authenticate(name, r, up).ok => verifyToken(p, token, up)
      BY <1>4, <1>5, <1>8, <2>3, Zenon DEF bearerAuthenticate
    <3>2. verifyToken(p, token, up) => ok(token)
      <4>1. /\ OwnKey(p, token) <=> token.key \in p.keys /\ token.alg \in p.algorithms
            /\ Issuer(p) = IF p.skip_issuer_check THEN "" ELSE p.issuer_url
        BY <1>8, Zenon DEF OwnKey, Issuer
      <4>2. /\ buildOIDCConfig(p).algorithms = p.algorithms /\ buildOIDCConfig(p).audience = p.audience
            /\ buildOIDCConfig(p).issuer = Issuer(p)
        BY <4>1, Zenon DEF buildOIDCConfig
      <4> HIDE DEF p
      <4>3. verifyToken(p, token, up) => token.exp = "future" /\ token.exp # "past" /\ token.exp # "none"
        <5>1. "future" # "past" /\ "future" # "none"
          OBVIOUS
        <5>2. QED
          BY <5>1, Zenon DEF verifyToken
      <4>4. QED
        BY <4>1, <4>2, <4>3, Zenon DEF verifyToken
    <3>3. ok(token) => token \in good
      BY <1>2, <1>8, Zenon
    <3>4. VouchedClaims(name, r) = {t.claims : t \in good}
      BY <1>3, <1>8, <2>3, Zenon
    <3> HIDE DEF ok, good
    <3>5. QED
      BY <2>1, <3>1, <3>2, <3>3, <3>4, Zenon
  <2>4. QED
    BY <2>2, <2>3, Zenon
<1>9. QED
  BY <1>1, <1>6, <1>7, <1>8, Zenon

\* Merging keeps the providers a list.
LEMMA MergedListed ==
  ASSUME NEW base, ProvidersListed(base), NEW override, ProvidersListed(override)
  PROVE  ProvidersListed(mergeYAMLNodes(base, override))
<1> DEFINE m == [key \in DOMAIN base \cup DOMAIN override |->
                   IF key \in DOMAIN override THEN override[key] ELSE base[key]]
<1>1. "providers" \in DOMAIN m => m.providers = IF "providers" \in DOMAIN override THEN override.providers
                                                                                   ELSE base.providers
  OBVIOUS
<1>2. "providers" \in DOMAIN m => "providers" \in DOMAIN override \/ "providers" \in DOMAIN base
  OBVIOUS
<1> HIDE DEF m
<1>3. ProvidersListed(m)
  BY <1>1, <1>2 DEF ProvidersListed
<1>4. QED
  BY <1>3 DEF m, mergeYAMLNodes

\* The providers of an authentication are a list.
LEMMA ListedProviders ==
  ASSUME WellFormed, Served # 0, NEW k \in DOMAIN Chain, Chain[k].type = "auth"
  PROVE  IsList(Chain[k].config.providers)
<1> DEFINE left == Sieve(Globals, Kept)
           good(mw) == mw.type = "auth" => IsList(mw.config.providers)
<1>1. /\ Served \in DOMAIN cfg.routes
      /\ IsList(Globals) /\ IsList(Own) /\ IsList(left)
      /\ DOMAIN Globals = DOMAIN cfg.middlewares
      /\ Kept \subseteq DOMAIN Globals
      /\ Chain = left \o Own
      /\ IsList(Chain)
      /\ Len(Chain) = Len(left) + Len(Own)
  BY ChainParts
<1>2. Resolvable(cfg.middlewares) /\ Resolvable(cfg.routes[Served].middlewares)
  BY <1>1, Zenon DEF WellFormed, Valid
<1>3. ASSUME NEW refs, Resolvable(refs), \A i \in DOMAIN refs : ProvidersListed(refs[i].config),
             NEW i \in DOMAIN refs, ResolveMiddlewares(refs)[i].type = "auth"
      PROVE  IsList(ResolveMiddlewares(refs)[i].config.providers)
  <2> DEFINE def == Definitions[refs[i].ref]
             node == mergeYAMLNodes(def.config, refs[i].config)
             zero == Zero["auth"]
  <2>1. /\ ResolveMiddlewares(refs)[i].type = def.type
        /\ ResolveMiddlewares(refs)[i].config = decodeTypedConfig(def.type, node)
    BY <1>3, Zenon DEF ResolveMiddlewares
  <2>2. ProvidersListed(def.config) /\ ProvidersListed(refs[i].config)
    BY <1>3, DefinitionsAssumption, Zenon DEF Resolvable
  <2>3. zero = [providers |-> <<>>]
    BY Zenon DEF Zero
  <2>4. "providers" \in DOMAIN zero /\ zero.providers = <<>>
    BY <2>3
  <2>5. IsList(<<>>)
    BY DEF IsList
  <2> HIDE DEF def, zero
  <2>6. ProvidersListed(zero)
    BY <2>4, <2>5 DEF ProvidersListed
  <2>7. ProvidersListed(node)
    BY <2>2, MergedListed
  <2> HIDE DEF node
  <2>8. ResolveMiddlewares(refs)[i].config = mergeYAMLNodes(zero, node)
    <3>1. def.type = "auth" /\ "auth" # "rate_limit"
      BY <1>3, <2>1
    <3>2. QED
      BY <2>1, <3>1, Zenon DEF decodeTypedConfig, zero
  <2>9. ProvidersListed(mergeYAMLNodes(zero, node))
    BY <2>6, <2>7, MergedListed
  <2>10. "providers" \in DOMAIN mergeYAMLNodes(zero, node)
    BY <2>4 DEF mergeYAMLNodes
  <2>11. QED
    BY <2>8, <2>9, <2>10, Zenon DEF ProvidersListed
<1>4. \A i \in DOMAIN Globals : good(Globals[i])
  BY <1>1, <1>2, <1>3 DEF Globals, WellFormed
<1>5. \A i \in DOMAIN Own : good(Own[i])
  <2>1. DOMAIN Own = DOMAIN cfg.routes[Served].middlewares
    BY <1>1, ResolvedFacts DEF Own, WellFormed
  <2>2. QED
    BY <1>1, <1>2, <1>3, <2>1 DEF Own, WellFormed
<1> HIDE DEF good
<1>6. good(Chain[k])
  <2>1. /\ DOMAIN Chain = 1..Len(left) + Len(Own) /\ Len(left) \in Nat /\ Len(Own) \in Nat
        /\ DOMAIN Own = 1..Len(Own)
    BY <1>1, ListSeq
  <2>2. CASE k <= Len(left)
    <3>1. k \in 1..Len(left)
      BY <2>1, <2>2
    <3>2. Chain[k] = left[k]
      BY <1>1, <3>1, ListConcat
    <3>3. left[k] = Globals[Place(Kept, k)] /\ Place(Kept, k) \in Kept
      BY <1>1, <3>1, SieveFacts
    <3>4. QED
      BY <1>1, <1>4, <3>2, <3>3
  <2>3. CASE ~(k <= Len(left))
    <3> DEFINE j == k - Len(left)
    <3>1. j \in 1..Len(Own) /\ k = Len(left) + j
      BY <2>1, <2>3
    <3> HIDE DEF j
    <3>2. Chain[k] = Own[j]
      BY <1>1, <3>1, ListConcat
    <3>3. QED
      BY <1>5, <2>1, <3>1, <3>2
  <2>4. QED
    BY <2>2, <2>3
<1>7. QED
  BY <1>6 DEF good

Vouched(mw) == \E p \in ToSet(mw.config.providers) \cap DOMAIN Providers : VouchedClaims(p, Seen) # {}
Local(mw) == \E p \in ToSet(mw.config.providers) \ Remote :
               p \in DOMAIN Providers /\ VouchedClaims(p, Seen) # {}
Authenticates(mw) == mw.type = "auth" /\ mw.config.providers # <<"none">>

\* What an authentication finds: a provider that vouches for the request, or
\* none that could tell without an endpoint; never a wrong configuration.
LEMMA VerdictFacts ==
  ASSUME WellFormed, Served # 0, NEW k \in DOMAIN Chain, NEW mw, mw = Chain[k], mw.type = "auth",
         cur.headers = Seen.headers, NEW reached
  PROVE  /\ Verdict(mw.config.providers, reached).status \in {0, 401}
         /\ Verdict(mw.config.providers, reached).status = 0 /\ Authenticates(mw) => Vouched(mw)
         /\ Verdict(mw.config.providers, reached).status = 401 => Authenticates(mw) /\ ~Local(mw)
<1> DEFINE ps == mw.config.providers
           tried(name) == Authenticate(name, cur, name \in reached)
           I == {i \in 1..Len(ps) : ps[i] \notin DOMAIN Providers \/ tried(ps[i]).ok}
           i == SelectInSeq(ps, LAMBDA name : name \notin DOMAIN Providers \/ tried(name).ok)
           verdict == Verdict(ps, reached)
<1>1. ValidAuth(mw.config) /\ IsList(ps)
  BY ChainFacts, ListedProviders
<1>2. DOMAIN ps = 1..Len(ps) /\ Len(ps) \in Nat
  BY <1>1, ListSeq
<1>3. i = IF I # {} THEN Min(I) ELSE 0
  BY DEF SelectInSeq
<1>4. /\ ps # <<>>
      /\ ps # <<"none">> => (i = 0 => verdict.status = 401)
      /\ ps # <<"none">> => (i # 0 /\ ps[i] \in DOMAIN Providers => verdict.status = 0)
      /\ ps = <<"none">> => verdict.status = 0
  <2>1. ps # <<>>
    BY <1>1 DEF ValidAuth
  <2>2. ASSUME ps = <<"none">> PROVE verdict.status = 0
    BY <2>1, <2>2 DEF Verdict
  <2>3. ASSUME ps # <<"none">>, i = 0 PROVE verdict.status = 401
    BY <2>1, <2>3 DEF Verdict
  <2>4. ASSUME ps # <<"none">>, i # 0, ps[i] \in DOMAIN Providers PROVE verdict.status = 0
    BY <2>1, <2>4 DEF Verdict
  <2>5. QED
    BY <2>1, <2>2, <2>3, <2>4, Zenon
<1>5. I \in SUBSET Nat /\ 0 \notin I
  BY <1>2
<1> HIDE DEF i, verdict
<1>6. i # 0 <=> I # {}
  <2> HIDE DEF I
  <2>1. QED
    BY <1>3, <1>5, FirstPlace
<1>7. i # 0 => i \in I
  <2> HIDE DEF I
  <2>1. QED
    BY <1>3, <1>5, <1>6, FirstPlace
<1>8. ASSUME ps # <<"none">>, NEW j \in 1..Len(ps) PROVE ps[j] \in DOMAIN Providers
  <2>1. ps[j] \in DOMAIN Providers \cup {"none"}
    <3>1. ps[j] \in ToSet(ps)
      BY <1>2 DEF ToSet
    <3>2. QED
      BY <1>1, <3>1 DEF ValidAuth
  <2>2. CASE ps[j] = "none"
    <3>1. Contains(ps, "none")
      BY <2>2 DEF Contains
    <3>2. Len(ps) = 1
      BY <1>1, <3>1 DEF ValidAuth
    <3>3. j = 1
      BY <3>2
    <3>4. ps = [n \in 1..1 |-> "none"]
      BY <1>1, <2>2, <3>2, <3>3 DEF IsList
    <3>5. ps = <<"none">>
      BY <3>4
    <3>6. QED
      BY <1>8, <3>5
  <2>3. QED
    BY <2>1, <2>2
<1>9. ASSUME NEW p \in DOMAIN Providers
      PROVE  /\ tried(p).ok => VouchedClaims(p, Seen) # {}
             /\ p \notin Remote /\ VouchedClaims(p, Seen) # {} => tried(p).ok
  <2>1. VouchedClaims(p, cur) = VouchedClaims(p, Seen)
    BY VouchedByHeaders
  <2>2. QED
    BY <2>1, KeyVouched, TokenVouched
<1> HIDE DEF tried
<1>10. CASE ps = <<"none">>
  BY <1>4, <1>10 DEF Authenticates, verdict
<1>11. CASE ps # <<"none">> /\ i = 0
  <2>1. verdict.status = 401
    BY <1>4, <1>11
  <2>2. ~Local(mw)
    <3> SUFFICES ASSUME NEW p \in ToSet(ps) \ Remote, p \in DOMAIN Providers, VouchedClaims(p, Seen) # {}
                 PROVE  FALSE
      BY DEF Local
    <3>1. PICK j \in 1..Len(ps) : p = ps[j]
      BY <1>2 DEF ToSet
    <3>2. tried(ps[j]).ok
      BY <1>9, <3>1
    <3>3. QED
      BY <1>6, <1>11, <3>2
  <2>3. QED
    BY <1>11, <2>1, <2>2 DEF Authenticates, verdict
<1>12. CASE ps # <<"none">> /\ i # 0
  <2>1. i \in 1..Len(ps) /\ (ps[i] \notin DOMAIN Providers \/ tried(ps[i]).ok)
    BY <1>7, <1>12
  <2>2. ps[i] \in DOMAIN Providers
    BY <1>8, <1>12, <2>1
  <2>3. verdict.status = 0
    BY <1>4, <1>12, <2>2
  <2>4. VouchedClaims(ps[i], Seen) # {}
    BY <1>9, <2>1, <2>2
  <2>5. ps[i] \in ToSet(ps)
    BY <1>2, <2>1 DEF ToSet
  <2>6. Vouched(mw)
    BY <2>2, <2>4, <2>5 DEF Vouched
  <2>7. QED
    BY <2>3, <2>6 DEF verdict
<1>13. QED
  BY <1>10, <1>11, <1>12

(***************************************************************************)
(* Who writes the client's response.                                       *)
(***************************************************************************)

\* A layer that answers by itself, and what it says.
Replies(status, headers) ==
  \/ At("router") /\ Served = 0 /\ status = 404
  \/ /\ At("cors") /\ status = 204
     /\ headers = handlePreflight(Out.headers, Get(cur.headers, "Origin"), Settings)
  \/ At("auth") /\ status = 401 /\ Authenticates(Head(todo)) /\ ~Local(Head(todo))
  \/ /\ \E type \in {"rate_limit", "transform", "proxy"} : At(type)
     /\ status \in {401, 404, 500} => forwarded' # <<>>

\* No response is written, or a layer's answer, one that was held back, or that
\* of the recovery.
Writes ==
  \/ mode' = "in"
  \/ mode' # "in" /\ writers' = writers
  \/ \E status, headers, body : /\ status # 0 /\ Replies(status, headers)
                                /\ writers' = Written(writers, stack, status, headers, body)
  \/ /\ mode = "out" /\ stack # <<>> /\ Buffers(Top.layer)
     /\ \E status, headers, body : /\ status \in {502, Out.status}
                                   /\ writers' = Written(Front(writers), Rest, status, headers, body)
  \/ Recovery

\* An answer is a write.
LEMMA ReplyWrites ==
  ASSUME NEW status, status # 0, NEW headers, Replies(status, headers), NEW body,
         writers' = Written(writers, stack, status, headers, body)
  PROVE  Writes
  BY Zenon DEF Writes

\* A middleware that is entered is one of the chain, and sees the request that
\* came unless it is a transform.
LEMMA EnteredFacts ==
  ASSUME Base, NEW type \in DOMAIN Zero, At(type)
  PROVE  /\ WellFormed /\ Served # 0 /\ Head(todo).type = type /\ mode = "in"
         /\ \E k \in DOMAIN Chain : Head(todo) = Chain[k]
         /\ type # "transform" => cur.headers = Seen.headers
<1>1. /\ mode = "in" /\ Depth \in Nat /\ Head(todo).type = type /\ Depth >= 4
      /\ ctx.route # 0 /\ ctx.route = Served
  BY Entering
<1>2. /\ Head(todo) = Path[Depth + 1] /\ Depth + 1 \in 1..Len(Path)
  BY <1>1, Position DEF Base
<1>3. Depth + 1 \in 5..Len(Path) - 1
  BY <1>1, <1>2, LayerAt DEF Base, Shape
<1>4. \E k \in DOMAIN Chain : Head(todo) = Chain[k]
  BY <1>1, <1>2, <1>3, PathFacts DEF Base, Shape
<1>5. type # "transform" => cur.headers = Seen.headers
  <2>1. type # "proxy"
    BY Types
  <2>2. QED
    BY <1>1, <2>1, Unrewritten DEF Base
<1>6. QED
  BY <1>1, <1>4, <1>5 DEF Base

\* An authentication lets the request through or refuses it with reason.
LEMMA AuthJudges ==
  ASSUME Base, AuthMiddleware
  PROVE  /\ At("auth") /\ forwarded' = forwarded
         /\ \/ mode' = "in" /\ (Authenticates(Head(todo)) => Vouched(Head(todo)))
            \/ /\ passed' = passed /\ mode' = "out"
               /\ Authenticates(Head(todo)) /\ ~Local(Head(todo))
               /\ \E headers, body : writers' = Written(writers, stack, 401, headers, body)
<1>1. At("auth") /\ forwarded' = forwarded
  BY DEF AuthMiddleware
<1>2. "auth" \in DOMAIN Zero /\ "auth" # "transform"
  BY Types
<1>3. /\ WellFormed /\ Served # 0 /\ Head(todo).type = "auth" /\ mode = "in"
      /\ cur.headers = Seen.headers
  BY <1>1, <1>2, EnteredFacts
<1>4. PICK k \in DOMAIN Chain : Head(todo) = Chain[k]
  BY <1>1, <1>2, EnteredFacts
<1>5. PICK reached :
        LET verdict == Verdict(Settings.providers, reached)
        IN  IF verdict.status = 0
            THEN Call([ctx EXCEPT !.claims = verdict.claims]) /\ UNCHANGED writers
            ELSE Answer(verdict.status, Denied(verdict.status))
  BY Zenon DEF AuthMiddleware
<1> DEFINE verdict == Verdict(Settings.providers, reached)
<1>6. /\ verdict.status \in {0, 401}
      /\ verdict.status = 0 /\ Authenticates(Head(todo)) => Vouched(Head(todo))
      /\ verdict.status = 401 => Authenticates(Head(todo)) /\ ~Local(Head(todo))
  BY <1>3, <1>4, VerdictFacts DEF Settings
<1>7. IF verdict.status = 0
      THEN Call([ctx EXCEPT !.claims = verdict.claims]) /\ UNCHANGED writers
      ELSE Answer(verdict.status, Denied(verdict.status))
  BY <1>5
<1> HIDE DEF verdict
<1>8. CASE verdict.status = 0
  <2>1. mode' = "in"
    BY <1>3, <1>7, <1>8 DEF Call
  <2>2. QED
    BY <1>1, <1>6, <1>8, <2>1
<1>9. CASE verdict.status = 401
  <2>1. Answer(401, Denied(401))
    BY <1>7, <1>9
  <2>2. /\ passed' = passed /\ mode' = "out"
        /\ \E headers, body : writers' = Written(writers, stack, 401, headers, body)
    BY <2>1 DEF Answer, WrittenError, Stop
  <2>3. QED
    BY <1>1, <1>6, <1>9, <2>2
<1>10. QED
  BY <1>6, <1>8, <1>9

\* The router answers, or hands on.
LEMMA RouterWrites ==
  ASSUME Base, ServeHTTP
  PROVE  Writes /\ (forwarded' = forwarded \/ forwarded' # <<>>)
<1>1. At("router") /\ forwarded' = forwarded /\ mode = "in"
  BY DEF ServeHTTP, At
<1>2. firstMatch(cfg.routes, cur) = Served
  BY <1>1, RouterFinds DEF Base
<1>3. CASE Served = 0
  <2>1. NotFound
    BY <1>2, <1>3 DEF ServeHTTP
  <2>2. PICK headers, body : Stop("out") /\ writers' = Written(writers, stack, 404, headers, body)
    BY <2>1 DEF NotFound, Answer, WrittenError
  <2>3. Replies(404, headers) /\ 404 # 0
    BY <1>1, <1>3 DEF Replies
  <2>4. QED
    BY <1>1, <2>2, <2>3, ReplyWrites
<1>4. CASE Served # 0
  <2>1. UNCHANGED mode
    BY <1>2, <1>4, Zenon DEF ServeHTTP
  <2>2. QED
    BY <1>1, <2>1 DEF Writes
<1>5. QED
  BY <1>3, <1>4

\* CORS answers a preflight.
LEMMA CorsWrites ==
  ASSUME Base, CORSMiddleware
  PROVE  Writes /\ (forwarded' = forwarded \/ forwarded' # <<>>)
<1>1. At("cors") /\ forwarded' = forwarded /\ mode = "in"
  BY DEF CORSMiddleware, At
<1>2. CASE isPreflight(cur)
  <2> DEFINE h == handlePreflight(Out.headers, Get(cur.headers, "Origin"), Settings)
  <2>1. writers' = Written(writers, stack, 204, h, <<>>)
    BY <1>2 DEF CORSMiddleware
  <2>2. Replies(204, h) /\ 204 # 0
    BY <1>1 DEF Replies
  <2> HIDE DEF h
  <2>3. QED
    BY <1>1, <2>1, <2>2, Zenon DEF Writes
<1>3. CASE ~isPreflight(cur)
  <2>1. mode' = "in"
    BY <1>1, <1>3 DEF CORSMiddleware, Call
  <2>2. QED
    BY <1>1, <2>1 DEF Writes
<1>4. QED
  BY <1>2, <1>3

\* An authentication refuses.
LEMMA AuthWrites ==
  ASSUME Base, AuthMiddleware
  PROVE  Writes /\ (forwarded' = forwarded \/ forwarded' # <<>>)
<1>1. /\ At("auth") /\ forwarded' = forwarded
      /\ \/ mode' = "in"
         \/ /\ Authenticates(Head(todo)) /\ ~Local(Head(todo))
            /\ \E headers, body : writers' = Written(writers, stack, 401, headers, body)
  BY AuthJudges
<1>2. Authenticates(Head(todo)) /\ ~Local(Head(todo)) => \A headers : Replies(401, headers)
  BY <1>1 DEF Replies
<1>3. 401 # 0
  OBVIOUS
<1>4. QED
  BY <1>1, <1>2, <1>3, ZenonT(60) DEF Writes

\* A rate limit refuses.
LEMMA LimitWrites ==
  ASSUME Base, RateLimitMiddleware
  PROVE  Writes /\ (forwarded' = forwarded \/ forwarded' # <<>>)
<1>1. At("rate_limit") /\ forwarded' = forwarded /\ mode = "in"
  <2>1. At("rate_limit") /\ UNCHANGED <<given, cur, holder, forwarded, records>>
    BY DEF RateLimitMiddleware
  <2>2. QED
    BY <2>1 DEF At
<1>2. mode' = "in" \/ \E headers, body : writers' = Written(writers, stack, 429, headers, body)
  <2>1. (\E c : Call(c)) => mode' = "in"
    BY <1>1 DEF Call
  <2>2. QED
    BY <2>1, ZenonT(60) DEF RateLimitMiddleware
<1>3. 429 # 0 /\ \A headers : Replies(429, headers)
  BY <1>1 DEF Replies
<1>4. QED
  BY <1>1, <1>2, <1>3, ZenonT(60) DEF Writes

\* A transform cannot read the request.
LEMMA TransformWrites ==
  ASSUME Base, RequestTransform
  PROVE  Writes /\ (forwarded' = forwarded \/ forwarded' # <<>>)
<1>1. At("transform") /\ forwarded' = forwarded /\ mode = "in"
  <2>1. At("transform") /\ UNCHANGED <<given, holder, charged, forwarded, records>>
    BY DEF RequestTransform
  <2>2. QED
    BY <2>1 DEF At
<1>2. \/ \E c : Call(c)
      \/ Stop("panic") /\ UNCHANGED writers
      \/ \E status \in {413, 502} : \E error : Answer(status, error)
  <2>1. \/ Answer(502, Error("bad_gateway", "failed to read request body"))
        \/ Answer(413, Error("request_too_large", "request body exceeds transform size limit"))
        \/ Stop("panic") /\ UNCHANGED writers
        \/ Call(ctx)
    BY Zenon DEF RequestTransform
  <2>2. /\ Answer(502, Error("bad_gateway", "failed to read request body")) => \E error : Answer(502, error)
        /\ Answer(413, Error("request_too_large", "request body exceeds transform size limit"))
             => \E error : Answer(413, error)
    BY Zenon
  <2>3. (\E error : Answer(502, error)) \/ (\E error : Answer(413, error))
          => \E status \in {413, 502} : \E error : Answer(status, error)
    OBVIOUS
  <2>4. Call(ctx) => \E c : Call(c)
    OBVIOUS
  <2>5. QED
    BY <2>1, <2>2, <2>3, <2>4, Zenon
<1>3. (\E c : Call(c)) => mode' = "in"
  BY <1>1 DEF Call
<1>4. Stop("panic") /\ (UNCHANGED writers) => mode' # "in" /\ writers' = writers
  BY DEF Stop
<1>5. ASSUME NEW status \in {413, 502}, NEW error, Answer(status, error) PROVE Writes
  <2>1. PICK headers, body : writers' = Written(writers, stack, status, headers, body)
    BY <1>5 DEF Answer, WrittenError
  <2>2. status # 0 /\ Replies(status, headers)
    BY <1>1 DEF Replies
  <2>3. QED
    BY <2>1, <2>2, ReplyWrites
<1>6. QED
  BY <1>1, <1>2, <1>3, <1>4, <1>5, ZenonT(60) DEF Writes

\* The proxy answers.
LEMMA ProxyWrites ==
  ASSUME Base, Proxy
  PROVE  Writes /\ (forwarded' = forwarded \/ forwarded' # <<>>)
<1>1. At("proxy") /\ mode = "in" /\ reply.status # 0
  <2>1. At("proxy")
    BY DEF Proxy
  <2>2. QED
    BY <2>1 DEF At, Base, WellFormed
<1>2. \/ /\ \E q : forwarded' = <<q>>
         /\ \/ \E headers, body : writers' = Written(writers, stack, reply.status, headers, body)
            \/ \E f \in Failures(Route) \cup Refusals(Route, cur.body.kind) : Answer(f.status, f.error)
            \/ Stop("panic") /\ UNCHANGED writers
      \/ /\ \E f \in Failures(Route) \cup Refusals(Route, cur.body.kind) : Answer(f.status, f.error)
         /\ UNCHANGED forwarded
  <2>1. PICK headers :
          \/ /\ \E q : forwarded' = <<q>>
             /\ \/ Stop("out") /\ writers' = Written(writers, stack, reply.status, headers, reply.body)
                \/ \E f \in Failures(Route) : Answer(f.status, f.error)
                \/ Stop("panic") /\ writers' = Written(writers, stack, reply.status, headers, Partial)
                \/ Stop("panic") /\ UNCHANGED writers
          \/ \E f \in Refusals(Route, cur.body.kind) : Answer(f.status, f.error) /\ UNCHANGED forwarded
    BY ZenonT(60) DEF Proxy
  <2> DEFINE W(b) == writers' = Written(writers, stack, reply.status, headers, b)
             Some == \E h, body : writers' = Written(writers, stack, reply.status, h, body)
  <2>2. (W(reply.body) => Some) /\ (W(Partial) => Some)
    BY Zenon
  <2>3. QED
    BY <2>1, <2>2, ZenonT(60)
<1>3. (\E q : forwarded' = <<q>>) => forwarded' # <<>>
  OBVIOUS
<1>4. Stop("panic") /\ (UNCHANGED writers) => Writes
  BY DEF Stop, Writes
<1>5. ASSUME NEW status \in {413, 499, 502, 503}, NEW error, Answer(status, error) PROVE Writes
  <2>1. PICK headers, body : writers' = Written(writers, stack, status, headers, body)
    BY <1>5 DEF Answer, WrittenError
  <2>2. status # 0 /\ Replies(status, headers)
    BY <1>1 DEF Replies
  <2>3. QED
    BY <2>1, <2>2, ReplyWrites
<1>6. ASSUME forwarded' # <<>>, NEW headers, NEW body,
             writers' = Written(writers, stack, reply.status, headers, body)
      PROVE  Writes
  <2>1. Replies(reply.status, headers)
    BY <1>1, <1>6 DEF Replies
  <2>2. QED
    BY <1>1, <1>6, <2>1, Zenon DEF Writes
<1>7. (\E f \in Failures(Route) \cup Refusals(Route, cur.body.kind) : Answer(f.status, f.error)) => Writes
  BY <1>5, FailureStatus
<1>8. (UNCHANGED forwarded) => forwarded' = forwarded
  OBVIOUS
<1>9. QED
  BY <1>2, <1>3, <1>4, <1>6, <1>7, <1>8, Zenon

\* A response that was held back goes on.
LEMMA ReleaseWrites ==
  ASSUME Base, ResponseTransform
  PROVE  Writes /\ (forwarded' = forwarded \/ forwarded' # <<>>)
<1>1. mode = "out" /\ stack # <<>> /\ Buffers(Top.layer) /\ forwarded' = forwarded
  <2>1. Leaving("transform") /\ Configured(Top.layer.config.response) /\ Pop
    BY DEF ResponseTransform
  <2>2. QED
    BY <2>1 DEF Leaving, Buffers, Pop
<1>2. \/ \E error : writers' = WrittenError(Front(writers), Rest, 502, error)
      \/ mode' = "panic" /\ UNCHANGED writers
      \/ \E headers, body : writers' = Written(Front(writers), Rest, Out.status, headers, body)
  BY ZenonT(60) DEF ResponseTransform
<1>3. mode' = "panic" /\ (UNCHANGED writers) => mode' # "in" /\ writers' = writers
  OBVIOUS
<1>4. \/ mode' # "in" /\ writers' = writers
      \/ \E status, headers, body : /\ status \in {502, Out.status}
                                    /\ writers' = Written(Front(writers), Rest, status, headers, body)
  <2>1. CASE \E error : writers' = WrittenError(Front(writers), Rest, 502, error)
    BY <2>1 DEF WrittenError
  <2>2. CASE mode' = "panic" /\ UNCHANGED writers
    BY <1>3, <2>2
  <2>3. CASE \E headers, body : writers' = Written(Front(writers), Rest, Out.status, headers, body)
    BY <2>3
  <2>4. QED
    BY <1>2, <2>1, <2>2, <2>3
<1>5. QED
  BY <1>1, <1>4, Zenon DEF Writes

\* Every step is one of those.
LEMMA Writing ==
  ASSUME Base, [Next]_vars
  PROVE  Writes /\ (forwarded' = forwarded \/ forwarded' # <<>>)
<1>1. CASE EnterOuter \/ EnterRequestID \/ EnterMetrics
  <2>1. Calls
    BY <1>1, OuterCalls
  <2>2. mode' = "in" /\ forwarded' = forwarded
    BY <2>1 DEF Calls, Call
  <2>3. QED
    BY <2>2 DEF Writes
<1>2. CASE LeaveLogging \/ LeaveMetrics \/ LeaveOther \/ Unwind \/ Finish
  <2>1. writers' = writers /\ forwarded' = forwarded /\ mode' # "in"
    BY <1>2 DEF LeaveLogging, LeaveMetrics, LeaveOther, Unwind, Finish, Pop, Leaving
  <2>2. QED
    BY <2>1 DEF Writes
<1>3. CASE Recovery
  BY <1>3 DEF Writes, Recovery, Pop
<1>4. CASE UNCHANGED vars
  BY <1>4 DEF Writes, vars
<1>5. QED
  BY <1>1, <1>2, <1>3, <1>4, RouterWrites, CorsWrites, AuthWrites, LimitWrites, TransformWrites,
     ProxyWrites, ReleaseWrites DEF Next

\* What a write leaves of the innermost response.
LEMMA WrittenLast ==
  ASSUME NEW ws, Queue(ws), NEW stk, NEW status, status # 0, NEW headers, NEW body,
         NEW w, w = Written(ws, stk, status, headers, body)
  PROVE  /\ Len(w) = Len(ws) /\ Queue(w)
         /\ Last(ws).status = 0 => Last(w).status = status /\ Last(w).body = body
         /\ Last(ws).status # 0 => w = ws
<1>1. Settled(w, ws, status, body)
  BY WrittenFacts, Zenon
<1>2. QED
  BY <1>1 DEF Settled

\* The client has an answer only when nothing is held back.
LEMMA SentIsOut ==
  ASSUME Queue(writers), sent.status # 0
  PROVE  Len(writers) = 1 /\ Out = sent
<1>1. Len(writers) = 1
  <2>1. Width \in Nat /\ Width >= 1 /\ \A i \in 1..Width - 1 : writers[i].status = 0
    BY DEF Queue, Width
  <2>2. 1 \notin 1..Width - 1
    BY <2>1 DEF sent
  <2>3. Width = 1
    BY <2>1, <2>2
  <2>4. QED
    BY <2>3 DEF Width
<1>2. QED
  BY <1>1 DEF Out, Last, sent

\* Whoever passed an authentication was vouched for; a refusal and an error that
\* the upstream had no part in have their reason.
Judged ==
  /\ IsList(passed)
  /\ \A i \in 1..Len(passed) : Authenticates(passed[i]) => Vouched(passed[i])
  /\ forwarded = <<>> =>
       /\ Out.status = 404 => Served = 0
       /\ Out.status = 401 => \E i \in DOMAIN Chain : Authenticates(Chain[i]) /\ ~Local(Chain[i])
       /\ Out.status = 500 => Len(writers) = 1 /\ Out.body = Recovered

\* What passes and what is vouched for.
LEMMA PassingStep ==
  ASSUME Base, [Next]_vars, IsList(passed),
         \A i \in 1..Len(passed) : Authenticates(passed[i]) => Vouched(passed[i])
  PROVE  /\ IsList(passed')
         /\ \A i \in 1..Len(passed') : Authenticates(passed'[i]) => Vouched(passed'[i])
<1>1. CASE /\ passed' = Append(passed, Head(todo))
           /\ Authenticates(Head(todo)) => Vouched(Head(todo))
  <2>1. /\ IsList(passed') /\ Len(passed') = Len(passed) + 1 /\ Len(passed) \in Nat
        /\ \A i \in 1..Len(passed) : passed'[i] = passed[i]
        /\ passed'[Len(passed) + 1] = Head(todo)
    BY <1>1, ListAppend, ListSeq
  <2>2. ASSUME NEW i \in 1..Len(passed') PROVE Authenticates(passed'[i]) => Vouched(passed'[i])
    <3>1. CASE i = Len(passed) + 1
      BY <1>1, <2>1, <3>1
    <3>2. CASE i \in 1..Len(passed)
      BY <2>1, <3>2
    <3>3. QED
      BY <2>1, <3>1, <3>2
  <2>3. QED
    BY <2>1, <2>2
<1>2. CASE passed' = passed
  BY <1>2
<1>3. CASE AuthMiddleware
  <2>1. \/ mode' = "in" /\ (Authenticates(Head(todo)) => Vouched(Head(todo)))
        \/ passed' = passed
    BY <1>3, AuthJudges
  <2>2. CASE Calls
    <3>1. passed' = IF Head(todo).type \in DOMAIN Zero THEN Append(passed, Head(todo)) ELSE passed
      BY <2>2 DEF Calls, Call
    <3>2. QED
      BY <1>1, <1>2, <2>1, <3>1
  <2>3. CASE Answers
    <3>1. passed' = passed
      BY <2>3 DEF Answers, Stop
    <3>2. QED
      BY <1>2, <3>1
  <2>4. QED
    BY <1>3, <2>2, <2>3, AuthKind
<1>4. CASE Calls /\ Head(todo).type # "auth"
  <2>1. passed' = IF Head(todo).type \in DOMAIN Zero THEN Append(passed, Head(todo)) ELSE passed
    BY <1>4 DEF Calls, Call
  <2>2. ~Authenticates(Head(todo))
    BY <1>4 DEF Authenticates
  <2>3. QED
    BY <1>1, <1>2, <2>1, <2>2
<1>5. CASE Answers \/ Panics \/ Routes \/ Leaves \/ Breaks \/ Unwind \/ Recovery \/ Finish \/ UNCHANGED vars
  <2>1. passed' = passed
    BY <1>5 DEF Answers, Panics, Stop, Routes, Leaves, Breaks, Unwind, Recovery, Finish, Pop, vars
  <2>2. QED
    BY <1>2, <2>1
<1>6. /\ EnterOuter \/ EnterRequestID \/ EnterMetrics \/ CORSMiddleware => At("auth") = FALSE
      /\ RateLimitMiddleware \/ RequestTransform => At("auth") = FALSE
  <2>1. EnterOuter \/ EnterRequestID \/ EnterMetrics \/ CORSMiddleware \/ RateLimitMiddleware \/ RequestTransform
          => \E type \in {"recovery", "logging", "request_id", "metrics", "cors", "rate_limit", "transform"} :
               Head(todo).type = type
    BY Zenon DEF EnterOuter, EnterRequestID, EnterMetrics, CORSMiddleware, RateLimitMiddleware, RequestTransform, At
  <2>2. QED
    BY <2>1 DEF At
<1>7. mode = "in" /\ ~At("auth") => Head(todo).type # "auth"
  BY DEF At
<1>8. Calls => mode = "in"
  BY DEF Calls
<1>9. CASE EnterOuter \/ EnterRequestID \/ EnterMetrics
  BY <1>4, <1>6, <1>7, <1>8, <1>9, OuterCalls
<1>10. CASE CORSMiddleware \/ RateLimitMiddleware \/ RequestTransform
  BY <1>4, <1>5, <1>6, <1>7, <1>8, <1>10, CorsKind, LimitKind, TransformKind
<1>11. QED
  BY <1>3, <1>5, <1>9, <1>10, RouterKind, ProxyKind, OutKind DEF Next

\* No step breaks it.
LEMMA JudgedStep == ASSUME Base, Judged, [Next]_vars PROVE Judged'
<1>1. Base' /\ Chain' = Chain /\ Seen' = Seen /\ Served' = Served
  BY BaseStep, GivenStays
<1>2. \A mw : Vouched(mw)' = Vouched(mw) /\ Local(mw)' = Local(mw)
  BY <1>1 DEF Vouched, Local
<1> DEFINE Reason == \E i \in DOMAIN Chain : Authenticates(Chain[i]) /\ ~Local(Chain[i])
           Fair(w) == /\ Last(w).status = 404 => Served = 0
                      /\ Last(w).status = 401 => Reason
                      /\ Last(w).status = 500 => Len(w) = 1 /\ Last(w).body = Recovered
<1>3. IsList(passed') /\ \A i \in 1..Len(passed') : Authenticates(passed'[i]) => Vouched(passed'[i])
  BY PassingStep DEF Judged
<1>4. Writes /\ (forwarded' = forwarded \/ forwarded' # <<>>)
  BY Writing
<1>5. Queue(writers) /\ (mode = "in" => Out.status = 0)
  BY DEF Base, Responses
<1>6. ASSUME forwarded' = <<>> PROVE Fair(writers')
  <2>1. forwarded = <<>> /\ Fair(writers)
    BY <1>4, <1>6 DEF Judged, Out
  <2>2. CASE mode' = "in"
    <3>1. (Last(writers).status = 0)'
      BY <1>1, <2>2 DEF Base, Responses, Out
    <3>2. QED
      BY <3>1
  <2>3. CASE writers' = writers
    BY <2>1, <2>3
  <2>4. ASSUME NEW status, NEW headers, NEW body, status # 0, Replies(status, headers),
               writers' = Written(writers, stack, status, headers, body)
        PROVE  Fair(writers')
    <3>1. mode = "in" /\ Last(writers).status = 0
      BY <1>5, <2>4 DEF Replies, At, Out
    <3>2. Last(writers').status = status
      BY <1>5, <2>4, <3>1, WrittenLast
    <3>3. /\ status # 500 /\ (status = 404 => Served = 0)
          /\ status = 401 => At("auth") /\ Authenticates(Head(todo)) /\ ~Local(Head(todo))
      BY <1>6, <2>4 DEF Replies
    <3>4. status = 401 => Reason
      <4>1. At("auth") => \E k \in DOMAIN Chain : Head(todo) = Chain[k]
        BY EnteredFacts, Types
      <4>2. QED
        BY <3>3, <4>1
    <3> HIDE DEF Reason
    <3>5. QED
      BY <3>2, <3>3, <3>4
  <2>5. ASSUME mode = "out", stack # <<>>, Buffers(Top.layer),
               NEW status, NEW headers, NEW body, status \in {502, Out.status},
               writers' = Written(Front(writers), Rest, status, headers, body)
        PROVE  Fair(writers')
    <3>1. Width > 1 /\ Out.status # 0
      BY <2>5, HeldAtTop DEF Base, Responses
    <3>2. Queue(Front(writers)) /\ Last(Front(writers)).status = 0
      BY <1>5, <3>1, DropFacts DEF Width
    <3>3. Last(writers').status = status
      BY <2>5, <3>1, <3>2, WrittenLast
    <3>4. Len(writers) # 1
      BY <3>1, <1>5 DEF Width, Queue
    <3>5. /\ Last(writers).status # 500 /\ (Last(writers).status = 401 => Reason)
          /\ Last(writers).status = 404 => Served = 0
      BY <2>1, <3>4
    <3> HIDE DEF Reason
    <3>6. status # 500 /\ (status = 401 => Reason) /\ (status = 404 => Served = 0)
      BY <2>5, <3>5 DEF Out
    <3>7. QED
      BY <3>3, <3>6
  <2>6. CASE Recovery
    <3>1. Settled(writers', <<sent>>, 500, Recovered)
      BY <2>6, RecoveryKeeps
    <3>2. Len(<<sent>>) = 1 /\ Last(<<sent>>) = sent
      BY DEF Last
    <3>3. Len(writers') = 1
      BY <3>1, <3>2 DEF Settled
    <3>4. CASE sent.status = 0
      <4>1. Last(writers').status = 500 /\ Last(writers').body = Recovered
        BY <3>1, <3>2, <3>4 DEF Settled
      <4>2. QED
        BY <3>3, <4>1
    <3>5. CASE sent.status # 0
      <4>1. writers' = <<sent>> /\ Last(writers') = sent
        BY <3>1, <3>2, <3>5 DEF Settled
      <4>2. Len(writers) = 1 /\ Last(writers) = sent
        BY <1>5, <3>5, SentIsOut DEF Out
      <4>3. QED
        BY <2>1, <3>3, <4>1, <4>2
    <3>6. QED
      BY <3>4, <3>5
  <2> HIDE DEF Fair
  <2>7. (\E status, headers, body : /\ status # 0 /\ Replies(status, headers)
                                   /\ writers' = Written(writers, stack, status, headers, body))
          => Fair(writers')
    BY <2>4
  <2>8. /\ mode = "out" /\ stack # <<>> /\ Buffers(Top.layer)
        /\ \E status, headers, body : /\ status \in {502, Out.status}
                                      /\ writers' = Written(Front(writers), Rest, status, headers, body)
        => Fair(writers')
    BY <2>5
  <2>9. QED
    BY <1>4, <2>2, <2>3, <2>6, <2>7, <2>8 DEF Writes
<1>7. (forwarded = <<>> => /\ Out.status = 404 => Served = 0
                           /\ Out.status = 401 => Reason
                           /\ Out.status = 500 => Len(writers) = 1 /\ Out.body = Recovered)'
  <2>1. Reason' = Reason
    BY <1>1, <1>2 DEF Authenticates
  <2> HIDE DEF Reason
  <2>2. QED
    BY <1>1, <1>6, <2>1 DEF Out
<1>8. (\A i \in 1..Len(passed) : Authenticates(passed[i]) => Vouched(passed[i]))'
  BY <1>2, <1>3 DEF Authenticates
<1>9. QED
  BY <1>3, <1>7, <1>8 DEF Judged

\* Nobody has been judged at first.
LEMMA JudgedInit == ASSUME Init PROVE Judged
<1>1. passed = <<>> /\ mode = "in"
  BY DEF Init
<1>2. IsList(passed) /\ Len(passed) = 0
  BY <1>1 DEF IsList
<1>3. Out.status = 0
  BY <1>1, BaseInit DEF Base, Responses
<1>4. QED
  BY <1>2, <1>3 DEF Judged

\* No authentication is passed without a provider that vouches for the request,
\* none refuses without reason, and none is ever misconfigured.
THEOREM AuthHolds == Spec => []AuthSound
<1>1. Init => Base /\ Judged
  BY BaseInit, JudgedInit
<1>2. Base /\ Judged /\ [Next]_vars => (Base /\ Judged)'
  BY BaseStep, JudgedStep
<1>3. Base /\ Judged => AuthSound
  <2> SUFFICES ASSUME Base, Judged PROVE AuthSound
    OBVIOUS
  <2>1. Queue(writers)
    BY DEF Base, Responses
  <2>2. DOMAIN passed = 1..Len(passed)
    BY ListSeq DEF Judged
  <2>3. \A i \in DOMAIN passed : Authenticates(passed[i]) => Vouched(passed[i])
    BY <2>2 DEF Judged
  <2>4. sent.status # 0 => Out = sent
    BY <2>1, SentIsOut
  <2>5. sent.status = 401 /\ forwarded = <<>> => \E i \in DOMAIN Chain : Authenticates(Chain[i]) /\ ~Local(Chain[i])
    BY <2>4 DEF Judged
  <2>6. sent.status = 500 /\ forwarded = <<>> => sent.body = Recovered
    BY <2>4 DEF Judged
  <2>7. QED
    BY <2>3, <2>5, <2>6, Zenon DEF AuthSound, Authenticates, Vouched, Local
<1>4. QED
  BY <1>1, <1>2, <1>3, PTL DEF Spec

(***************************************************************************)
(* CORS.                                                                   *)
(***************************************************************************)

Origin == Get(req.headers, "Origin")
CrossOrigin == Origin # ""

\* The headers let a browser read the answer under the configuration c.
Allows(headers, c) ==
  c.allowed_origins \cap {Origin, "*"} # {} =>
    \E allow \in {Origin, "*"} :
      /\ "Access-Control-Allow-Origin" \in DOMAIN headers
      /\ headers["Access-Control-Allow-Origin"] = <<allow>>
      /\ allow = "*" /\ Origin # "*" => "*" \in c.allowed_origins /\ ~c.allow_credentials

CorsIn(k) == k \in DOMAIN Chain /\ Chain[k].type = "cors"

\* What the client has is readable, unless it is the answer to a panic.
Readable ==
  Served # 0 /\ CrossOrigin /\ sent.status # 0 =>
    sent.body = Recovered \/ \A k : CorsIn(k) => Allows(sent.headers, Chain[k].config)

\* Setting a header.
LEMMA SetFacts ==
  ASSUME NEW headers, NEW name, NEW value
  PROVE  /\ name \in DOMAIN Set(headers, name, value) /\ Set(headers, name, value)[name] = <<value>>
         /\ \A n \in DOMAIN headers : n # name => /\ n \in DOMAIN Set(headers, name, value)
                                                  /\ Set(headers, name, value)[n] = headers[n]
  BY DEF Set

\* Saying yes.
LEMMA SaidYes ==
  ASSUME NEW headers, NEW allow, NEW c
  PROVE  /\ "Access-Control-Allow-Origin" \in DOMAIN AllowOrigin(headers, allow, c)
         /\ AllowOrigin(headers, allow, c)["Access-Control-Allow-Origin"] = <<allow>>
<1> DEFINE allowed == Set(headers, "Access-Control-Allow-Origin", allow)
           more == Set(allowed, "Access-Control-Allow-Credentials", "true")
<1>1. AllowOrigin(headers, allow, c) = IF c.allow_credentials THEN more ELSE allowed
  BY Zenon DEF AllowOrigin
<1>2. /\ "Access-Control-Allow-Origin" \in DOMAIN allowed
      /\ allowed["Access-Control-Allow-Origin"] = <<allow>>
  BY SetFacts
<1> HIDE DEF allowed
<1>3. /\ "Access-Control-Allow-Origin" \in DOMAIN more
      /\ more["Access-Control-Allow-Origin"] = <<allow>>
  <2>1. "Access-Control-Allow-Origin" # "Access-Control-Allow-Credentials"
    OBVIOUS
  <2>2. QED
    BY <1>2, <2>1, SetFacts
<1> HIDE DEF more
<1>4. QED
  BY <1>1, <1>2, <1>3, Zenon

\* What CORS writes can be read.
LEMMA WrittenReadable ==
  ASSUME NEW headers, NEW c, CrossOrigin
  PROVE  Allows(injectCORSHeaders(headers, Origin, c), c) /\ Allows(handlePreflight(headers, Origin, c), c)
<1> DEFINE allow == resolveAllowOrigin(Origin, c)
<1> SUFFICES ASSUME c.allowed_origins \cap {Origin, "*"} # {}
             PROVE  /\ Allows(injectCORSHeaders(headers, Origin, c), c)
                    /\ Allows(handlePreflight(headers, Origin, c), c)
  BY Zenon DEF Allows
<1>1. isOriginAllowed(Origin, c.allowed_origins)
  BY Zenon DEF isOriginAllowed
<1>2. /\ allow \in {Origin, "*"} /\ allow # ""
      /\ allow = "*" /\ Origin # "*" => "*" \in c.allowed_origins /\ ~c.allow_credentials
  <2>1. "*" # ""
    BY Zenon
  <2>2. CASE "*" \in c.allowed_origins /\ ~c.allow_credentials
    <3>1. allow = "*"
      BY <1>1, <2>2, Zenon DEF resolveAllowOrigin
    <3>2. QED
      BY <2>1, <2>2, <3>1, Zenon
  <2>3. CASE ~("*" \in c.allowed_origins /\ ~c.allow_credentials)
    <3>1. allow = Origin
      BY <1>1, <2>3, Zenon DEF resolveAllowOrigin
    <3>2. QED
      BY <3>1, Zenon DEF CrossOrigin
  <2>4. QED
    BY <2>2, <2>3, Zenon
<1> HIDE DEF allow
<1>3. ASSUME NEW h, "Access-Control-Allow-Origin" \in DOMAIN h,
             h["Access-Control-Allow-Origin"] = <<allow>>
      PROVE  Allows(h, c)
  BY <1>2, <1>3, Zenon DEF Allows
<1>4. Allows(injectCORSHeaders(headers, Origin, c), c)
  <2>1. PICK h : injectCORSHeaders(headers, Origin, c) = AllowOrigin(h, allow, c)
    BY <1>2, Zenon DEF injectCORSHeaders, allow
  <2>2. QED
    BY <1>3, <2>1, SaidYes, Zenon
<1>5. Allows(handlePreflight(headers, Origin, c), c)
  <2>1. PICK h : handlePreflight(headers, Origin, c)
                   = Set(AllowOrigin(h, allow, c), "Access-Control-Allow-Methods", "configured")
    BY <1>2, Zenon DEF handlePreflight, allow
  <2> DEFINE yes == AllowOrigin(h, allow, c)
  <2>2. "Access-Control-Allow-Origin" \in DOMAIN yes /\ yes["Access-Control-Allow-Origin"] = <<allow>>
    BY SaidYes, Zenon
  <2> HIDE DEF yes
  <2>3. /\ "Access-Control-Allow-Origin" \in DOMAIN Set(yes, "Access-Control-Allow-Methods", "configured")
        /\ Set(yes, "Access-Control-Allow-Methods", "configured")["Access-Control-Allow-Origin"] = <<allow>>
    <3>1. "Access-Control-Allow-Origin" # "Access-Control-Allow-Methods"
      OBVIOUS
    <3>2. QED
      BY <2>2, <3>1, SetFacts
  <2>4. QED
    BY <1>3, <2>1, <2>3, Zenon DEF yes
<1>6. QED
  BY <1>4, <1>5

\* Only the first response can have a status when it is alone.
LEMMA FirstOnly ==
  ASSUME NEW ws, Queue(ws), ws[1].status # 0
  PROVE  Len(ws) = 1 /\ Last(ws) = ws[1]
<1> DEFINE n == Len(ws)
<1>1. n \in Nat /\ n >= 1 /\ \A i \in 1..n - 1 : ws[i].status = 0
  BY DEF Queue
<1> HIDE DEF n
<1>2. 1 \notin 1..n - 1
  BY <1>1
<1>3. n = 1
  BY <1>1, <1>2
<1>4. QED
  BY <1>3 DEF n, Last

\* A write that reaches the client goes through the CORS writer.
LEMMA WrittenFirst ==
  ASSUME NEW ws, Queue(ws), NEW stk, NEW status, status # 0, NEW headers, NEW body,
         NEW w, w = Written(ws, stk, status, headers, body), w[1].status # 0
  PROVE  w[1] = ws[1] \/ w[1].headers = WithCORS(headers, stk)
<1>1. /\ Len(w) = Len(ws) /\ Queue(w)
      /\ Last(ws).status # 0 => w = ws
  BY WrittenLast
<1>2. Len(w) = 1 /\ Last(w) = w[1]
  BY <1>1, FirstOnly
<1>3. CASE Last(ws).status = 0
  <2> DEFINE r == [status |-> status, body |-> body,
                   headers |-> IF Len(ws) = 1 THEN WithCORS(headers, stk) ELSE headers]
  <2>1. w = Append(Front(ws), r)
    BY <1>3 DEF Written
  <2>2. r.headers = WithCORS(headers, stk)
    BY <1>1, <1>2
  <2> HIDE DEF r
  <2>3. IsList(Front(ws)) /\ Len(Front(ws)) = Len(ws) - 1 /\ Len(ws) \in Nat
    BY ListFront DEF Queue
  <2>4. Len(w) = Len(Front(ws)) + 1 /\ w[Len(Front(ws)) + 1] = r
    BY <2>1, <2>3, ListAppend
  <2>5. w[Len(w)] = r
    BY <2>4
  <2>6. w[1] = r
    BY <1>2, <2>5
  <2>7. QED
    BY <2>2, <2>6
<1>4. CASE Last(ws).status # 0
  BY <1>1, <1>4
<1>5. QED
  BY <1>3, <1>4

\* The CORS middleware of a route is the first layer after the outer ones, and
\* there is no other.
LEMMA CorsPlace ==
  ASSUME WellFormed, Served # 0, ctx.route = Served, NEW k, CorsIn(k)
  PROVE  /\ k = 1 /\ Path[5] = Chain[k] /\ 5 \in 1..Len(Path)
         /\ \A n \in 1..Len(Path) : Path[n].type = "cors" => Path[n] = Chain[k]
<1>1. k = 1 /\ Len(Before) >= 1 /\ Inner[1] = Chain[1]
  BY CorsOutermost DEF CorsIn
<1>2. IsList(Before) /\ IsList(Around) /\ Len(Inner) = Len(Before) + Len(Around) + 1
  BY InnerFacts
<1>3. 1 \in 1..Len(Inner)
  BY <1>1, <1>2, ListSeq
<1>4. Path[4 + 1] = Inner[1] /\ Len(Path) \in Nat /\ Len(Path) >= 5
  BY <1>3, PathFacts
<1>5. ASSUME NEW n \in 1..Len(Path), Path[n].type = "cors" PROVE Path[n] = Chain[k]
  <2>1. "cors" \in DOMAIN Zero
    BY Types
  <2>2. n \in 5..Len(Path) - 1
    BY <1>5, <2>1, LayerAt
  <2>3. PICK j \in DOMAIN Chain : Path[n] = Chain[j]
    BY <2>2, PathFacts
  <2>4. j = 1
    BY <1>5, <2>3, CorsOutermost
  <2>5. QED
    BY <1>1, <2>3, <2>4
<1>6. QED
  BY <1>1, <1>4, <1>5

\* Over such a stack, the CORS writer puts in the headers of that middleware or,
\* when it is not there yet, nothing.
LEMMA CorsWriter ==
  ASSUME WellFormed, Served # 0, ctx.route = Served, CrossOrigin, NEW k, CorsIn(k),
         NEW stk, IsList(stk), Len(stk) <= Len(Path), \A i \in 1..Len(stk) : stk[i].layer = Path[i],
         NEW headers
  PROVE  /\ \/ WithCORS(headers, stk) = headers
            \/ WithCORS(headers, stk) = injectCORSHeaders(headers, Origin, Chain[k].config)
         /\ Len(stk) >= 5 => WithCORS(headers, stk) = injectCORSHeaders(headers, Origin, Chain[k].config)
<1> DEFINE I == {i \in 1..Len(stk) : stk[i].layer.type = "cors"}
           i == SelectInSeq(stk, LAMBDA frame : frame.layer.type = "cors")
<1>1. WithCORS(headers, stk) = IF i = 0 THEN headers ELSE injectCORSHeaders(headers, Origin, stk[i].layer.config)
  BY Zenon DEF WithCORS, Origin, CrossOrigin
<1>2. i = IF I # {} THEN Min(I) ELSE 0
  BY DEF SelectInSeq
<1>3. Len(stk) \in Nat /\ Len(Path) \in Nat
  BY ListSeq, PathFacts
<1>4. I \in SUBSET Nat /\ 0 \notin I
  BY <1>3
<1> HIDE DEF i
<1>5. (i # 0 <=> I # {}) /\ (i # 0 => i \in I)
  <2> HIDE DEF I
  <2>1. QED
    BY <1>2, <1>4, FirstPlace
<1>6. i # 0 => stk[i].layer.config = Chain[k].config
  <2> SUFFICES ASSUME i \in 1..Len(stk), stk[i].layer.type = "cors" PROVE stk[i].layer.config = Chain[k].config
    BY <1>5
  <2>1. stk[i].layer = Path[i] /\ i \in 1..Len(Path)
    BY <1>3
  <2>2. QED
    BY <2>1, CorsPlace
<1>7. Len(stk) >= 5 => i # 0
  <2> SUFFICES ASSUME Len(stk) >= 5 PROVE 5 \in I
    BY <1>5
  <2>1. 5 \in 1..Len(stk)
    BY <1>3
  <2>2. Path[5].type = "cors"
    BY CorsPlace DEF CorsIn
  <2>3. QED
    BY <2>1, <2>2
<1> HIDE DEF I
<1>8. QED
  BY <1>1, <1>6, <1>7, Zenon

\* An answer of a layer reaches the client through the CORS writer.
LEMMA ReplyReadable ==
  ASSUME Base, Served # 0, CrossOrigin, NEW k, CorsIn(k),
         NEW status, NEW headers, Replies(status, headers)
  PROVE  Allows(WithCORS(headers, stack), Chain[k].config)
<1>1. /\ WellFormed /\ IsList(stack) /\ Depth < Len(Path)
      /\ \A i \in 1..Depth : stack[i].layer = Path[i]
  BY DEF Base, Shape
<1>2. Depth \in Nat /\ Len(Path) \in Nat /\ Len(stack) = Depth
  BY <1>1, Position DEF Base, Depth
<1>3. PICK type \in {"cors", "auth", "rate_limit", "transform", "proxy"} :
        /\ At(type)
        /\ type = "cors" => headers = handlePreflight(Out.headers, Get(cur.headers, "Origin"), Settings)
  BY DEF Replies
<1>4. type \in DOMAIN Zero \cup {"proxy"}
  BY Types
<1>5. /\ mode = "in" /\ Head(todo).type = type /\ Depth >= 4 /\ ctx.route = Served
  BY <1>3, <1>4, Entering
<1>6. Head(todo) = Path[Depth + 1] /\ Depth + 1 \in 1..Len(Path)
  BY <1>1, <1>5, Position DEF Base
<1>7. /\ k = 1 /\ Path[5] = Chain[k]
      /\ \A n \in 1..Len(Path) : Path[n].type = "cors" => Path[n] = Chain[k]
  BY <1>1, <1>5, CorsPlace
<1>8. /\ \/ WithCORS(headers, stack) = headers
         \/ WithCORS(headers, stack) = injectCORSHeaders(headers, Origin, Chain[k].config)
      /\ Depth >= 5 => WithCORS(headers, stack) = injectCORSHeaders(headers, Origin, Chain[k].config)
  <2>1. /\ Len(stack) <= Len(Path) /\ \A i \in 1..Len(stack) : stack[i].layer = Path[i]
    BY <1>1, <1>2
  <2>2. QED
    BY <1>1, <1>2, <1>5, <2>1, CorsWriter
<1>9. Allows(injectCORSHeaders(headers, Origin, Chain[k].config), Chain[k].config)
  BY WrittenReadable
<1>10. CASE type = "cors"
  <2>1. Settings = Chain[k].config
    BY <1>5, <1>6, <1>7, <1>10 DEF Settings
  <2>2. cur.headers = Seen.headers
    BY <1>3, <1>10, EnteredFacts, Types
  <2>3. Get(cur.headers, "Origin") = Origin
    <3>1. Seen.headers = Set(req.headers, "X-Request-ID", RequestID(req.headers))
      BY <1>1, SeenFacts
    <3>2. "Origin" # "X-Request-ID"
      OBVIOUS
    <3>3. QED
      BY <2>2, <3>1, <3>2, ZenonT(60) DEF Get, Set, Origin
  <2>4. Allows(headers, Chain[k].config)
    BY <1>3, <1>10, <2>1, <2>3, WrittenReadable
  <2>5. QED
    BY <1>8, <1>9, <2>4
<1>11. CASE type # "cors"
  <2>1. Depth # 4
    BY <1>5, <1>6, <1>7, <1>11 DEF CorsIn
  <2>2. Depth >= 5
    BY <1>2, <1>5, <2>1
  <2>3. QED
    BY <1>8, <1>9, <2>2
<1>12. QED
  BY <1>10, <1>11

\* So does a response that was held back.
LEMMA ReleaseReadable ==
  ASSUME Base, Served # 0, CrossOrigin, NEW k, CorsIn(k), NEW headers,
         mode = "out", stack # <<>>, Buffers(Top.layer)
  PROVE  Allows(WithCORS(headers, Rest), Chain[k].config)
<1>1. /\ WellFormed /\ IsList(stack) /\ Depth < Len(Path) /\ ctx.route = Served
      /\ \A i \in 1..Depth : stack[i].layer = Path[i]
  BY DEF Base, Shape, Carried
<1>2. /\ Depth \in Nat /\ Depth > 0 /\ Top.layer = Path[Depth]
      /\ Top.layer.type \in DOMAIN Zero <=> Depth > 4
  BY LeavingFacts
<1>3. Top.layer.type = "transform"
  BY DEF Buffers
<1>4. /\ Path[5] = Chain[k] /\ Chain[k].type = "cors" /\ Len(Path) \in Nat
  BY <1>1, CorsPlace, Position DEF Base, CorsIn
<1>5. Depth > 5
  <2>1. Depth > 4
    BY <1>2, <1>3, Types
  <2>2. Depth # 5
    BY <1>2, <1>3, <1>4
  <2>3. QED
    BY <1>2, <2>1, <2>2
<1>6. /\ IsList(Rest) /\ Len(Rest) = Depth - 1
      /\ \A i \in 1..Depth - 1 : Rest[i] = stack[i]
  BY <1>1, <1>2, ListFront DEF Rest, Depth
<1>7. /\ Len(Rest) >= 5 /\ Len(Rest) <= Len(Path)
      /\ \A i \in 1..Len(Rest) : Rest[i].layer = Path[i]
  BY <1>1, <1>2, <1>4, <1>5, <1>6
<1>8. WithCORS(headers, Rest) = injectCORSHeaders(headers, Origin, Chain[k].config)
  BY <1>1, <1>6, <1>7, CorsWriter
<1>9. QED
  BY <1>8, WrittenReadable

\* No step leaves an answer that cannot be read.
LEMMA ReadableStep == ASSUME Base, Readable, [Next]_vars PROVE Readable'
<1>1. Base' /\ Chain' = Chain /\ Served' = Served /\ req' = req
  BY BaseStep, GivenStays
<1>2. Origin' = Origin
  BY <1>1 DEF Origin
<1>3. /\ CrossOrigin' = CrossOrigin /\ Recovered' = Recovered
      /\ \A k : CorsIn(k)' = CorsIn(k)
      /\ \A h, c : Allows(h, c)' = Allows(h, c)
  <2>1. CrossOrigin' = CrossOrigin
    BY <1>2, Zenon DEF CrossOrigin
  <2>2. Recovered' = Recovered /\ \A k : CorsIn(k)' = CorsIn(k)
    BY <1>1, Zenon DEF Recovered, CorsIn
  <2>3. \A h, c : Allows(h, c)' = Allows(h, c)
    BY <1>2 DEF Allows
  <2>4. QED
    BY <2>1, <2>2, <2>3
<1>4. SUFFICES ASSUME Served # 0, CrossOrigin, sent'.status # 0, sent'.body # Recovered, NEW k, CorsIn(k)
               PROVE  Allows(sent'.headers, Chain[k].config)
  <2>1. Readable' <=> (Served' # 0 /\ CrossOrigin' /\ sent'.status # 0 =>
                         sent'.body = Recovered' \/ \A k : CorsIn(k)' => Allows(sent.headers, Chain[k].config)')
    BY Zenon DEF Readable
  <2>2. \A k : Allows(sent.headers, Chain[k].config)' = Allows(sent'.headers, Chain[k].config)
    BY <1>1, <1>2 DEF Allows
  <2>3. QED
    BY <1>1, <1>3, <2>1, <2>2, Zenon
<1>5. Queue(writers) /\ Queue(writers')
  BY <1>1 DEF Base, Responses
<1>6. ASSUME sent' = sent PROVE Allows(sent'.headers, Chain[k].config)
  BY <1>4, <1>6 DEF Readable
<1>7. Writes
  BY Writing
<1>8. writers'[1].status # 0 /\ sent' = writers'[1]
  BY <1>4 DEF sent
<1>9. Len(writers') = 1 /\ Last(writers') = writers'[1]
  BY <1>5, <1>8, FirstOnly
<1>10. CASE mode' = "in"
  <2>1. (Last(writers).status = 0)'
    BY <1>1, <1>10 DEF Base, Responses, Out
  <2>2. QED
    BY <1>8, <1>9, <2>1
<1>11. CASE writers' = writers
  BY <1>6, <1>11 DEF sent
<1>12. ASSUME NEW status, NEW headers, NEW body, status # 0, Replies(status, headers),
              writers' = Written(writers, stack, status, headers, body)
       PROVE  Allows(sent'.headers, Chain[k].config)
  <2>1. writers'[1] = writers[1] \/ writers'[1].headers = WithCORS(headers, stack)
    BY <1>5, <1>8, <1>12, WrittenFirst
  <2>2. Allows(WithCORS(headers, stack), Chain[k].config)
    BY <1>4, <1>12, ReplyReadable
  <2>3. QED
    BY <1>6, <1>8, <2>1, <2>2 DEF sent
<1>13. ASSUME mode = "out", stack # <<>>, Buffers(Top.layer),
              NEW status, NEW headers, NEW body, status \in {502, Out.status},
              writers' = Written(Front(writers), Rest, status, headers, body)
       PROVE  Allows(sent'.headers, Chain[k].config)
  <2>1. Width > 1 /\ Out.status # 0 /\ Width \in Nat
    BY <1>5, <1>13, HeldAtTop DEF Base, Responses, Queue, Width
  <2>2. Queue(Front(writers)) /\ Front(writers)[1] = writers[1]
    <3>1. Queue(Front(writers))
      BY <1>5, <2>1, DropFacts DEF Width
    <3>2. \A i \in 1..Width - 1 : Front(writers)[i] = writers[i]
      BY <1>5, <2>1, DropFacts DEF Width
    <3>3. 1 \in 1..Width - 1
      BY <2>1
    <3>4. QED
      BY <3>1, <3>2, <3>3
  <2>3. status # 0
    BY <1>13, <2>1
  <2>4. writers'[1] = Front(writers)[1] \/ writers'[1].headers = WithCORS(headers, Rest)
    BY <1>8, <1>13, <2>2, <2>3, WrittenFirst
  <2>5. Allows(WithCORS(headers, Rest), Chain[k].config)
    BY <1>4, <1>13, ReleaseReadable
  <2>6. QED
    BY <1>6, <1>8, <2>2, <2>4, <2>5 DEF sent
<1>14. CASE Recovery
  <2>1. Settled(writers', <<sent>>, 500, Recovered)
    BY <1>14, RecoveryKeeps
  <2>2. Last(<<sent>>) = sent /\ <<sent>>[1] = sent
    BY DEF Last
  <2>3. CASE sent.status = 0
    <3>1. Last(writers').body = Recovered
      BY <2>1, <2>2, <2>3 DEF Settled
    <3>2. QED
      BY <1>4, <1>8, <1>9, <3>1
  <2>4. CASE sent.status # 0
    <3>1. writers' = <<sent>>
      BY <2>1, <2>2, <2>4 DEF Settled
    <3>2. sent' = sent
      BY <1>8, <2>2, <3>1
    <3>3. QED
      BY <1>6, <3>2
  <2>5. QED
    BY <2>3, <2>4
<1>15. (\E status, headers, body : /\ status # 0 /\ Replies(status, headers)
                                   /\ writers' = Written(writers, stack, status, headers, body))
         => Allows(sent'.headers, Chain[k].config)
  BY <1>12
<1>16. /\ mode = "out" /\ stack # <<>> /\ Buffers(Top.layer)
       /\ \E status, headers, body : /\ status \in {502, Out.status}
                                     /\ writers' = Written(Front(writers), Rest, status, headers, body)
       => Allows(sent'.headers, Chain[k].config)
  BY <1>13
<1>17. QED
  BY <1>7, <1>10, <1>11, <1>14, <1>15, <1>16 DEF Writes

\* A browser can read every answer of a route with CORS for an origin that is
\* allowed, refusals and errors of the gateway included, but for the answer to a
\* panic.
THEOREM AnswersReadable == Spec => []CorsReadable
<1>1. Init => Base /\ Readable
  <2> SUFFICES ASSUME Init PROVE Readable
    BY BaseInit
  <2>1. sent.status = 0
    BY DEF Init, sent, Unwritten
  <2>2. QED
    BY <2>1 DEF Readable
<1>2. Base /\ Readable /\ [Next]_vars => (Base /\ Readable)'
  BY BaseStep, ReadableStep
<1>3. Readable => CorsReadable
  BY Zenon DEF Readable, CorsReadable, CorsIn, Allows, Origin, CrossOrigin
<1>4. QED
  BY <1>1, <1>2, <1>3, PTL DEF Spec

(***************************************************************************)
(* Routing.                                                                *)
(***************************************************************************)

\* A set of places has a last one.
LEMMA LastPlace ==
  ASSUME NEW n \in Nat, NEW S, S \subseteq 1..n, S # {}
  PROVE  Max(S) \in S /\ \A x \in S : x <= Max(S)
<1> DEFINE T == {n - x : x \in S}
<1>1. T \in SUBSET Nat /\ T # {}
  <2>1. \A x \in S : n - x \in Nat
    OBVIOUS
  <2>2. QED
    BY <2>1, Zenon
<1>2. Min(T) \in T /\ \A y \in T : Min(T) <= y
  <2> HIDE DEF T
  <2>1. QED
    BY <1>1, FirstPlace
<1>3. PICK m \in S : Min(T) = n - m
  BY <1>2
<1>4. \A x \in S : m >= x
  <2> SUFFICES ASSUME NEW x \in S PROVE m >= x
    OBVIOUS
  <2>1. n - m <= n - x
    BY <1>2, <1>3
  <2>2. QED
    BY <2>1
<1>5. \E k \in S : \A x \in S : k >= x
  BY <1>4
<1>6. Max(S) \in S /\ \A x \in S : Max(S) >= x
  BY <1>5 DEF Max
<1>7. QED
  BY <1>6

\* The start of a list.
LEMMA StartFacts ==
  ASSUME NEW s, IsList(s), NEW n \in 0..Len(s)
  PROVE  /\ IsList(SubSeq(s, 1, n)) /\ Len(SubSeq(s, 1, n)) = n
         /\ \A i \in 1..n : SubSeq(s, 1, n)[i] = s[i]
<1> DEFINE S == Range(s) \cup {0}
<1>1. s \in Seq(S) /\ Len(s) \in Nat
  BY ListSeq
<1> HIDE DEF S
<1>2. /\ SubSeq(s, 1, n) \in Seq(S) /\ Len(SubSeq(s, 1, n)) = n
      /\ \A i \in 1..n : SubSeq(s, 1, n)[i] = s[i]
  BY <1>1
<1>3. QED
  BY <1>2, SeqList

\* Lists are the same when their entries are.
LEMMA SameList ==
  ASSUME NEW s, IsList(s), NEW t, IsList(t)
  PROVE  s = t <=> Len(s) = Len(t) /\ \A i \in 1..Len(s) : s[i] = t[i]
  BY DEF IsList

\* A list starts with another.
LEMMA PrefixFacts ==
  ASSUME NEW s, IsList(s), NEW t, IsList(t)
  PROVE  IsPrefix(s, t) <=> Len(s) <= Len(t) /\ \A i \in 1..Len(s) : s[i] = t[i]
<1>1. Len(s) \in Nat /\ Len(t) \in Nat
  BY ListSeq
<1>2. CASE Len(s) <= Len(t)
  <2>1. Len(s) \in 0..Len(s) /\ Len(s) \in 0..Len(t)
    BY <1>1, <1>2
  <2> DEFINE a == SubSeq(s, 1, Len(s))
             b == SubSeq(t, 1, Len(s))
  <2>2. /\ IsList(a) /\ IsList(b) /\ Len(a) = Len(s) /\ Len(b) = Len(s)
        /\ \A i \in 1..Len(s) : a[i] = s[i] /\ b[i] = t[i]
    BY <2>1, StartFacts
  <2>3. IsPrefix(s, t) <=> a = b
    BY <1>2 DEF IsPrefix
  <2> HIDE DEF a, b
  <2>4. a = b <=> \A i \in 1..Len(s) : a[i] = b[i]
    BY <2>2, SameList
  <2>5. QED
    BY <1>2, <2>2, <2>3, <2>4
<1>3. QED
  BY <1>2 DEF IsPrefix

\* A list the other way round.
LEMMA ReverseFacts ==
  ASSUME NEW s, IsList(s)
  PROVE  /\ IsList(Reverse(s)) /\ Len(Reverse(s)) = Len(s)
         /\ \A i \in 1..Len(s) : Reverse(s)[i] = s[Len(s) - i + 1]
<1>1. Len(s) \in Nat
  BY ListSeq
<1>2. Reverse(s) = [i \in 1..Len(s) |-> s[(Len(s) - i) + 1]]
  BY DEF Reverse
<1> DEFINE n == Len(s)
<1>3. Reverse(s) \in Seq({s[i] : i \in 1..n}) /\ Len(Reverse(s)) = n
  BY <1>1, <1>2
<1>4. QED
  BY <1>2, <1>3, SeqList

\* A list ends with another.
LEMMA SuffixFacts ==
  ASSUME NEW s, IsList(s), NEW t, IsList(t)
  PROVE  IsSuffix(s, t) <=> Len(s) <= Len(t) /\ \A i \in 1..Len(s) : s[i] = t[Len(t) - Len(s) + i]
<1>1. Len(s) \in Nat /\ Len(t) \in Nat
  BY ListSeq
<1> DEFINE a == Reverse(s)
           b == Reverse(t)
<1>2. /\ IsList(a) /\ Len(a) = Len(s) /\ \A i \in 1..Len(s) : a[i] = s[Len(s) - i + 1]
      /\ IsList(b) /\ Len(b) = Len(t) /\ \A i \in 1..Len(t) : b[i] = t[Len(t) - i + 1]
  BY ReverseFacts
<1>3. IsSuffix(s, t) <=> IsPrefix(a, b)
  BY DEF IsSuffix
<1> HIDE DEF a, b
<1>4. IsPrefix(a, b) <=> Len(s) <= Len(t) /\ \A i \in 1..Len(s) : a[i] = b[i]
  BY <1>2, PrefixFacts
<1>5. ASSUME Len(s) <= Len(t)
      PROVE  (\A i \in 1..Len(s) : a[i] = b[i]) <=> \A i \in 1..Len(s) : s[i] = t[Len(t) - Len(s) + i]
  <2>1. ASSUME \A i \in 1..Len(s) : a[i] = b[i], NEW i \in 1..Len(s)
        PROVE  s[i] = t[Len(t) - Len(s) + i]
    <3> DEFINE j == Len(s) - i + 1
    <3>1. j \in 1..Len(s) /\ j \in 1..Len(t) /\ Len(s) - j + 1 = i /\ Len(t) - j + 1 = Len(t) - Len(s) + i
      BY <1>1, <1>5
    <3> HIDE DEF j
    <3>2. a[j] = b[j] /\ a[j] = s[Len(s) - j + 1] /\ b[j] = t[Len(t) - j + 1]
      BY <1>2, <2>1, <3>1
    <3>3. QED
      BY <3>1, <3>2
  <2>2. ASSUME \A i \in 1..Len(s) : s[i] = t[Len(t) - Len(s) + i], NEW i \in 1..Len(s)
        PROVE  a[i] = b[i]
    <3> DEFINE j == Len(s) - i + 1
    <3>1. j \in 1..Len(s) /\ i \in 1..Len(t) /\ Len(t) - Len(s) + j = Len(t) - i + 1
      BY <1>1, <1>5
    <3> HIDE DEF j
    <3>2. a[i] = s[Len(s) - i + 1] /\ b[i] = t[Len(t) - i + 1]
      BY <1>2, <3>1
    <3>3. s[j] = t[Len(t) - Len(s) + j]
      BY <2>2, <3>1
    <3>4. QED
      BY <3>1, <3>2, <3>3 DEF j
  <2>3. QED
    BY <2>1, <2>2
<1>6. QED
  BY <1>3, <1>4, <1>5

\* A token in lower case.
Low(t) == IF t \in DOMAIN Lower THEN Lower[t] ELSE t

\* Lower case, token by token; only labels change.
LEMMA LowFacts ==
  /\ \A s : IsList(s) => /\ IsList(ToLower(s)) /\ Len(ToLower(s)) = Len(s)
                         /\ \A i \in 1..Len(s) : ToLower(s)[i] = Low(s[i])
  /\ \A t, u : SameToken(t, u) <=> Low(t) = Low(u)
  /\ \A t : (Low(t) = "." <=> t = ".") /\ (Low(t) = "*" <=> t = "*")
<1>1. ASSUME NEW s, IsList(s)
      PROVE  /\ IsList(ToLower(s)) /\ Len(ToLower(s)) = Len(s)
             /\ \A i \in 1..Len(s) : ToLower(s)[i] = Low(s[i])
  <2>1. DOMAIN s = 1..Len(s) /\ Len(s) \in Nat
    BY <1>1, ListSeq
  <2>2. ToLower(s) = [i \in 1..Len(s) |-> Low(s[i])]
    BY <2>1 DEF ToLower, Low
  <2> DEFINE n == Len(s)
  <2>3. ToLower(s) \in Seq({Low(s[i]) : i \in 1..n}) /\ Len(ToLower(s)) = n
    BY <2>1, <2>2
  <2>4. QED
    BY <2>2, <2>3, SeqList
<1>2. ASSUME NEW t, NEW u PROVE SameToken(t, u) <=> Low(t) = Low(u)
  <2>1. \A v : DOMAIN <<v>> = 1..1 /\ <<v>>[1] = v
    OBVIOUS
  <2>2. \A v : ToLower(<<v>>) = [i \in 1..1 |-> Low(v)]
    <3> SUFFICES ASSUME NEW v PROVE ToLower(<<v>>) = [i \in 1..1 |-> Low(v)]
      OBVIOUS
    <3>1. \A i \in 1..1 : i = 1
      OBVIOUS
    <3>2. QED
      BY <2>1, <3>1 DEF ToLower, Low
  <2> HIDE DEF Low
  <2>3. 1 \in 1..1
    OBVIOUS
  <2>4. ToLower(<<t>>) = ToLower(<<u>>) <=> Low(t) = Low(u)
    <3> DEFINE a == ToLower(<<t>>)
               b == ToLower(<<u>>)
    <3>1. a = [i \in 1..1 |-> Low(t)] /\ b = [i \in 1..1 |-> Low(u)]
      BY <2>2
    <3> HIDE DEF a, b
    <3>2. a[1] = Low(t) /\ b[1] = Low(u)
      BY <2>3, <3>1
    <3>3. a = b <=> Low(t) = Low(u)
      BY <3>1, <3>2
    <3>4. QED
      BY <3>3 DEF a, b
  <2>5. QED
    BY <2>4 DEF SameToken
<1>3. ASSUME NEW t PROVE (Low(t) = "." <=> t = ".") /\ (Low(t) = "*" <=> t = "*")
  BY LowerAssumption DEF Low
<1>4. QED
  BY <1>1, <1>2, <1>3

\* The host without its port.
LEMMA PortFacts ==
  ASSUME NEW host, IsList(host), NEW h, h = StripPort(host)
  PROVE  /\ IsList(h) /\ Len(h) \in 0..Len(host)
         /\ \A i \in 1..Len(h) : h[i] = host[i]
         /\ \A n \in 0..Len(host) : Portless(host, n) <=> n = Len(h)
<1> DEFINE C == {i \in 1..Len(host) : host[i] = ":"}
           colon == IF C # {} THEN Max(C) ELSE 0
<1>1. Len(host) \in Nat
  BY ListSeq
<1>2. h = IF colon = 0 THEN host ELSE SubSeq(host, 1, colon - 1)
  BY DEF StripPort, SelectLastInSeq
<1>3. \A n : Portless(host, n) <=> IF C = {} THEN n = Len(host) ELSE n + 1 \in C /\ \A i \in C : i <= n + 1
  BY DEF Portless
<1>4. C \subseteq 1..Len(host)
  OBVIOUS
<1> HIDE DEF C
<1>5. CASE C = {}
  BY <1>1, <1>2, <1>3, <1>5
<1>6. CASE C # {}
  <2>1. Max(C) \in C /\ \A x \in C : x <= Max(C)
    BY <1>1, <1>4, <1>6, LastPlace
  <2> DEFINE m == Max(C)
  <2> HIDE DEF m
  <2>2. m \in 1..Len(host) /\ m \in C /\ \A x \in C : x <= m
    BY <1>4, <2>1 DEF m
  <2>3. h = SubSeq(host, 1, m - 1) /\ m - 1 \in 0..Len(host)
    BY <1>1, <1>2, <1>6, <2>2 DEF m
  <2>4. IsList(h) /\ Len(h) = m - 1 /\ \A i \in 1..m - 1 : h[i] = host[i]
    BY <2>3, StartFacts
  <2>5. ASSUME NEW n \in 0..Len(host) PROVE Portless(host, n) <=> n = m - 1
    <3>1. Portless(host, n) <=> n + 1 \in C /\ \A i \in C : i <= n + 1
      BY <1>3, <1>6
    <3>2. n + 1 \in C /\ (\A i \in C : i <= n + 1) => n + 1 <= m /\ m <= n + 1
      BY <2>2
    <3>3. n + 1 <= m /\ m <= n + 1 => n = m - 1
      BY <1>1, <2>2
    <3>4. n = m - 1 => n + 1 = m
      BY <1>1, <2>2
    <3>5. QED
      BY <2>2, <3>1, <3>2, <3>3, <3>4
  <2>6. QED
    BY <2>3, <2>4, <2>5
<1>7. QED
  BY <1>5, <1>6

\* A pattern that is valid and has a wildcard starts with it.
LEMMA WildcardFirst ==
  ASSUME NEW pattern, IsList(pattern), validateHostPattern(pattern)
  PROVE  /\ Len(pattern) \in Nat /\ Len(pattern) > 0
         /\ pattern[1] = "*" => Len(pattern) > 1 /\ pattern[2] = "."
<1>1. Len(pattern) \in Nat /\ DOMAIN pattern = 1..Len(pattern)
  BY ListSeq
<1> DEFINE head == <<"*", ".">>
<1>2. head \in Seq({"*", "."}) /\ Len(head) = 2 /\ head[1] = "*" /\ head[2] = "."
  OBVIOUS
<1> HIDE DEF head
<1>3. IsList(head)
  BY <1>2, SeqList
<1>4. CASE Contains(pattern, "*")
  <2>1. IsPrefix(head, pattern)
    BY <1>4 DEF validateHostPattern, head
  <2>2. Len(head) <= Len(pattern) /\ \A i \in 1..Len(head) : head[i] = pattern[i]
    BY <1>3, <2>1, PrefixFacts
  <2>3. 2 <= Len(pattern) /\ 2 \in 1..Len(head)
    BY <1>1, <1>2, <2>2
  <2>4. QED
    BY <1>1, <1>2, <2>2, <2>3
<1>5. CASE ~Contains(pattern, "*")
  <2>1. ~EmptyLabel(pattern)
    BY <1>5 DEF validateHostPattern
  <2>2. pattern # <<>>
    BY <2>1 DEF EmptyLabel
  <2>3. Len(pattern) > 0
    BY <1>1, <2>2, NoLength
  <2>4. pattern[1] # "*"
    BY <1>1, <1>5, <2>3 DEF Contains
  <2>5. QED
    BY <1>1, <2>3, <2>4
<1>6. QED
  BY <1>4, <1>5

\* The router's test of hosts is what the pattern declares.
LEMMA HostRight ==
  ASSUME NEW host, IsList(host), NEW pattern, IsList(pattern),
         pattern = <<>> \/ validateHostPattern(pattern)
  PROVE  HostMatches(pattern, host) <=> HostDeclared(pattern, host)
<1>1. CASE pattern = <<>>
  BY <1>1 DEF HostMatches, HostDeclared
<1>2. CASE pattern # <<>>
  <2> DEFINE bare == StripPort(host)
             h == ToLower(bare)
             p == ToLower(pattern)
             N == Len(h)
             P == Len(pattern)
  <2>1. /\ P \in Nat /\ P > 0
        /\ pattern[1] = "*" => P > 1 /\ pattern[2] = "."
    BY <1>2, WildcardFirst
  <2>2. /\ IsList(bare) /\ Len(bare) \in 0..Len(host)
        /\ \A i \in 1..Len(bare) : bare[i] = host[i]
        /\ \A n \in 0..Len(host) : Portless(host, n) <=> n = Len(bare)
    BY PortFacts
  <2>3. HostDeclared(pattern, host) <=> \E n \in 0..Len(host) : Portless(host, n) /\ Fits(pattern, host, n)
    BY <1>2, Zenon DEF HostDeclared
  <2>4. HostMatches(pattern, host) <=> IF IsPrefix(<<"*", ".">>, p) THEN WildcardMatches(Tail(p), h) ELSE h = p
    BY <1>2, Zenon DEF HostMatches
  <2> HIDE DEF bare
  <2>5. /\ IsList(h) /\ N = Len(bare) /\ \A i \in 1..N : h[i] = Low(host[i])
        /\ IsList(p) /\ Len(p) = P /\ \A i \in 1..P : p[i] = Low(pattern[i])
    BY <2>2, LowFacts
  <2>6. N \in Nat /\ N \in 0..Len(host)
    BY <2>2, <2>5, ListSeq
  <2> HIDE DEF h, p, N, P
  <2>7. HostDeclared(pattern, host) <=> Fits(pattern, host, N)
    BY <2>2, <2>3, <2>5, <2>6
  <2>8. IsPrefix(<<"*", ".">>, p) <=> pattern[1] = "*"
    <3> DEFINE head == <<"*", ".">>
    <3>1. head \in Seq({"*", "."}) /\ Len(head) = 2 /\ head[1] = "*" /\ head[2] = "."
      OBVIOUS
    <3> HIDE DEF head
    <3>2. IsList(head)
      BY <3>1, SeqList
    <3>3. IsPrefix(head, p) <=> 2 <= P /\ \A i \in 1..2 : head[i] = p[i]
      <4>1. IsPrefix(head, p) <=> Len(head) <= Len(p) /\ \A i \in 1..Len(head) : head[i] = p[i]
        BY <2>5, <3>2, PrefixFacts
      <4>2. QED
        BY <2>5, <3>1, <4>1
    <3>4. ASSUME pattern[1] = "*" PROVE IsPrefix(head, p)
      <4>1. 2 <= P /\ p[1] = Low("*") /\ p[2] = Low(".")
        BY <2>1, <2>5, <3>4
      <4>2. p[1] = "*" /\ p[2] = "."
        BY <4>1, LowFacts
      <4>3. \A i \in 1..2 : head[i] = p[i]
        BY <3>1, <4>2
      <4>4. QED
        BY <3>3, <4>1, <4>3
    <3>5. ASSUME IsPrefix(head, p) PROVE pattern[1] = "*"
      <4>1. p[1] = "*" /\ p[1] = Low(pattern[1])
        BY <2>1, <2>5, <3>1, <3>3, <3>5
      <4>2. QED
        BY <4>1, LowFacts
    <3>6. QED
      BY <3>4, <3>5 DEF head
  <2>9. CASE pattern[1] # "*"
    <3>1. HostMatches(pattern, host) <=> h = p
      BY <2>4, <2>8, <2>9
    <3>2. h = p <=> N = P /\ \A i \in 1..N : h[i] = p[i]
      BY <2>5, SameList DEF N
    <3>3. N = P => \A i \in 1..N : h[i] = p[i] <=> SameToken(host[i], pattern[i])
      BY <2>5, LowFacts
    <3>4. Fits(pattern, host, N) <=> N = P /\ \A i \in 1..N : SameToken(host[i], pattern[i])
      BY <2>9 DEF Fits, P
    <3>5. QED
      BY <2>7, <3>1, <3>2, <3>3, <3>4
  <2>10. CASE pattern[1] = "*"
    <3> DEFINE t == Tail(p)
               W == N - (P - 1)
               pre == SubSeq(h, 1, N - Len(t))
    <3>1. HostMatches(pattern, host) <=> IsSuffix(t, h) /\ pre # <<>> /\ ~Contains(pre, ".")
      BY <2>4, <2>8, <2>10, Zenon DEF WildcardMatches, N
    <3>2. IsList(t) /\ Len(t) = P - 1 /\ \A i \in 1..P - 1 : t[i] = p[i + 1]
      BY <2>1, <2>5, ListTail
    <3> HIDE DEF t
    <3>3. IsSuffix(t, h) <=> P - 1 <= N /\ \A i \in 1..P - 1 : t[i] = h[W + i]
      <4>1. IsSuffix(t, h) <=> Len(t) <= N /\ \A i \in 1..Len(t) : t[i] = h[N - Len(t) + i]
        BY <2>5, <3>2, SuffixFacts, ZenonT(60) DEF N
      <4>2. QED
        BY <3>2, <4>1
    <3>4. W \in Int /\ (P - 1 <= N => W \in 0..N) /\ pre = SubSeq(h, 1, W)
      BY <2>1, <2>6, <3>2
    <3> HIDE DEF pre
    <3>5. ASSUME P - 1 <= N
          PROVE  /\ pre # <<>> <=> W > 0
                 /\ ~Contains(pre, ".") <=> \A i \in 1..W : host[i] # "."
      <4>1. IsList(pre) /\ Len(pre) = W /\ \A i \in 1..W : pre[i] = h[i]
        BY <2>5, <3>4, <3>5, StartFacts DEF N
      <4>2. pre # <<>> <=> W # 0
        BY <4>1, NoLength
      <4>3. ~Contains(pre, ".") <=> \A i \in 1..W : pre[i] # "."
        BY <4>1 DEF Contains
      <4>4. \A i \in 1..W : pre[i] = "." <=> host[i] = "."
        <5>1. \A i \in 1..W : i \in 1..N
          BY <2>6, <3>4, <3>5
        <5>2. QED
          BY <2>5, <4>1, <5>1, LowFacts
      <4>5. QED
        BY <3>4, <3>5, <4>2, <4>3, <4>4
    <3>6. ASSUME P - 1 <= N
          PROVE  (\A i \in 1..P - 1 : t[i] = h[W + i])
                   <=> \A i \in W + 1..N : SameToken(host[i], pattern[i - W + 1])
      <4>1. ASSUME NEW i \in 1..P - 1
            PROVE  t[i] = h[W + i] <=> SameToken(host[W + i], pattern[i + 1])
        <5>1. W + i \in 1..N /\ i + 1 \in 1..P
          BY <2>1, <2>6, <3>6
        <5>2. t[i] = Low(pattern[i + 1]) /\ h[W + i] = Low(host[W + i])
          BY <2>5, <3>2, <5>1
        <5>3. QED
          BY <5>2, LowFacts
      <4>2. ASSUME NEW i \in W + 1..N
            PROVE  i - W \in 1..P - 1 /\ W + (i - W) = i /\ (i - W) + 1 = i - W + 1
        BY <2>1, <2>6, <3>4
      <4>3. ASSUME NEW i \in 1..P - 1 PROVE W + i \in W + 1..N /\ (W + i) - W + 1 = i + 1
        BY <2>1, <2>6, <3>4
      <4> HIDE DEF W
      <4>4. ASSUME \A i \in 1..P - 1 : t[i] = h[W + i], NEW i \in W + 1..N
            PROVE  SameToken(host[i], pattern[i - W + 1])
        <5>1. SameToken(host[W + (i - W)], pattern[(i - W) + 1])
          BY <4>1, <4>2, <4>4
        <5>2. QED
          BY <4>2, <5>1
      <4>5. ASSUME \A i \in W + 1..N : SameToken(host[i], pattern[i - W + 1]), NEW i \in 1..P - 1
            PROVE  t[i] = h[W + i]
        <5>1. SameToken(host[W + i], pattern[(W + i) - W + 1])
          BY <4>3, <4>5
        <5>2. QED
          BY <4>1, <4>3, <5>1
      <4>6. QED
        BY <4>4, <4>5
    <3>7. Fits(pattern, host, N) <=>
            /\ P - 1 <= N /\ W > 0
            /\ \A i \in 1..W : host[i] # "."
            /\ \A i \in W + 1..N : SameToken(host[i], pattern[i - W + 1])
      <4>1. Fits(pattern, host, N) <=>
              \E w \in 1..N : /\ N - w = P - 1
                              /\ \A i \in 1..w : host[i] # "."
                              /\ \A i \in w + 1..N : SameToken(host[i], pattern[i - w + 1])
        BY <2>10 DEF Fits, P
      <4>2. \A w \in 1..N : N - w = P - 1 => w = W
        BY <2>1, <2>6
      <4>3. P - 1 <= N /\ W > 0 => W \in 1..N /\ N - W = P - 1
        BY <2>1, <2>6
      <4>4. \A w \in 1..N : N - w = P - 1 => P - 1 <= N /\ W > 0
        BY <2>1, <2>6
      <4> HIDE DEF W
      <4>5. QED
        BY <4>1, <4>2, <4>3, <4>4
    <3> HIDE DEF W
    <3>8. CASE P - 1 <= N
      <4> DEFINE A == \A i \in 1..P - 1 : t[i] = h[W + i]
                 B == \A i \in 1..W : host[i] # "."
                 D == \A i \in W + 1..N : SameToken(host[i], pattern[i - W + 1])
      <4>1. (IsSuffix(t, h) <=> A) /\ (A <=> D)
        BY <3>3, <3>6, <3>8
      <4>2. (pre # <<>> <=> W > 0) /\ (~Contains(pre, ".") <=> B)
        BY <3>5, <3>8
      <4>3. Fits(pattern, host, N) <=> W > 0 /\ B /\ D
        BY <3>7, <3>8
      <4> HIDE DEF A, B, D
      <4>4. QED
        BY <2>7, <3>1, <4>1, <4>2, <4>3
    <3>9. CASE ~(P - 1 <= N)
      BY <2>7, <3>1, <3>3, <3>7, <3>9, Zenon
    <3>10. QED
      BY <3>8, <3>9
  <2>11. QED
    BY <2>9, <2>10
<1>3. QED
  BY <1>1, <1>2

\* So are the other tests.
LEMMA DeclaredFacts ==
  ASSUME NEW route, NEW r, IsList(r.host), IsList(route.host),
         route.host = <<>> \/ validateHostPattern(route.host)
  PROVE  Matches(route, r) <=> Declares(route, r)
<1>1. HostMatches(route.host, r.host) <=> HostDeclared(route.host, r.host)
  BY HostRight
<1>2. ASSUME NEW name \in DOMAIN route.headers
      PROVE  (IF route.headers[name] = {"*"} THEN Get(r.headers, name) # "" ELSE Get(r.headers, name) \in route.headers[name])
               <=> \/ route.headers[name] = {"*"} /\ name \in DOMAIN r.headers /\ r.headers[name][1] # ""
                   \/ name \in DOMAIN r.headers /\ r.headers[name][1] \in route.headers[name]
                   \/ name \notin DOMAIN r.headers /\ "" \in route.headers[name]
  <2> DEFINE rule == route.headers[name]
             own == r.headers[name][1]
  <2>1. Get(r.headers, name) = IF name \in DOMAIN r.headers THEN own ELSE ""
    <3>1. Head(r.headers[name]) = own
      OBVIOUS
    <3>2. QED
      BY <3>1, Zenon DEF Get
  <2>2. rule = {"*"} => (own \in rule => own # "") /\ "" \notin rule
    BY Zenon
  <2> DEFINE got == Get(r.headers, name)
  <2>3. name \in DOMAIN r.headers => got = own
    BY <2>1, Zenon
  <2>4. name \notin DOMAIN r.headers => got = ""
    BY <2>1, Zenon
  <2> HIDE DEF own, got, rule
  <2>5. CASE name \in DOMAIN r.headers
    BY <2>2, <2>3, <2>5, Zenon DEF got, own, rule
  <2>6. CASE name \notin DOMAIN r.headers
    BY <2>2, <2>4, <2>6, Zenon DEF got, own, rule
  <2>7. QED
    BY <2>5, <2>6, Zenon
<1>3. HeadersMatch(route.headers, r.headers)
        <=> \A name \in DOMAIN route.headers :
              \/ route.headers[name] = {"*"} /\ name \in DOMAIN r.headers /\ r.headers[name][1] # ""
              \/ name \in DOMAIN r.headers /\ r.headers[name][1] \in route.headers[name]
              \/ name \notin DOMAIN r.headers /\ "" \in route.headers[name]
  BY <1>2, Zenon DEF HeadersMatch
<1>4. (route.methods = {} \/ r.method \in route.methods \/ r.method = "OPTIONS")
        <=> (r.method \in route.methods \cup {"OPTIONS"} \/ route.methods = {})
  OBVIOUS
<1>5. QED
  BY <1>1, <1>3, <1>4, Zenon DEF Matches, Declares

\* The hosts of the scenario are lists of tokens, and so are the lines of
\* X-Forwarded-For.
Hosts ==
  /\ IsList(req.host) /\ \A i \in DOMAIN cfg.routes : IsList(cfg.routes[i].host)
  /\ LET headers == req.headers
     IN  "X-Forwarded-For" \in DOMAIN headers =>
           /\ IsList(headers["X-Forwarded-For"])
           /\ \A i \in DOMAIN headers["X-Forwarded-For"] : IsList(headers["X-Forwarded-For"][i])

\* They are at first.
LEMMA HostsInit == ASSUME Init PROVE Hosts
<1>1. PICK family \in Families : \E s \in family : cfg = s.cfg /\ req = s.req
  BY DEF Init
<1>2. PICK s \in family : cfg = s.cfg /\ req = s.req
  BY <1>1
<1>3. QED
  BY <1>2, HostsAssumption, Zenon DEF Hosts

\* They do not change.
LEMMA HostsStay == ASSUME Hosts, [Next]_vars PROVE Hosts'
<1>1. cfg' = cfg /\ req' = req
  BY GivenStays
<1>2. QED
  BY <1>1, Zenon DEF Hosts

\* What the first match is.
LEMMA FirstMatch ==
  ASSUME NEW routes, IsList(routes), NEW r, NEW m, m = firstMatch(routes, r)
  PROVE  /\ m # 0 => /\ m \in DOMAIN routes /\ Matches(routes[m], r)
                     /\ \A i \in 1..m - 1 : i \in DOMAIN routes /\ ~Matches(routes[i], r)
         /\ m = 0 => \A i \in DOMAIN routes : ~Matches(routes[i], r)
<1> DEFINE I == {i \in 1..Len(routes) : Matches(routes[i], r)}
<1>1. DOMAIN routes = 1..Len(routes) /\ Len(routes) \in Nat
  BY ListSeq
<1>2. m = IF I # {} THEN Min(I) ELSE 0
  BY DEF firstMatch, SelectInSeq
<1>3. I \in SUBSET Nat /\ I \subseteq 1..Len(routes)
  BY <1>1
<1>4. \A i \in 1..Len(routes) : i \in I <=> Matches(routes[i], r)
  OBVIOUS
<1> HIDE DEF I
<1>5. CASE I = {}
  BY <1>1, <1>2, <1>4, <1>5
<1>6. CASE I # {}
  <2>1. m \in I /\ \A i \in I : m <= i
    BY <1>2, <1>3, <1>6, FirstPlace
  <2>2. m \in 1..Len(routes) /\ Matches(routes[m], r)
    BY <1>3, <1>4, <2>1
  <2>3. ASSUME NEW i \in 1..m - 1 PROVE i \in 1..Len(routes) /\ ~Matches(routes[i], r)
    <3>1. i \in 1..Len(routes) /\ ~(m <= i)
      BY <1>1, <2>2
    <3>2. QED
      BY <1>4, <2>1, <3>1
  <2>4. m # 0
    BY <2>2
  <2>5. QED
    BY <1>1, <2>2, <2>3, <2>4
<1>7. QED
  BY <1>5, <1>6

\* A request that no route declares ends at the router.
Lost ==
  Served = 0 => /\ forwarded = <<>> /\ mode # "panic"
                /\ mode \in {"out", "done"} => sent.status = 404

\* Nobody else answers it, holds its response back or panics.
LEMMA LostStep == ASSUME Base, Lost, [Next]_vars PROVE Lost'
<1>1. Served' = Served
  BY GivenStays
<1> SUFFICES ASSUME Served = 0
             PROVE  /\ forwarded' = <<>> /\ mode' # "panic"
                    /\ mode' \in {"out", "done"} => sent'.status = 404
  BY <1>1 DEF Lost
<1>2. /\ forwarded = <<>> /\ mode # "panic" /\ (mode \in {"out", "done"} => sent.status = 404)
      /\ WellFormed /\ Shape /\ Responses /\ ctx.route = 0
  BY DEF Lost, Base, Shape
<1>3. ASSUME NEW type \in DOMAIN Zero \cup {"proxy"}, At(type) PROVE FALSE
  BY <1>2, <1>3, Entering
<1>4. ~CORSMiddleware /\ ~AuthMiddleware /\ ~RateLimitMiddleware /\ ~RequestTransform /\ ~Proxy
  BY <1>3, Types DEF CORSMiddleware, AuthMiddleware, RateLimitMiddleware, RequestTransform, Proxy
<1>5. ~ResponseTransform
  <2> SUFFICES ASSUME ResponseTransform PROVE FALSE
    OBVIOUS
  <2>1. mode = "out" /\ stack # <<>> /\ Top.layer.type = "transform"
    BY DEF ResponseTransform, Leaving
  <2>2. Depth > 4 /\ Depth \in Nat
    BY <2>1, LeavingFacts, Types
  <2>3. Len(Path) = 5 /\ Depth < Len(Path)
    BY <1>2, PathFacts DEF Shape
  <2>4. QED
    BY <2>2, <2>3
<1>6. CASE EnterOuter \/ EnterRequestID \/ EnterMetrics
  BY <1>2, <1>6, OuterCalls DEF Calls, Call
<1>7. CASE ServeHTTP
  <2>1. Answers /\ mode = "in" /\ mode' = "out" /\ forwarded' = forwarded
    BY <1>7, RouterKind DEF Routes, Answers, Stop, ServeHTTP
  <2>2. NotFound
    BY <1>7, <2>1, Zenon DEF ServeHTTP
  <2>3. PICK headers, body : writers' = Written(writers, stack, 404, headers, body)
    BY <2>2 DEF NotFound, Answer, WrittenError
  <2>4. Queue(writers) /\ Out.status = 0
    BY <1>2, <2>1 DEF Responses
  <2>5. Settled(writers', writers, 404, body)
    BY <2>3, <2>4, WrittenFacts
  <2>6. Width = 1
    <3>1. Depth \in 0..4
      <4>1. Depth \in Nat /\ Len(Path) = 5 /\ Depth < Len(Path)
        BY <1>2, PathFacts, Position DEF Shape
      <4>2. QED
        BY <4>1
    <3>2. HeldBack(Path, Depth) = 0
      BY <1>2, <3>1, NoneHeld
    <3>3. QED
      BY <1>2, <2>1, <3>2 DEF Responses
  <2>7. Last(writers').status = 404 /\ Len(writers') = Width
    BY <2>4, <2>5 DEF Settled, Out, Width
  <2>8. sent'.status = 404
    BY <2>6, <2>7 DEF Last, sent
  <2>9. QED
    BY <1>2, <2>1, <2>8
<1>8. CASE LeaveLogging \/ LeaveMetrics \/ LeaveOther \/ Finish
  <2>1. mode = "out" /\ mode' \in {"out", "done"} /\ writers' = writers /\ forwarded' = forwarded
    BY <1>8 DEF LeaveLogging, LeaveMetrics, LeaveOther, Finish, Leaving, Pop
  <2>2. QED
    BY <1>2, <2>1 DEF sent
<1>9. ~Unwind /\ ~Recovery
  BY <1>2 DEF Unwind, Recovery
<1>10. CASE UNCHANGED vars
  BY <1>2, <1>10 DEF vars, sent
<1>11. QED
  BY <1>4, <1>5, <1>6, <1>7, <1>8, <1>9, <1>10 DEF Next

\* A request is served by the first route that declares it, path, host, method
\* and headers; it is answered 404 exactly when none does.
THEOREM RoutedRight == Spec => []RoutedAsDeclared
<1> DEFINE I == Base /\ Judged /\ Hosts /\ Lost
<1>1. Init => I
  <2>1. Init => Lost
    <3>1. Init => mode = "in" /\ forwarded = <<>>
      BY DEF Init
    <3>2. QED
      BY <3>1 DEF Lost
  <2>2. QED
    BY <2>1, BaseInit, JudgedInit, HostsInit
<1>2. I /\ [Next]_vars => I'
  BY BaseStep, JudgedStep, HostsStay, LostStep
<1>3. I => RoutedAsDeclared
  <2> SUFFICES ASSUME Base, Judged, Hosts, Lost PROVE RoutedAsDeclared
    OBVIOUS
  <2>1. WellFormed /\ Queue(writers) /\ (ctx.route # 0 => ctx.route = Served)
    BY DEF Base, Responses, Shape
  <2>2. IsList(Seen.host) /\ IsList(cfg.routes) /\ \A i \in DOMAIN cfg.routes : IsList(cfg.routes[i].host)
    BY <2>1, SeenFacts, Zenon DEF Hosts, WellFormed
  <2>3. \A i \in DOMAIN cfg.routes : cfg.routes[i].host = <<>> \/ validateHostPattern(cfg.routes[i].host)
    BY <2>1, Zenon DEF WellFormed, Valid
  <2>4. \A i \in DOMAIN cfg.routes : Matches(cfg.routes[i], Seen) <=> Declares(cfg.routes[i], Seen)
    BY <2>2, <2>3, DeclaredFacts
  <2>5. Served = firstMatch(cfg.routes, Seen)
    BY DEF Served
  <2>6. /\ Served # 0 => /\ Served \in DOMAIN cfg.routes /\ Matches(cfg.routes[Served], Seen)
                         /\ \A i \in 1..Served - 1 : i \in DOMAIN cfg.routes /\ ~Matches(cfg.routes[i], Seen)
        /\ Served = 0 => \A i \in DOMAIN cfg.routes : ~Matches(cfg.routes[i], Seen)
    BY <2>2, <2>5, FirstMatch
  <2>7. ctx.route # 0 => /\ Declares(cfg.routes[ctx.route], Seen)
                         /\ \A i \in 1..ctx.route - 1 : ~Declares(cfg.routes[i], Seen)
    BY <2>1, <2>4, <2>6
  <2>8. sent.status = 404 /\ forwarded = <<>> => Served = 0
    BY <2>1, SentIsOut DEF Judged
  <2>9. mode = "done" /\ Served = 0 => sent.status = 404 /\ forwarded = <<>>
    BY DEF Lost
  <2>10. QED
    BY <2>4, <2>6, <2>7, <2>8, <2>9 DEF RoutedAsDeclared
<1>4. QED
  BY <1>1, <1>2, <1>3, PTL DEF Spec

(***************************************************************************)
(* Who is charged.                                                         *)
(***************************************************************************)

\* The last of some places is the one that no other comes after.
LEMMA LastIs ==
  ASSUME NEW n \in Nat, NEW S, S \subseteq 1..n, NEW m \in S, \A x \in S : x <= m
  PROVE  Max(S) = m
<1>1. Max(S) \in S /\ \A x \in S : x <= Max(S)
  BY LastPlace
<1> DEFINE k == Max(S)
<1> HIDE DEF k
<1>2. k \in S /\ m <= k /\ k <= m
  BY <1>1 DEF k
<1>3. k \in Int /\ m \in Int
  BY <1>2
<1>4. k = m
  BY <1>2, <1>3
<1>5. QED
  BY <1>4 DEF k

\* The last of what a sieve leaves is what stands in the last place that is kept.
LEMMA SieveLast ==
  ASSUME NEW s, IsList(s), NEW keep, keep \subseteq DOMAIN s
  PROVE  /\ Sieve(s, keep) = <<>> <=> keep = {}
         /\ keep # {} => Last(Sieve(s, keep)) = s[Max(keep)]
<1> DEFINE u == Sieve(s, keep)
           c == Cardinality(keep)
<1>1. Len(s) \in Nat /\ keep \subseteq 1..Len(s)
  BY ListSeq
<1>2. /\ IsList(u) /\ Len(u) = c
      /\ \A n \in 1..c : u[n] = s[Place(keep, n)] /\ Place(keep, n) \in keep
  BY SieveFacts
<1>3. /\ c \in Nat
      /\ \A n, m \in 1..c : n < m => Place(keep, n) < Place(keep, m)
      /\ \A i \in keep : \E n \in 1..c : Place(keep, n) = i
  BY <1>1, PlaceFacts
<1> HIDE DEF u
<1>4. c = 0 <=> keep = {}
  BY <1>1, RankFacts, FS_EmptySet
<1>5. u = <<>> <=> keep = {}
  BY <1>2, <1>4, NoLength
<1> HIDE DEF c
<1>6. ASSUME keep # {} PROVE Last(u) = s[Max(keep)]
  <2>1. c \in 1..c
    BY <1>3, <1>4, <1>6
  <2>2. Place(keep, c) \in keep /\ u[c] = s[Place(keep, c)]
    BY <1>2, <2>1
  <2>3. ASSUME NEW i \in keep PROVE i <= Place(keep, c)
    <3>1. PICK n \in 1..c : Place(keep, n) = i
      BY <1>3
    <3>2. n = c \/ n < c
      BY <1>3
    <3>3. i \in Int /\ Place(keep, c) \in Int
      BY <1>1, <2>2
    <3>4. QED
      BY <1>3, <2>1, <3>1, <3>2, <3>3
  <2>4. Max(keep) = Place(keep, c)
    BY <1>1, <2>2, <2>3, LastIs
  <2>5. QED
    BY <1>2, <2>2, <2>4 DEF Last
<1>7. QED
  BY <1>5, <1>6 DEF u

\* One line is all there is.
LEMMA FlatLine ==
  ASSUME NEW lines, IsList(lines), NEW n, n = Len(lines), n = 1
  PROVE  FlattenSeq(lines) = lines[1]
<1> DEFINE step(f) == [i \in 1..Len(lines) |-> IF i = 1 THEN lines[i] ELSE f[i - 1] \o lines[i]]
           g == [i \in 1..Len(lines) |-> lines[1]]
           flatten == CHOOSE f : f = step(f)
<1>1. g = step(g)
  <2>1. \A i \in 1..Len(lines) : i = 1
    OBVIOUS
  <2>2. QED
    BY <2>1
<1>2. flatten = step(flatten)
  <2> HIDE DEF g, step
  <2>1. \E f : f = step(f)
    BY <1>1
  <2>2. QED
    BY <2>1, Zenon
<1>3. Len(lines) # 0 /\ 1 \in 1..Len(lines)
  OBVIOUS
<1>4. FlattenSeq(lines) = flatten[Len(lines)]
  BY <1>3, Zenon DEF FlattenSeq
<1> HIDE DEF flatten
<1>5. flatten[1] = lines[1]
  BY <1>2, <1>3
<1>6. QED
  BY <1>4, <1>5

\* The address that is charged is the client's, when there is one line.
LEMMA AddressRight ==
  ASSUME NEW r, NEW q, NEW trusted, r.remote = q.remote, OneLine(q.headers),
         ForwardedFor(r.headers) = ForwardedFor(q.headers),
         NEW lines, lines = IF "X-Forwarded-For" \in DOMAIN q.headers THEN q.headers["X-Forwarded-For"] ELSE <<>>,
         IsList(lines), \A i \in DOMAIN lines : IsList(lines[i])
  PROVE  extractIP(r, trusted) = ClientOf(q, trusted)
<1> DEFINE all == FlattenSeq(lines)
           K == {i \in DOMAIN all : all[i] \in DOMAIN Address}
           u == Sieve(all, K)
           hops == u \o <<q.remote>>
           strangers == {i \in DOMAIN hops : ~isTrusted(hops[i], trusted)}
           xff == ForwardedFor(r.headers)
           I == {i \in 1..Len(xff) : xff[i] \in DOMAIN Address /\ ~isTrusted(xff[i], trusted)}
           last == IF I # {} THEN Max(I) ELSE 0
<1>1. ClientOf(q, trusted) = IF strangers = {} THEN q.remote ELSE hops[Max(strangers)]
  BY Zenon DEF ClientOf
<1>2. extractIP(r, trusted) = IF isTrusted(q.remote, trusted) /\ last # 0 THEN xff[last] ELSE q.remote
  BY DEF extractIP, SelectLastInSeq
<1>3. all = xff /\ IsList(all)
  <2>1. CASE "X-Forwarded-For" \in DOMAIN q.headers
    <3>1. lines = q.headers["X-Forwarded-For"] /\ Len(lines) = 1
      BY <2>1 DEF OneLine
    <3>2. all = lines[1]
      BY <3>1, FlatLine
    <3>3. xff = Head(lines)
      BY <2>1, <3>1 DEF ForwardedFor
    <3>4. Head(lines) = lines[1]
      OBVIOUS
    <3>5. 1 \in DOMAIN lines
      BY <3>1, ListSeq
    <3>6. QED
      BY <3>2, <3>3, <3>4, <3>5
  <2>2. CASE "X-Forwarded-For" \notin DOMAIN q.headers
    <3>1. lines = <<>> /\ xff = <<>>
      BY <2>2 DEF ForwardedFor
    <3>2. Len(<<>>) = 0
      OBVIOUS
    <3>3. FlattenSeq(<<>>) = <<>>
      BY <3>2, Zenon DEF FlattenSeq
    <3>4. IsList(<<>>)
      BY DEF IsList
    <3>5. QED
      BY <3>1, <3>3, <3>4
  <2>3. QED
    BY <2>1, <2>2
<1>4. DOMAIN all = 1..Len(all) /\ Len(all) \in Nat
  BY <1>3, ListSeq
<1>5. /\ I \subseteq 1..Len(all) /\ I \subseteq K /\ K \subseteq 1..Len(all) /\ K \subseteq DOMAIN all
      /\ \A i \in K : i \in I <=> ~isTrusted(all[i], trusted)
  BY <1>3, <1>4
<1> DEFINE c == Cardinality(K)
<1>6. /\ IsList(u) /\ Len(u) = c
      /\ \A n \in 1..c : u[n] = all[Place(K, n)] /\ Place(K, n) \in K
  <2> HIDE DEF K, all
  <2>1. QED
    BY <1>3, <1>5, SieveFacts
<1>7. /\ c \in Nat
      /\ \A n, m \in 1..c : n < m => Place(K, n) < Place(K, m)
      /\ \A i \in K : \E n \in 1..c : Place(K, n) = i
  <2> HIDE DEF K, all
  <2>1. QED
    BY <1>4, <1>5, PlaceFacts
<1> DEFINE one == <<q.remote>>
<1>8. IsList(one) /\ Len(one) = 1 /\ one[1] = q.remote
  <2>1. one \in Seq({q.remote}) /\ Len(one) = 1 /\ one[1] = q.remote
    OBVIOUS
  <2> HIDE DEF one
  <2>2. QED
    BY <2>1, SeqList
<1>9. hops = u \o one
  OBVIOUS
<1> HIDE DEF one, u, hops, c
<1>10. /\ IsList(hops) /\ Len(hops) = c + 1
       /\ \A n \in 1..c : hops[n] = u[n]
       /\ hops[c + 1] = q.remote
  <2>1. /\ IsList(hops) /\ Len(hops) = Len(u) + Len(one)
        /\ \A n \in 1..Len(u) : hops[n] = u[n]
        /\ \A n \in 1..Len(one) : hops[Len(u) + n] = one[n]
    <3>1. IsList(u) /\ IsList(one)
      BY <1>6, <1>8
    <3>2. Joined(hops, u, one)
      BY <1>9, <3>1, JoinFacts
    <3>3. QED
      BY <3>2 DEF Joined
  <2>2. 1 \in 1..Len(one)
    BY <1>8
  <2>3. hops[c + 1] = q.remote
    BY <1>6, <1>8, <2>1, <2>2
  <2>4. QED
    BY <1>6, <1>8, <2>1, <2>3
<1>11. DOMAIN hops = 1..c + 1
  BY <1>10, ListSeq
<1>12. \A n : n \in strangers <=> n \in 1..c + 1 /\ ~isTrusted(hops[n], trusted)
  BY <1>11
<1>13. strangers \subseteq 1..c + 1 /\ c + 1 \in Nat
  BY <1>7, <1>12
<1> HIDE DEF strangers, K, all, xff, I
<1>14. \A n \in 1..c : n \in strangers <=> Place(K, n) \in I
  <2>1. \A n \in 1..c : n \in 1..c + 1
    BY <1>7
  <2>2. QED
    BY <1>5, <1>6, <1>10, <1>12, <2>1
<1>15. CASE ~isTrusted(q.remote, trusted)
  <2>1. c + 1 \in strangers
    BY <1>7, <1>10, <1>12, <1>15
  <2>2. \A x \in strangers : x <= c + 1
    BY <1>7, <1>13
  <2>3. Max(strangers) = c + 1
    BY <1>13, <2>1, <2>2, LastIs
  <2>4. QED
    BY <1>1, <1>2, <1>10, <1>15, <2>1, <2>3
<1>16. CASE isTrusted(q.remote, trusted)
  <2>1. \A n \in strangers : n \in 1..c
    <3>1. c + 1 \notin strangers
      BY <1>10, <1>12, <1>16
    <3>2. QED
      BY <1>7, <1>13, <3>1
  <2>2. CASE I = {}
    <3>1. strangers = {}
      BY <1>14, <2>1, <2>2
    <3>2. QED
      BY <1>1, <1>2, <2>2, <3>1
  <2>3. CASE I # {}
    <3> DEFINE m == Max(I)
    <3>1. m \in I /\ \A x \in I : x <= m
      BY <1>4, <1>5, <2>3, LastPlace
    <3> HIDE DEF m
    <3>2. PICK n \in 1..c : Place(K, n) = m
      BY <1>5, <1>7, <3>1
    <3>3. n \in strangers
      BY <1>14, <3>1, <3>2
    <3>4. ASSUME NEW i \in strangers PROVE i <= n
      <4>1. i \in 1..c /\ Place(K, i) \in I
        BY <1>14, <2>1, <3>4
      <4>2. Place(K, i) <= m /\ m \in Int /\ Place(K, i) \in Int
        BY <1>5, <3>1, <4>1
      <4>3. ~(n < i)
        BY <1>7, <3>2, <4>1, <4>2
      <4>4. QED
        BY <1>7, <4>1, <4>3
    <3>5. Max(strangers) = n
      BY <1>13, <3>3, <3>4, LastIs
    <3>6. hops[n] = all[m]
      BY <1>6, <1>10, <3>2
    <3>7. m # 0 /\ m \in 1..Len(all)
      BY <1>5, <3>1
    <3>8. last = m
      BY <2>3 DEF m
    <3>9. QED
      BY <1>1, <1>2, <1>3, <1>16, <3>3, <3>5, <3>6, <3>7, <3>8
  <2>4. QED
    BY <2>2, <2>3
<1>17. QED
  BY <1>15, <1>16

\* The claims of a key that is accepted are those that go with it.
LEMMA KeyClaims ==
  ASSUME NEW name \in DOMAIN Providers, NEW r, NEW up, Providers[name].type = "apikey",
         Authenticate(name, r, up).ok
  PROVE  Authenticate(name, r, up).claims \in VouchedClaims(name, r)
<1> DEFINE p == Providers[name]
           key == Get(r.headers, p.header)
           I == {i \in 1..Len(p.keys) : p.keys[i].key = key}
           i == SelectInSeq(p.keys, LAMBDA entry : entry.key = key)
           Values == IF p.header \in DOMAIN r.headers THEN {Head(r.headers[p.header])} ELSE {}
           E == {k \in ToSet(p.keys) : k.key \in Values \ {""}}
<1>1. IsList(p.keys)
  BY ProvidersAssumption
<1>2. DOMAIN p.keys = 1..Len(p.keys) /\ Len(p.keys) \in Nat
  BY <1>1, ListSeq
<1>3. Authenticate(name, r, up) = IF key # "" /\ i # 0 THEN Accepted([key_name |-> Text(p.keys[i].name)])
                                  ELSE Refused
  BY DEF Authenticate, apikeyAuthenticate
<1>4. i = IF I # {} THEN Min(I) ELSE 0
  BY DEF SelectInSeq
<1>5. I \in SUBSET Nat
  BY <1>2
<1>6. VouchedClaims(name, r) = {[key_name |-> Text(e.name)] : e \in E}
  BY DEF VouchedClaims
<1>7. ASSUME NEW e PROVE e \in Values \ {""} <=> e = key /\ key # ""
  BY Zenon DEF Get
<1>8. Refused.ok = FALSE /\ \A c : Accepted(c).claims = c
  BY DEF Accepted, Refused
<1>9. key # "" /\ i # 0 /\ Authenticate(name, r, up) = Accepted([key_name |-> Text(p.keys[i].name)])
  <2> HIDE DEF key, i
  <2>1. QED
    BY <1>3, <1>8, Zenon
<1>10. i \in I
  <2> HIDE DEF I
  <2>1. QED
    BY <1>4, <1>5, <1>9, FirstPlace
<1>11. p.keys[i] \in ToSet(p.keys) /\ p.keys[i].key = key
  <2> HIDE DEF i
  <2>1. QED
    BY <1>2, <1>10 DEF ToSet
<1>12. p.keys[i] \in E
  <2> HIDE DEF i, key, Values
  <2>1. QED
    BY <1>7, <1>9, <1>11, Zenon
<1> HIDE DEF i, E, key
<1>13. QED
  BY <1>6, <1>8, <1>9, <1>12, ZenonT(60)

\* So are those of a token.
LEMMA TokenClaims ==
  ASSUME NEW name \in DOMAIN Providers, NEW r, NEW up, Providers[name].type # "apikey",
         Authenticate(name, r, up).ok
  PROVE  Authenticate(name, r, up).claims \in VouchedClaims(name, r)
<1> DEFINE p == Providers[name]
           Values == IF "Authorization" \in DOMAIN r.headers THEN {Head(r.headers["Authorization"])} ELSE {}
           bearers == {h.token : h \in {v \in Values : v.scheme = "bearer"}}
           good == {t \in bearers : /\ OwnKey(p, t)
                                    /\ t.exp # "past" /\ (t.exp = "none" => p.type = "jwt")
                                    /\ Issuer(p) \in {"", t.iss}
                                    /\ p.audience \in {""} \cup t.aud}
           live == {b \in bearers : b.active}
           token == Bearer(r)
           asks == p.type = "oidc" /\ p.introspection_url # ""
<1>1. p.type = "jwt" \/ p.type = "oidc"
  BY ProvidersAssumption DEF NewAuthenticator
<1>2. bearers = IF HasBearer(r) THEN {token} ELSE {}
  BY DEF HasBearer, Bearer
<1>3. VouchedClaims(name, r) = IF asks THEN {Introspected(t) : t \in live} ELSE {t.claims : t \in good}
  BY Zenon DEF VouchedClaims
<1>4. good \subseteq bearers /\ live \subseteq bearers
  BY Zenon
<1>5. Authenticate(name, r, up) = IF HasBearer(r) THEN bearerAuthenticate(p, token, up) ELSE Refused
  BY DEF Authenticate
<1>6. Refused.ok = FALSE /\ \A c : Accepted(c).claims = c
  BY DEF Refused, Accepted
<1>7. VouchedClaims(name, r) # {}
  BY TokenVouched
<1> HIDE DEF Values, token, bearers, good, live
<1>8. HasBearer(r) /\ Authenticate(name, r, up) = bearerAuthenticate(p, token, up)
  BY <1>5, <1>6
<1>9. (good = {} \/ good = {token}) /\ (live = {} \/ live = {token})
  BY <1>2, <1>4, <1>8
<1>10. CASE asks
  <2>1. bearerAuthenticate(p, token, up) = introspect(token, up)
    BY <1>10, Zenon DEF bearerAuthenticate
  <2>2. introspect(token, up).ok => introspect(token, up).claims = Introspected(token)
    BY <1>6 DEF introspect
  <2>3. VouchedClaims(name, r) = {Introspected(t) : t \in live}
    BY <1>3, <1>10, Zenon
  <2>4. Introspected(token) \in VouchedClaims(name, r)
    BY <1>7, <1>9, <2>3
  <2>5. QED
    BY <1>8, <2>1, <2>2, <2>4, Zenon
<1>11. CASE ~asks
  <2>1. \E ok \in BOOLEAN : bearerAuthenticate(p, token, up) = IF ok THEN Accepted(token.claims) ELSE Refused
    <3>1. CASE p.type = "jwt"
      <4>1. bearerAuthenticate(p, token, up) = IF jwtParse(p, token) THEN Accepted(token.claims) ELSE Refused
        BY <3>1 DEF bearerAuthenticate
      <4>2. QED
        BY <4>1, Zenon
    <3>2. CASE p.type = "oidc"
      <4>1. p.introspection_url = ""
        BY <1>11, <3>2, Zenon
      <4>2. bearerAuthenticate(p, token, up)
              = IF verifyToken(p, token, up) THEN Accepted(token.claims) ELSE Refused
        BY <3>2, <4>1, Zenon DEF bearerAuthenticate
      <4>3. QED
        BY <4>2, Zenon
    <3>3. QED
      BY <1>1, <3>1, <3>2, Zenon
  <2>2. bearerAuthenticate(p, token, up) = Accepted(token.claims)
    BY <1>6, <1>8, <2>1, Zenon
  <2>3. VouchedClaims(name, r) = {t.claims : t \in good}
    BY <1>3, <1>11, Zenon
  <2>4. token.claims \in VouchedClaims(name, r)
    BY <1>7, <1>9, <2>3, Zenon
  <2>5. QED
    BY <1>6, <1>8, <2>2, <2>4, Zenon
<1>12. QED
  BY <1>10, <1>11, Zenon

\* The claims that are vouched for by the providers of an authentication.
ClaimsOf(mw) == UNION {VouchedClaims(p, Seen) : p \in ToSet(mw.config.providers)}

\* What an authentication that lets the request through leaves.
LEMMA VerdictClaims ==
  ASSUME WellFormed, Served # 0, NEW k \in DOMAIN Chain, NEW mw, mw = Chain[k], mw.type = "auth",
         cur.headers = Seen.headers, NEW reached,
         NEW verdict, verdict = Verdict(mw.config.providers, reached), verdict.status = 0
  PROVE  IF Authenticates(mw) THEN verdict.claims \in ClaimsOf(mw) ELSE verdict.claims = ctx.claims
<1> DEFINE ps == mw.config.providers
           tried(name) == Authenticate(name, cur, name \in reached)
           I == {i \in 1..Len(ps) : ps[i] \notin DOMAIN Providers \/ tried(ps[i]).ok}
           i == SelectInSeq(ps, LAMBDA name : name \notin DOMAIN Providers \/ tried(name).ok)
<1>1. ValidAuth(mw.config) /\ IsList(ps)
  BY ChainFacts, ListedProviders
<1>2. DOMAIN ps = 1..Len(ps) /\ Len(ps) \in Nat
  BY <1>1, ListSeq
<1>3. i = IF I # {} THEN Min(I) ELSE 0
  BY DEF SelectInSeq
<1>4. ps # <<>>
  BY <1>1 DEF ValidAuth
<1>5. I \in SUBSET Nat
  BY <1>2
<1>6. CASE ps = <<"none">>
  <2>1. verdict = [status |-> 0, claims |-> ctx.claims]
    BY <1>4, <1>6 DEF Verdict
  <2>2. ~Authenticates(mw)
    BY <1>6 DEF Authenticates
  <2>3. QED
    BY <2>1, <2>2
<1>7. CASE ps # <<"none">>
  <2>1. Authenticates(mw)
    BY <1>7 DEF Authenticates
  <2>2. i # 0
    <3>1. i = 0 => verdict = [status |-> 401, claims |-> <<>>]
      BY <1>4, <1>7 DEF Verdict
    <3> HIDE DEF i
    <3>2. QED
      BY <3>1
  <2>3. ps[i] \in DOMAIN Providers
    <3>1. ps[i] \notin DOMAIN Providers => verdict = [status |-> 500, claims |-> <<>>]
      BY <1>4, <1>7, <2>2 DEF Verdict
    <3> HIDE DEF i
    <3>2. QED
      BY <3>1
  <2>4. verdict = [status |-> 0, claims |-> tried(ps[i]).claims]
    BY <1>4, <1>7, <2>2, <2>3 DEF Verdict
  <2>5. verdict.claims = tried(ps[i]).claims
    <3> HIDE DEF i, tried
    <3>1. QED
      BY <2>4
  <2> HIDE DEF i
  <2>6. i \in I
    <3> HIDE DEF I
    <3>1. QED
      BY <1>3, <1>5, <2>2, FirstPlace
  <2>7. i \in 1..Len(ps) /\ tried(ps[i]).ok
    <3> HIDE DEF tried
    <3>1. QED
      BY <2>3, <2>6
  <2>8. tried(ps[i]).claims \in VouchedClaims(ps[i], cur)
    BY <2>3, <2>7, KeyClaims, TokenClaims
  <2>9. VouchedClaims(ps[i], cur) = VouchedClaims(ps[i], Seen)
    BY VouchedByHeaders
  <2>10. ps[i] \in ToSet(ps)
    BY <1>2, <2>7 DEF ToSet
  <2> HIDE DEF tried
  <2>11. verdict.claims \in ClaimsOf(mw)
    BY <2>5, <2>8, <2>9, <2>10 DEF ClaimsOf
  <2>12. QED
    BY <2>1, <2>11
<1>8. QED
  BY <1>6, <1>7

\* The places of the authentications, and whose claims the context has: those
\* that the last of them left, none when there was none.
AuthPlaces(mws) == {i \in DOMAIN mws : Authenticates(mws[i])}
Claimed(claims, mws) ==
  IF AuthPlaces(mws) = {} THEN claims = <<>> ELSE claims \in ClaimsOf(mws[Max(AuthPlaces(mws))])

\* One middleware more has let the request through.
LEMMA ClaimedAppend ==
  ASSUME NEW mws, IsList(mws), NEW old, Claimed(old, mws), NEW mw, NEW more, more = Append(mws, mw),
         NEW new, IF Authenticates(mw) THEN new \in ClaimsOf(mw) ELSE new = old
  PROVE  Claimed(new, more)
<1> DEFINE n == Len(mws)
           A == AuthPlaces(mws)
           B == AuthPlaces(more)
<1>1. /\ IsList(more) /\ Len(more) = n + 1 /\ n \in Nat /\ DOMAIN mws = 1..n
      /\ \A i \in 1..n : more[i] = mws[i]
      /\ more[n + 1] = mw
  BY ListAppend, ListSeq
<1>2. DOMAIN more = 1..n + 1
  BY <1>1, ListSeq
<1> HIDE DEF n
<1>3. \A i : i \in A <=> i \in 1..n /\ Authenticates(mws[i])
  BY <1>1 DEF AuthPlaces
<1>4. \A i : i \in B <=> i \in 1..n + 1 /\ Authenticates(more[i])
  BY <1>2 DEF AuthPlaces
<1> HIDE DEF A, B
<1>5. \A i : i \in 1..n + 1 <=> i \in 1..n \/ i = n + 1
  BY <1>1
<1>6. CASE Authenticates(mw)
  <2>1. n + 1 \in B
    BY <1>1, <1>4, <1>5, <1>6
  <2>2. B \subseteq 1..n + 1 /\ \A x \in B : x <= n + 1
    BY <1>1, <1>4
  <2>3. Max(B) = n + 1
    <3>1. n + 1 \in Nat
      BY <1>1
    <3>2. QED
      BY <2>1, <2>2, <3>1, LastIs, Zenon
  <2>4. new \in ClaimsOf(more[Max(B)])
    BY <1>1, <1>6, <2>3
  <2>5. QED
    BY <2>1, <2>4 DEF Claimed, B
<1>7. CASE ~Authenticates(mw)
  <2>1. B = A
    <3>1. \A i : i \in B <=> i \in A
      BY <1>1, <1>3, <1>4, <1>5, <1>7
    <3>2. QED
      BY <3>1
  <2>2. A \subseteq 1..n
    BY <1>3
  <2>3. CASE A = {}
    <3>1. old = <<>>
      BY <2>3 DEF Claimed, A
    <3>2. QED
      BY <1>7, <2>1, <2>3, <3>1 DEF Claimed, B
  <2>4. CASE A # {}
    <3>1. Max(A) \in 1..n
      BY <1>1, <2>2, <2>4, LastPlace
    <3>2. more[Max(A)] = mws[Max(A)]
      BY <1>1, <3>1
    <3>3. old \in ClaimsOf(mws[Max(A)])
      BY <2>4 DEF Claimed, A
    <3>4. new \in ClaimsOf(more[Max(B)])
      BY <1>7, <2>1, <3>2, <3>3
    <3>5. QED
      BY <2>1, <2>4, <3>4 DEF Claimed, B
  <2>5. QED
    BY <2>3, <2>4
<1>8. QED
  BY <1>6, <1>7

\* What an authentication that lets the request through does to the context.
LEMMA AuthLeaves ==
  ASSUME Base, AuthMiddleware, mode' = "in"
  PROVE  /\ mode = "in" /\ passed' = Append(passed, Head(todo))
         /\ IF Authenticates(Head(todo)) THEN ctx'.claims \in ClaimsOf(Head(todo)) ELSE ctx'.claims = ctx.claims
<1>1. At("auth")
  BY DEF AuthMiddleware
<1>2. "auth" \in DOMAIN Zero /\ "auth" # "transform"
  BY Types
<1>3. /\ WellFormed /\ Served # 0 /\ Head(todo).type = "auth" /\ mode = "in"
      /\ cur.headers = Seen.headers
  BY <1>1, <1>2, EnteredFacts
<1>4. PICK k \in DOMAIN Chain : Head(todo) = Chain[k]
  BY <1>1, <1>2, EnteredFacts
<1>5. PICK reached :
        LET verdict == Verdict(Settings.providers, reached)
        IN  IF verdict.status = 0
            THEN Call([ctx EXCEPT !.claims = verdict.claims]) /\ UNCHANGED writers
            ELSE Answer(verdict.status, Denied(verdict.status))
  BY Zenon DEF AuthMiddleware
<1> DEFINE verdict == Verdict(Settings.providers, reached)
<1>6. verdict.status = 0 => IF Authenticates(Head(todo)) THEN verdict.claims \in ClaimsOf(Head(todo))
                                                         ELSE verdict.claims = ctx.claims
  BY <1>3, <1>4, VerdictClaims DEF Settings
<1>7. IF verdict.status = 0
      THEN Call([ctx EXCEPT !.claims = verdict.claims]) /\ UNCHANGED writers
      ELSE Answer(verdict.status, Denied(verdict.status))
  BY <1>5
<1> HIDE DEF verdict
<1>8. CASE verdict.status = 0
  <2>1. passed' = Append(passed, Head(todo)) /\ ctx' = [ctx EXCEPT !.claims = verdict.claims]
    BY <1>2, <1>3, <1>7, <1>8 DEF Call
  <2>2. DOMAIN ctx = {"holder", "route", "claims"}
    BY DEF Base, Carried
  <2>3. ctx'.claims = verdict.claims
    BY <2>1, <2>2
  <2>4. QED
    BY <1>3, <1>6, <1>8, <2>1, <2>3
<1>9. CASE verdict.status # 0
  <2>1. mode' = "out"
    BY <1>7, <1>9 DEF Answer, Stop
  <2>2. QED
    BY <2>1
<1>10. QED
  BY <1>8, <1>9

\* What any other step on the way in does to it.
LEMMA OthersLeave ==
  ASSUME Base, [Next]_vars, ~AuthMiddleware, mode' = "in"
  PROVE  /\ mode = "in" /\ ctx'.claims = ctx.claims
         /\ \/ passed' = passed
            \/ passed' = Append(passed, Head(todo)) /\ ~Authenticates(Head(todo))
<1> DEFINE Goal == /\ mode = "in" /\ ctx'.claims = ctx.claims
                   /\ \/ passed' = passed
                      \/ passed' = Append(passed, Head(todo)) /\ ~Authenticates(Head(todo))
<1> SUFFICES Goal
  OBVIOUS
<1>1. DOMAIN ctx = {"holder", "route", "claims"}
  BY DEF Base, Carried
<1>2. ASSUME NEW type, At(type), type # "auth", NEW c, Call(c), c.claims = ctx.claims PROVE Goal
  <2>1. ~Authenticates(Head(todo)) /\ mode = "in"
    BY <1>2 DEF At, Authenticates
  <2>2. ctx' = c /\ (passed' = passed \/ passed' = Append(passed, Head(todo)))
    BY <1>2 DEF Call
  <2>3. QED
    BY <1>2, <2>1, <2>2
<1>3. CASE EnterOuter
  <2>1. PICK type \in {"recovery", "logging"} : At(type)
    BY <1>3 DEF EnterOuter
  <2>2. Call(ctx) /\ type # "auth"
    BY <1>3, <2>1 DEF EnterOuter
  <2>3. QED
    BY <1>2, <2>1, <2>2
<1>4. CASE EnterRequestID
  <2>1. At("request_id") /\ Call(ctx) /\ "request_id" # "auth"
    BY <1>4 DEF EnterRequestID
  <2>2. QED
    BY <1>2, <2>1
<1>5. CASE EnterMetrics
  <2> DEFINE c == [ctx EXCEPT !.holder = TRUE]
  <2>1. At("metrics") /\ Call(c) /\ "metrics" # "auth"
    BY <1>5 DEF EnterMetrics
  <2>2. c.claims = ctx.claims
    BY <1>1
  <2> HIDE DEF c
  <2>3. QED
    BY <1>2, <2>1, <2>2
<1>6. CASE Routes
  <2>1. mode = "in" /\ passed' = passed /\ ctx' = [ctx EXCEPT !.route = Served]
    BY <1>6 DEF Routes
  <2>2. QED
    BY <1>1, <2>1
<1>7. CASE CORSMiddleware
  <2>1. At("cors") /\ (isPreflight(cur) => Stop("out")) /\ (~isPreflight(cur) => Call(ctx))
    BY <1>7 DEF CORSMiddleware
  <2>2. ~Stop("out") /\ "cors" # "auth"
    BY DEF Stop
  <2>3. QED
    BY <1>2, <2>1, <2>2
<1>8. CASE RateLimitMiddleware
  <2>1. At("rate_limit") /\ (Stop("out") \/ Call(ctx))
    BY <1>8, Zenon DEF RateLimitMiddleware
  <2>2. ~Stop("out") /\ "rate_limit" # "auth"
    BY DEF Stop
  <2>3. QED
    BY <1>2, <2>1, <2>2
<1>9. CASE RequestTransform
  <2>1. At("transform") /\ (Stop("out") \/ Stop("panic") \/ Call(ctx))
    BY <1>9, Zenon DEF RequestTransform, Answer
  <2>2. ~Stop("out") /\ ~Stop("panic") /\ "transform" # "auth"
    BY DEF Stop
  <2>3. QED
    BY <1>2, <2>1, <2>2
<1>10. CASE Answers \/ Panics \/ Leaves \/ Breaks \/ Unwind \/ Recovery \/ Finish
  <2>1. mode' # "in"
    BY <1>10 DEF Answers, Panics, Stop, Leaves, Breaks, Unwind, Recovery, Finish
  <2>2. QED
    BY <2>1
<1>11. CASE UNCHANGED vars
  BY <1>11 DEF vars
<1> HIDE DEF Goal
<1>12. ServeHTTP => Goal
  BY <1>6, <1>10, RouterKind, Zenon
<1>13. Proxy => Goal
  BY <1>10, ProxyKind, Zenon
<1>14. ResponseTransform \/ LeaveLogging \/ LeaveMetrics \/ LeaveOther \/ Unwind \/ Recovery \/ Finish => Goal
  BY <1>10, OutKind, Zenon
<1>15. QED
  BY <1>3, <1>4, <1>5, <1>7, <1>8, <1>9, <1>11, <1>12, <1>13, <1>14, Zenon DEF Next

\* A key names whom its source names.
ByAddress(key) == OneLine(req.headers) => key.extracted = ClientOf(req, cfg.trusted)
LastClaims(mws) ==
  LET asked == Sieve(mws, {i \in DOMAIN mws : mws[i].type = "auth" /\ mws[i].config.providers # <<"none">>})
  IN  IF asked = <<>> THEN {} ELSE UNION {VouchedClaims(p, Seen) : p \in ToSet(Last(asked).config.providers)}
HasClaim(claims, name) == name \in DOMAIN claims /\ claims[name].type # "nil"
Names(extracted, source, claims, value, addressed) ==
  CASE source.kind = "claim" ->
         \/ \E c \in claims : HasClaim(c, source.name) /\ extracted = truncateKey(c[source.name].text)
         \/ (claims = {} \/ \E c \in claims : ~HasClaim(c, source.name)) /\ addressed
    [] source.kind = "header" -> IF value = "" THEN addressed ELSE extracted = truncateKey(value)
    [] OTHER -> addressed
Guarded(layer, mws) == layer.config.key_source.kind = "claim" => \E j \in DOMAIN mws : mws[j].type = "auth"
RightKey(key, layer, claims) ==
  LET source == layer.config.key_source
  IN  /\ key.route = cfg.routes[Served].name /\ key.name = layer.name
      /\ Names(key.extracted, source, claims, Get(Seen.headers, source.name), ByAddress(key))
RightCharge(entry) == RightKey(entry.key, entry.layer, LastClaims(entry.after)) /\ Guarded(entry.layer, entry.after)

\* The claims of the last authentication are those of the context.
LEMMA LastClaimsFacts ==
  ASSUME NEW mws, IsList(mws), NEW claims, Claimed(claims, mws)
  PROVE  claims \in LastClaims(mws) \/ (LastClaims(mws) = {} /\ claims = <<>>)
<1> DEFINE A == AuthPlaces(mws)
           asked == Sieve(mws, A)
<1>1. LastClaims(mws) = IF asked = <<>> THEN {} ELSE ClaimsOf(Last(asked))
  BY Zenon DEF LastClaims, ClaimsOf, AuthPlaces, Authenticates
<1>2. A \subseteq DOMAIN mws
  BY DEF AuthPlaces
<1> HIDE DEF A
<1>3. /\ asked = <<>> <=> A = {}
      /\ A # {} => Last(asked) = mws[Max(A)]
  BY <1>2, SieveLast
<1>4. IF A = {} THEN claims = <<>> ELSE claims \in ClaimsOf(mws[Max(A)])
  BY DEF Claimed, A
<1> HIDE DEF asked
<1>5. QED
  BY <1>1, <1>3, <1>4

\* The list of X-Forwarded-For is as it came.
LEMMA ForwardedSame ==
  ASSUME WellFormed
  PROVE  ForwardedFor(Seen.headers) = ForwardedFor(req.headers)
<1> DEFINE id == RequestID(req.headers)
<1>1. Seen.headers = Set(req.headers, "X-Request-ID", id)
  BY SeenFacts
<1> HIDE DEF id
<1>2. "X-Forwarded-For" # "X-Request-ID"
  OBVIOUS
<1>3. /\ DOMAIN Seen.headers = DOMAIN req.headers \cup {"X-Request-ID"}
      /\ \A n \in DOMAIN req.headers : n # "X-Request-ID" => Seen.headers[n] = req.headers[n]
  BY <1>1 DEF Set
<1>4. QED
  BY <1>2, <1>3 DEF ForwardedFor

\* Validation sees to it that a limit that counts by a claim has an auth middleware
\* in front, and the builder keeps them in that order.
LEMMA AuthInFront ==
  ASSUME Base, Passage, At("rate_limit")
  PROVE  Guarded(Head(todo), passed)
<1> DEFINE layer == Head(todo)
           b == {i \in DOMAIN Chain : Chain[i].type # "transform"}
           n == Depth - 3
<1> SUFFICES ASSUME layer.config.key_source.kind = "claim"
             PROVE  \E j \in DOMAIN passed : passed[j].type = "auth"
  BY DEF Guarded
<1>1. "rate_limit" \in DOMAIN Zero /\ "rate_limit" # "transform" /\ "auth" # "transform" /\ "rate_limit" # "proxy"
  BY Types
<1>2. /\ WellFormed /\ Shape /\ Served # 0 /\ layer.type = "rate_limit" /\ mode = "in"
      /\ Depth \in Nat /\ Depth >= 4 /\ ctx.route # 0 /\ ctx.route = Served
  BY <1>1, EnteredFacts, Entering DEF Base
<1>3. layer = Path[Depth + 1] /\ Depth + 1 \in 1..Len(Path) /\ Len(Path) \in Nat
  BY <1>2, Position
<1>4. /\ Len(Path) = 4 + Len(Inner) /\ \A i \in 1..Len(Inner) : Path[4 + i] = Inner[i]
      /\ Path[Len(Path)].type = "proxy"
  BY <1>2, PathFacts
<1>5. /\ IsList(Before) /\ IsList(Around) /\ Len(Inner) = Len(Before) + Len(Around) + 1
      /\ \A i \in 1..Len(Before) : Inner[i] = Before[i]
      /\ \A i \in 1..Len(Around) : Inner[Len(Before) + i].type = "transform"
  BY <1>2, InnerFacts
<1>6. Len(Before) \in Nat /\ Len(Around) \in Nat
  BY <1>5, ListSeq
<1>7. n \in 1..Len(Before) /\ layer = Before[n]
  <2>1. n \in 1..Len(Inner) /\ layer = Inner[n]
    <3>1. n \in 1..Len(Inner) /\ 4 + n = Depth + 1
      BY <1>2, <1>3, <1>4, <1>5, <1>6
    <3>2. QED
      BY <1>3, <1>4, <3>1
  <2>2. n # Len(Inner)
    <3>1. n = Len(Inner) => Depth + 1 = Len(Path)
      BY <1>2, <1>3, <1>4
    <3>2. Depth + 1 # Len(Path)
      BY <1>1, <1>2, <1>3, <1>4
    <3>3. QED
      BY <3>1, <3>2
  <2>3. ~(n - Len(Before) \in 1..Len(Around))
    <3> SUFFICES ASSUME n - Len(Before) \in 1..Len(Around) PROVE FALSE
      OBVIOUS
    <3>1. Len(Before) + (n - Len(Before)) = n
      BY <1>2, <1>6
    <3>2. Inner[Len(Before) + (n - Len(Before))].type = "transform"
      BY <1>5
    <3>3. QED
      BY <1>1, <1>2, <2>1, <3>1, <3>2
  <2>4. n \in 1..Len(Before)
    <3>1. \A x, y \in Nat : \A k \in 1..x + y + 1 : k = x + y + 1 \/ k - x \in 1..y \/ k \in 1..x
      OBVIOUS
    <3> HIDE DEF n
    <3>2. QED
      BY <1>5, <1>6, <2>1, <2>2, <2>3, <3>1
  <2>5. QED
    BY <1>5, <2>1, <2>4
<1>8. IsList(Chain) /\ Len(Chain) \in Nat /\ DOMAIN Chain = 1..Len(Chain) /\ b \subseteq 1..Len(Chain)
  BY <1>2, ChainFacts, ListSeq
<1>9. /\ Len(Before) = Cardinality(b) /\ \A m \in 1..Len(Before) : Before[m] = Chain[Place(b, m)]
  <2>1. Before = Sieve(Chain, b)
    BY Zenon DEF Before, Guards
  <2> HIDE DEF b
  <2>2. b \subseteq DOMAIN Chain
    BY <1>8
  <2>3. /\ Len(Sieve(Chain, b)) = Cardinality(b)
        /\ \A m \in 1..Len(Sieve(Chain, b)) : Sieve(Chain, b)[m] = Chain[Place(b, m)]
    BY <1>8, <2>2, SieveFacts
  <2>4. QED
    BY <2>1, <2>3, Zenon
<1>10. Served \in DOMAIN cfg.routes /\ ClaimAfterAuth(Chain)
  <2>1. Served \in DOMAIN cfg.routes
    BY <1>2, ChainParts, Zenon
  <2>2. QED
    BY <1>2, <2>1, Zenon DEF WellFormed, Valid, Chain
<1> DEFINE i == Place(b, n)
<1>11. i \in b /\ Chain[i] = layer
  <2> HIDE DEF b, n
  <2>1. QED
    BY <1>7, <1>8, <1>9, PlaceFacts
<1>12. PICK j \in 1..i - 1 : Chain[j].type = "auth"
  <2> HIDE DEF i, layer
  <2>1. i \in DOMAIN Chain
    BY <1>11
  <2>2. QED
    BY <1>2, <1>10, <1>11, <2>1, Zenon DEF ClaimAfterAuth
<1>13. j \in b /\ j < i /\ i \in Nat /\ j \in Nat
  <2>1. i \in 1..Len(Chain)
    BY <1>8, <1>11
  <2> HIDE DEF i
  <2>2. j \in 1..Len(Chain) /\ j < i /\ i \in Nat
    BY <1>8, <2>1
  <2>3. QED
    BY <1>1, <1>8, <1>12, <2>2
<1>14. PICK m \in 1..Len(Before) : Place(b, m) = j
  <2> HIDE DEF b
  <2>1. QED
    BY <1>8, <1>9, <1>13, PlaceFacts
<1>15. m < n
  <2> SUFFICES ASSUME ~(m < n) PROVE FALSE
    OBVIOUS
  <2>1. m = n \/ n < m
    BY <1>6, <1>7
  <2>2. n < m => Place(b, n) < Place(b, m)
    <3> HIDE DEF b, n
    <3>1. QED
      BY <1>7, <1>8, <1>9, PlaceFacts
  <2> HIDE DEF b, n
  <2>3. QED
    BY <1>13, <1>14, <2>1, <2>2 DEF i
<1>16. passed[m].type = "auth" /\ m \in DOMAIN passed
  <2>1. Len(passed) = Depth - 4 /\ IsList(passed) /\ \A k \in 1..Len(passed) : passed[k] = Path[4 + k]
    BY <1>2 DEF Passage
  <2>2. m \in 1..Len(passed)
    BY <1>2, <1>6, <1>15, <2>1
  <2>3. m \in 1..Len(Inner)
    BY <1>5, <1>6
  <2>4. passed[m] = Before[m]
    BY <1>4, <1>5, <2>1, <2>2, <2>3
  <2>5. Before[m] = Chain[j]
    BY <1>9, <1>14
  <2>6. QED
    BY <1>12, <2>1, <2>2, <2>4, <2>5, ListSeq
<1>17. QED
  BY <1>16

\* A charge is right.
LEMMA ChargeRight ==
  ASSUME Base, Hosts, Passage, IsList(passed), Claimed(ctx.claims, passed), At("rate_limit")
  PROVE  RightCharge([key |-> Key, layer |-> Head(todo), after |-> passed])
<1> DEFINE layer == Head(todo)
           source == layer.config.key_source
           value == Get(Seen.headers, source.name)
           claims == LastClaims(passed)
           ip == extractIP(cur, cfg.trusted)
           has == HasClaim(ctx.claims, source.name)
<1>1. "rate_limit" \in DOMAIN Zero /\ "rate_limit" # "transform"
  BY Types
<1>2. WellFormed /\ cur.headers = Seen.headers /\ ctx.route = Served
  BY <1>1, EnteredFacts, Entering
<1>3. Key.route = cfg.routes[Served].name /\ Key.name = layer.name
  BY <1>2 DEF Key, compositeKey
<1>4. Key.extracted = extractKey(cur, source, ctx.claims, cfg.trusted)
  BY DEF Key, compositeKey, Settings
<1>5. /\ source.kind = "header" /\ value # "" => Key.extracted = truncateKey(value)
      /\ source.kind = "claim" /\ has => Key.extracted = truncateKey(ctx.claims[source.name].text)
      /\ ~(source.kind = "header" /\ value # "") /\ ~(source.kind = "claim" /\ has) => Key.extracted = ip
  <2>1. "header" # "claim"
    OBVIOUS
  <2> HIDE DEF source
  <2>2. Get(cur.headers, source.name) = value
    BY <1>2
  <2>3. source.kind = "header" /\ value # "" => Key.extracted = truncateKey(value)
    BY <1>4, <2>1, <2>2, Zenon DEF extractKey
  <2>4. source.kind = "claim" /\ has => Key.extracted = truncateKey(ctx.claims[source.name].text)
    BY <1>4, <2>1, <2>2, Zenon DEF extractKey, HasClaim
  <2>5. ~(source.kind = "header" /\ value # "") /\ ~(source.kind = "claim" /\ has) => Key.extracted = ip
    BY <1>4, <2>2, Zenon DEF extractKey, HasClaim
  <2>6. QED
    BY <2>3, <2>4, <2>5, Zenon
<1>6. OneLine(req.headers) => ip = ClientOf(req, cfg.trusted)
  <2> DEFINE lines == IF "X-Forwarded-For" \in DOMAIN req.headers THEN req.headers["X-Forwarded-For"] ELSE <<>>
  <2>1. IsList(lines) /\ \A i \in DOMAIN lines : IsList(lines[i])
    <3>1. CASE "X-Forwarded-For" \in DOMAIN req.headers
      BY <3>1 DEF Hosts
    <3>2. CASE "X-Forwarded-For" \notin DOMAIN req.headers
      <4>1. lines = <<>>
        BY <3>2
      <4>2. IsList(<<>>) /\ DOMAIN <<>> = {}
        BY DEF IsList
      <4>3. QED
        BY <4>1, <4>2
    <3>3. QED
      BY <3>1, <3>2
  <2>2. cur.remote = req.remote
    BY DEF Base, Carried, Fixed
  <2>3. ForwardedFor(cur.headers) = ForwardedFor(req.headers)
    BY <1>2, ForwardedSame
  <2>4. QED
    BY <2>1, <2>2, <2>3, AddressRight, ZenonT(60)
<1>7. Key.extracted = ip => ByAddress(Key)
  BY <1>6, Zenon DEF ByAddress
<1>8. ctx.claims \in claims \/ (claims = {} /\ ctx.claims = <<>>)
  BY LastClaimsFacts
<1>9. ctx.claims = <<>> => ~has
  BY DEF HasClaim
<1>10. RightKey(Key, layer, claims)
  <2> HIDE DEF layer, claims, ip
  <2>1. CASE source.kind = "claim"
    <3>1. CASE has
      <4>1. ctx.claims \in claims
        BY <1>8, <1>9, <3>1
      <4>2. \E c \in claims : HasClaim(c, source.name) /\ Key.extracted = truncateKey(c[source.name].text)
        BY <1>5, <2>1, <3>1, <4>1, Zenon
      <4>3. QED
        BY <1>3, <2>1, <4>2, Zenon DEF RightKey, Names
    <3>2. CASE ~has
      <4>1. source.kind # "header"
        BY <2>1
      <4>2. ByAddress(Key)
        BY <1>5, <1>7, <3>2, <4>1, Zenon
      <4>3. claims = {} \/ \E c \in claims : ~HasClaim(c, source.name)
        BY <1>8, <3>2
      <4>4. QED
        BY <1>3, <2>1, <4>2, <4>3, Zenon DEF RightKey, Names
    <3>3. QED
      BY <3>1, <3>2
  <2>2. CASE source.kind = "header"
    <3>1. source.kind # "claim"
      BY <2>2
    <3>2. value = "" => ByAddress(Key)
      BY <1>5, <1>7, <3>1, Zenon
    <3>3. value # "" => Key.extracted = truncateKey(value)
      BY <1>5, <2>2, Zenon
    <3>4. QED
      BY <1>3, <2>2, <3>1, <3>2, <3>3, Zenon DEF RightKey, Names
  <2>3. CASE source.kind # "claim" /\ source.kind # "header"
    <3>1. ByAddress(Key)
      BY <1>5, <1>7, <2>3, Zenon
    <3>2. QED
      BY <1>3, <2>3, <3>1, Zenon DEF RightKey, Names
  <2>4. QED
    BY <2>1, <2>2, <2>3, Zenon
<1>11. QED
  <2> DEFINE entry == [key |-> Key, layer |-> Head(todo), after |-> passed]
  <2>1. entry.key = Key /\ entry.layer = layer /\ entry.after = passed
    OBVIOUS
  <2> HIDE DEF entry, layer
  <2>2. Guarded(Head(todo), passed)
    BY AuthInFront
  <2>3. RightCharge(entry)
    BY <1>10, <2>1, <2>2, Zenon DEF RightCharge, layer
  <2>4. QED
    BY <2>3 DEF entry

\* Every charge was right, and the context has the claims of the last
\* authentication as long as the request is on its way in.
Charges ==
  /\ IsList(charged) /\ \A i \in 1..Len(charged) : RightCharge(charged[i])
  /\ mode = "in" => Claimed(ctx.claims, passed)

\* No step breaks it.
LEMMA ChargesStep == ASSUME Base, Hosts, Passage, Judged, Charges, [Next]_vars PROVE Charges'
<1>1. cfg' = cfg /\ req' = req /\ Seen' = Seen /\ Served' = Served
  BY GivenStays
<1>2. \A entry : RightCharge(entry)' = RightCharge(entry)
  <2>1. \A mws : LastClaims(mws)' = LastClaims(mws)
    BY <1>1, Zenon DEF LastClaims
  <2>2. \A key : ByAddress(key)' = ByAddress(key)
    BY <1>1, Zenon DEF ByAddress
  <2>3. \A key, layer, claims : RightKey(key, layer, claims)' = RightKey(key, layer, claims)
    BY <1>1, <2>2, Zenon DEF RightKey
  <2>4. QED
    BY <2>1, <2>3, Zenon DEF RightCharge
<1>3. \A c, mws : Claimed(c, mws)' = Claimed(c, mws)
  BY <1>1, Zenon DEF Claimed, ClaimsOf, AuthPlaces, Authenticates
<1>4. ASSUME mode' = "in" PROVE Claimed(ctx'.claims, passed')
  <2>1. CASE AuthMiddleware
    <3>1. /\ mode = "in" /\ passed' = Append(passed, Head(todo))
          /\ IF Authenticates(Head(todo)) THEN ctx'.claims \in ClaimsOf(Head(todo)) ELSE ctx'.claims = ctx.claims
      BY <1>4, <2>1, AuthLeaves
    <3>2. QED
      BY <3>1, ClaimedAppend DEF Charges, Judged
  <2>2. CASE ~AuthMiddleware
    <3>1. /\ mode = "in" /\ ctx'.claims = ctx.claims
          /\ \/ passed' = passed
             \/ passed' = Append(passed, Head(todo)) /\ ~Authenticates(Head(todo))
      BY <1>4, <2>2, OthersLeave
    <3>2. CASE passed' = passed
      BY <3>1, <3>2 DEF Charges
    <3>3. CASE passed' = Append(passed, Head(todo)) /\ ~Authenticates(Head(todo))
      BY <3>1, <3>3, ClaimedAppend DEF Charges, Judged
    <3>4. QED
      BY <3>1, <3>2, <3>3
  <2>3. QED
    BY <2>1, <2>2
<1>5. (mode = "in" => Claimed(ctx.claims, passed))'
  BY <1>3, <1>4
<1>6. \/ charged' = charged
      \/ At("rate_limit") /\ charged' = Append(charged, [key |-> Key, layer |-> Head(todo), after |-> passed])
  <2>1. CASE RateLimitMiddleware
    BY <2>1, Zenon DEF RateLimitMiddleware, Charge
  <2>2. CASE Next /\ ~RateLimitMiddleware
    <3>1. charged' = charged
      BY <2>2 DEF Next, EnterOuter, EnterRequestID, EnterMetrics, ServeHTTP, CORSMiddleware, AuthMiddleware,
             RequestTransform, Proxy, ResponseTransform, LeaveLogging, LeaveMetrics,
             LeaveOther, Unwind, Recovery, Finish, Pop
    <3>2. QED
      BY <3>1
  <2>3. CASE UNCHANGED vars
    BY <2>3 DEF vars
  <2>4. QED
    BY <2>1, <2>2, <2>3
<1>7. IsList(charged') /\ \A i \in 1..Len(charged') : RightCharge(charged'[i])
  <2>1. CASE charged' = charged
    BY <2>1 DEF Charges
  <2> DEFINE entry == [key |-> Key, layer |-> Head(todo), after |-> passed]
  <2>2. CASE At("rate_limit") /\ charged' = Append(charged, entry)
    <3>1. RightCharge(entry)
      <4>1. mode = "in"
        BY <2>2 DEF At
      <4>2. QED
        BY <2>2, <4>1, ChargeRight DEF Charges, Judged
    <3> HIDE DEF entry
    <3>2. /\ IsList(charged') /\ Len(charged') = Len(charged) + 1 /\ Len(charged) \in Nat
          /\ \A i \in 1..Len(charged) : charged'[i] = charged[i]
          /\ charged'[Len(charged) + 1] = entry
      BY <2>2, ListAppend, ListSeq DEF Charges
    <3>3. ASSUME NEW i \in 1..Len(charged') PROVE RightCharge(charged'[i])
      <4>1. CASE i = Len(charged) + 1
        BY <3>1, <3>2, <4>1
      <4>2. CASE i \in 1..Len(charged)
        BY <3>2, <4>2 DEF Charges
      <4>3. QED
        BY <3>2, <4>1, <4>2
    <3>4. QED
      BY <3>2, <3>3
  <2>3. QED
    BY <1>6, <2>1, <2>2
<1>8. (\A i \in 1..Len(charged) : RightCharge(charged[i]))'
  BY <1>2, <1>7
<1>9. QED
  BY <1>5, <1>7, <1>8 DEF Charges

\* A rate limit charges whom its key source names: the client's address, behind
\* trusted proxies as well, a header's value, or a claim that the last
\* authentication in front of the limit has vouched for; and a limit that counts
\* by a claim has an auth middleware in front.
THEOREM ChargedRight == Spec => []ClientCharged
<1> DEFINE I == Base /\ Hosts /\ Passage /\ Judged /\ Charges
<1>1. Init => I
  <2> SUFFICES ASSUME Init PROVE Charges
    BY BaseInit, HostsInit, PassageInit, JudgedInit
  <2>1. charged = <<>> /\ passed = <<>> /\ ctx.claims = <<>>
    BY DEF Init
  <2>2. IsList(<<>>) /\ Len(<<>>) = 0 /\ DOMAIN <<>> = {}
    BY DEF IsList
  <2>3. AuthPlaces(passed) = {}
    BY <2>1, <2>2 DEF AuthPlaces
  <2>4. Claimed(ctx.claims, passed)
    BY <2>1, <2>3 DEF Claimed
  <2>5. QED
    BY <2>1, <2>2, <2>4 DEF Charges
<1>2. I /\ [Next]_vars => I'
  BY BaseStep, HostsStay, PassageStep, JudgedStep, ChargesStep
<1>3. I => ClientCharged
  <2> SUFFICES ASSUME Charges PROVE ClientCharged
    OBVIOUS
  <2>1. DOMAIN charged = 1..Len(charged)
    BY ListSeq DEF Charges
  <2>2. \A i \in DOMAIN charged : RightCharge(charged[i])
    BY <2>1 DEF Charges
  <2>3. QED
    BY <2>2, Zenon DEF ClientCharged, RightCharge, Guarded, RightKey, Names, LastClaims, HasClaim, ByAddress
<1>4. QED
  BY <1>1, <1>2, <1>3, PTL DEF Spec

(***************************************************************************)
(* What the upstream is sent.                                              *)
(***************************************************************************)

\* No transform of the route is there to rewrite requests.
Untransformed ==
  Served # 0 => \A i \in DOMAIN Chain : Chain[i].type = "transform" => ~Configured(Chain[i].config.request)

\* The request has the id the client gave it or a new one, and without such a
\* transform nothing else of it is new.
Intact(r) ==
  /\ r.id = RequestID(req.headers)
  /\ Untransformed => r.headers = Seen.headers /\ r.body = req.body

\* The upstream is sent the request that came, under the host of its own that the
\* route that serves it names and with the path its template makes of it.
ForwardedAsReceived ==
  forwarded # <<>> =>
    LET f == forwarded[1]
        route == cfg.routes[Served]
    IN  /\ f.method = req.method /\ f.host = route.upstream /\ f.remote = req.remote
        /\ f.route = route.name
        /\ f.path \in PathRewrite(route.path_rewrite, route.regex[req.path], req.path)
        /\ Intact(f)

\* So is the request on its way in.
Delivery ==
  /\ mode = "in" /\ Depth < 2 => cur.body = req.body
  /\ mode = "in" /\ Depth >= 2 => Intact(cur)
  /\ mode = "in" /\ ctx.route # 0 => cur.route = cfg.routes[Served].name
  /\ ForwardedAsReceived

\* A step that forwards nothing and does not touch the request.
LEMMA DeliveryQuiet ==
  ASSUME Delivery, [Next]_vars, forwarded' = forwarded,
         mode' = "in" => /\ mode = "in" /\ cur' = cur /\ ctx'.route = ctx.route
                         /\ Depth' < 2 <=> Depth < 2
                         /\ Depth' >= 2 <=> Depth >= 2
  PROVE  Delivery'
<1>1. /\ cfg' = cfg /\ req' = req /\ Seen' = Seen /\ Served' = Served /\ Chain' = Chain
  BY GivenStays
<1>2. ForwardedAsReceived'
  <2>1. Intact(forwarded[1])' <=> Intact(forwarded[1])
    BY <1>1, Zenon DEF Intact, Untransformed
  <2>2. QED
    BY <1>1, <2>1 DEF Delivery, ForwardedAsReceived
<1>3. ASSUME cur' = cur PROVE Intact(cur)' <=> Intact(cur)
  BY <1>1, <1>3, Zenon DEF Intact, Untransformed
<1>4. QED
  BY <1>1, <1>2, <1>3 DEF Delivery

\* A transform that rewrites no requests leaves this one as it is.
LEMMA TransformKeeps ==
  ASSUME Base, RequestTransform, mode' = "in", Intact(cur)
  PROVE  Intact(cur') /\ cur'.route = cur.route
<1> DEFINE t == Settings.request
<1>1. At("transform") /\ "transform" \in DOMAIN Zero
  BY Types DEF RequestTransform
<1>2. Head(todo).type = "transform" /\ Served # 0 /\ \E k \in DOMAIN Chain : Head(todo) = Chain[k]
  BY <1>1, EnteredFacts
<1>3. DOMAIN cur = Parts
  BY DEF Base, Carried, Fixed
<1>4. PICK headers :
        /\ headers \in IF Configured(t) THEN transformHeaders(cur.headers, t.headers, cur, TRUE) ELSE {cur.headers}
        /\ \/ cur' = [cur EXCEPT !.headers = headers]
           \/ /\ Configured(t)
              /\ \E body : cur' = [[cur EXCEPT !.headers = headers]
                                     EXCEPT !.body = body, !.headers = Set(@, "Content-Length", body)]
  BY ZenonT(60) DEF RequestTransform
<1>5. cur'.id = cur.id /\ cur'.route = cur.route
  BY <1>3, <1>4 DEF Parts
<1>6. ASSUME Untransformed PROVE cur'.headers = cur.headers /\ cur'.body = cur.body
  <2>1. ~Configured(t)
    BY <1>2, <1>6 DEF Untransformed, Settings
  <2>2. cur' = [cur EXCEPT !.headers = cur.headers]
    BY <1>4, <2>1, Zenon
  <2>3. QED
    BY <1>3, <2>2 DEF Parts
<1>7. QED
  BY <1>5, <1>6 DEF Intact

\* What is forwarded stays forwarded, but for the proxy, and nothing is new when
\* the request is not on its way in.
LEMMA DeliveryStep == ASSUME Base, Delivery, [Next]_vars PROVE Delivery'
<1>1. /\ cfg' = cfg /\ req' = req /\ Seen' = Seen /\ Served' = Served /\ Chain' = Chain
  BY GivenStays
<1>2. DOMAIN cur = Parts /\ DOMAIN ctx = {"holder", "route", "claims"} /\ Depth \in Nat
  BY Position DEF Base, Carried, Fixed
<1>3. ASSUME Calls
      PROVE  mode = "in" /\ mode' = "in" /\ ctx'.route = ctx.route /\ Depth' = Depth + 1
  BY <1>3, CallsKeep DEF Calls, Call
<1>4. ASSUME forwarded' = forwarded
      PROVE  ForwardedAsReceived'
  <2>1. Intact(forwarded[1])' <=> Intact(forwarded[1])
    BY <1>1, <1>4, Zenon DEF Intact, Untransformed
  <2>2. QED
    BY <1>1, <1>4, <2>1 DEF Delivery, ForwardedAsReceived
<1>5. ASSUME forwarded' = forwarded, cur' = cur, Calls, Depth # 1 PROVE Delivery'
  BY <1>2, <1>3, <1>5, DeliveryQuiet
<1>6. ASSUME forwarded' = forwarded, mode' # "in" PROVE Delivery'
  BY <1>6, DeliveryQuiet
<1>7. ASSUME Answers \/ Panics PROVE mode' # "in"
  BY <1>7 DEF Answers, Panics, Stop
<1>8. ASSUME EnterOuter \/ EnterMetrics PROVE Delivery'
  <2>1. PICK type \in {"recovery", "logging", "metrics"} : At(type)
    BY <1>8 DEF EnterOuter, EnterMetrics
  <2>2. Depth # 1
    BY <2>1, Entering
  <2>3. forwarded' = forwarded /\ cur' = cur
    BY <1>8 DEF EnterOuter, EnterMetrics
  <2>4. QED
    BY <1>5, <1>8, <2>2, <2>3, OuterCalls
<1>9. ASSUME EnterRequestID PROVE Delivery'
  <2>1. Depth = 1 /\ mode = "in"
    BY <1>9, Entering DEF EnterRequestID
  <2>2. /\ forwarded' = forwarded
        /\ cur' = [cur EXCEPT !.id = RequestID(cur.headers),
                              !.headers = Set(cur.headers, "X-Request-ID", RequestID(cur.headers))]
    BY <1>9 DEF EnterRequestID
  <2>3. /\ cur.headers = req.headers /\ cur.body = req.body /\ ctx.route = 0
    BY <2>1 DEF Base, Carried, Shape, Delivery
  <2>4. mode' = "in" /\ ctx'.route = ctx.route /\ Depth' = 2
    BY <1>3, <1>9, <2>1, OuterCalls
  <2>5. cur'.id = RequestID(req.headers) /\ cur'.headers = Seen.headers /\ cur'.body = req.body
    BY <1>2, <2>2, <2>3, SeenFacts DEF Parts, Base
  <2>6. Intact(cur)'
    BY <1>1, <2>5 DEF Intact
  <2>7. QED
    BY <1>4, <2>2, <2>3, <2>4, <2>6 DEF Delivery
<1>10. ASSUME ServeHTTP PROVE Delivery'
  <2>1. At("router") /\ forwarded' = forwarded
    BY <1>10 DEF ServeHTTP
  <2>2. CASE Answers
    BY <1>6, <1>7, <2>1, <2>2
  <2>3. CASE Routes
    <3>1. mode = "in" /\ Depth = 4 /\ mode' = "in" /\ Depth' = 4 /\ Served # 0
      BY <2>3 DEF Routes, Depth
    <3>2. firstMatch(cfg.routes, cur) = Served
      BY <2>1, RouterFinds DEF Base
    <3>3. cur' = [cur EXCEPT !.route = cfg.routes[Served].name]
      BY <1>10, <3>1, <3>2, Zenon DEF ServeHTTP
    <3>4. cur'.route = cfg.routes[Served].name /\ cur'.id = cur.id /\ cur'.headers = cur.headers
          /\ cur'.body = cur.body
      BY <1>2, <3>3 DEF Parts
    <3>5. Intact(cur)
      BY <3>1 DEF Delivery
    <3>6. Intact(cur)'
      BY <1>1, <3>4, <3>5 DEF Intact, Untransformed
    <3>7. QED
      BY <1>1, <1>4, <2>1, <3>1, <3>4, <3>6 DEF Delivery
  <2>4. QED
    BY <1>10, <2>2, <2>3, RouterKind
<1>11. ASSUME CORSMiddleware \/ AuthMiddleware \/ RateLimitMiddleware PROVE Delivery'
  <2>1. forwarded' = forwarded /\ cur' = cur
    BY <1>11 DEF CORSMiddleware, AuthMiddleware, RateLimitMiddleware
  <2>2. PICK type \in {"cors", "auth", "rate_limit"} : At(type)
    BY <1>11 DEF CORSMiddleware, AuthMiddleware, RateLimitMiddleware
  <2>3. Depth # 1
    BY <2>2, Entering, Types
  <2>4. Calls \/ Answers
    BY <1>11, CorsKind, AuthKind, LimitKind
  <2>5. QED
    BY <1>5, <1>6, <1>7, <2>1, <2>3, <2>4
<1>12. ASSUME RequestTransform PROVE Delivery'
  <2>1. At("transform") /\ forwarded' = forwarded
    BY <1>12 DEF RequestTransform
  <2>2. CASE Answers \/ Panics
    BY <1>6, <1>7, <2>1, <2>2
  <2>3. CASE Calls
    <3>1. mode = "in" /\ mode' = "in" /\ Depth >= 4 /\ Depth' = Depth + 1 /\ ctx'.route = ctx.route /\ ctx.route # 0
      BY <1>3, <2>1, <2>3, Entering, Types
    <3>2. Intact(cur) /\ cur.route = cfg.routes[Served].name
      BY <1>2, <3>1 DEF Delivery
    <3>3. Intact(cur') /\ cur'.route = cur.route
      BY <1>12, <3>1, <3>2, TransformKeeps
    <3>4. Intact(cur)'
      BY <1>1, <3>3 DEF Intact, Untransformed
    <3>5. Depth' >= 2 /\ ~(Depth' < 2)
      BY <1>2, <3>1
    <3>6. QED
      BY <1>1, <1>4, <2>1, <3>2, <3>3, <3>4, <3>5 DEF Delivery
  <2>4. QED
    BY <1>12, <2>2, <2>3, TransformKind
<1>13. ASSUME Proxy PROVE Delivery'
  <2>1. mode = "in" /\ Depth >= 4 /\ ctx.route # 0 /\ ctx.route = Served
    BY <1>13, Entering DEF Proxy
  <2>2. mode' # "in"
    BY <1>7, <1>13, ProxyKind
  <2>3. CASE forwarded' = forwarded
    BY <1>6, <2>2, <2>3
  <2>4. CASE \E path \in PathRewrite(Route.path_rewrite, Route.regex[cur.path], cur.path) :
               forwarded' = <<[cur EXCEPT !.path = path, !.host = Route.upstream]>>
    <3>1. PICK path \in PathRewrite(Route.path_rewrite, Route.regex[cur.path], cur.path) :
            forwarded' = <<[cur EXCEPT !.path = path, !.host = Route.upstream]>>
      BY <2>4
    <3>2. Intact(cur) /\ cur.route = cfg.routes[Served].name
      BY <1>2, <2>1 DEF Delivery
    <3>3. Fixed(cur)
      BY DEF Base, Carried
    <3> DEFINE f == [cur EXCEPT !.path = path, !.host = Route.upstream]
    <3>4. /\ f.method = req.method /\ f.host = cfg.routes[Served].upstream /\ f.remote = req.remote
          /\ f.route = cfg.routes[Served].name /\ f.path = path
          /\ f.id = cur.id /\ f.headers = cur.headers /\ f.body = cur.body
      BY <2>1, <3>2, <3>3 DEF Fixed, Parts, Route
    <3>5. path \in PathRewrite(cfg.routes[Served].path_rewrite, cfg.routes[Served].regex[req.path], req.path)
      BY <2>1, <3>1, <3>3 DEF Route, Fixed
    <3>6. forwarded'[1] = f
      BY <3>1
    <3> HIDE DEF f
    <3>7. Intact(forwarded[1])'
      BY <1>1, <3>2, <3>4, <3>6 DEF Intact, Untransformed
    <3>8. ForwardedAsReceived'
      BY <1>1, <3>4, <3>5, <3>6, <3>7 DEF ForwardedAsReceived
    <3>9. QED
      BY <2>2, <3>8 DEF Delivery
  <2>5. QED
    BY <1>13, <2>3, <2>4, Zenon DEF Proxy
<1>14. ASSUME ResponseTransform \/ LeaveLogging \/ LeaveMetrics \/ LeaveOther \/ Unwind \/ Recovery \/ Finish
       PROVE  Delivery'
  <2>1. forwarded' = forwarded
    BY <1>14 DEF ResponseTransform, LeaveLogging, LeaveMetrics, LeaveOther, Unwind, Recovery, Finish, Pop
  <2>2. mode' # "in"
    BY <1>14, OutKind DEF Leaves, Breaks, Unwind, Recovery, Finish
  <2>3. QED
    BY <1>6, <2>1, <2>2
<1>15. CASE UNCHANGED vars
  <2>1. forwarded' = forwarded /\ mode' = mode /\ cur' = cur /\ ctx' = ctx /\ Depth' = Depth
    BY <1>15 DEF vars, Depth
  <2>2. QED
    BY <1>2, <2>1, DeliveryQuiet
<1>16. QED
  BY <1>8, <1>9, <1>10, <1>11, <1>12, <1>13, <1>14, <1>15 DEF Next

\* The upstream is sent, under the host its route names and not the one the client
\* asked for, the method and the peer of the request that came, its id, and a path
\* that the template of its route makes of it; and, unless a transform of the
\* route rewrites requests, the headers and the body that came.
THEOREM ForwardedRight == Spec => []ForwardedAsReceived
<1> DEFINE I == Base /\ Delivery
<1>1. Init => I
  <2> SUFFICES ASSUME Init PROVE Delivery
    BY BaseInit
  <2>1. Base /\ Depth = 0 /\ ctx.route = 0
    BY BaseInit DEF Init, Depth
  <2>2. forwarded = <<>>
    BY DEF Init
  <2>3. cur.body = req.body
    <3>1. "body" \in DOMAIN req
      BY <2>1 DEF Base, WellFormed
    <3>2. QED
      BY <3>1, Zenon DEF Init
  <2>4. QED
    BY <2>1, <2>2, <2>3 DEF Delivery, ForwardedAsReceived
<1>2. I /\ [Next]_vars => I'
  BY BaseStep, DeliveryStep
<1>3. I => ForwardedAsReceived
  BY DEF Delivery
<1>4. QED
  BY <1>1, <1>2, <1>3, PTL DEF Spec

(***************************************************************************)
(* What the client is sent of a reply.                                     *)
(***************************************************************************)

\* No transform of the route holds responses back.
Unbuffered == Served # 0 => \A i \in DOMAIN Chain : ~Buffers(Chain[i])

\* The gateway's own apart, the headers are the same.
SameHeaders(h, g) ==
  \A n : n \notin OwnHeaders => /\ n \in DOMAIN h <=> n \in DOMAIN g
                                /\ n \in DOMAIN g => h[n] = g[n]

\* What a client may be sent when the upstream was called: the reply, unless it is
\* one to be tried again; the start of it, when nothing around the proxy holds it
\* back; an error of the proxy, of the retries or of the breaker; or the recovery's.
Relays(r) ==
  LET route == cfg.routes[Served]
  IN  \/ \E f \in Failures(route) : r.status = f.status /\ r.body = f.error
      \/ r.status = 500 /\ r.body = Recovered
      \/ /\ r.status = reply.status /\ SameHeaders(r.headers, reply.headers)
         /\ \/ r.body = reply.body /\ ~Retried(route, reply.status)
            \/ r.body = Partial /\ ~Resilient(route)

\* Without a response transform, the client is sent that.
AnsweredAsReplied == forwarded # <<>> /\ Unbuffered /\ sent.status # 0 => Relays(sent)

\* Until the upstream is called, only the gateway's own headers are there.
Relay ==
  /\ \A name \in DOMAIN reply.headers : IsList(reply.headers[name])
  /\ mode = "in" => forwarded = <<>>
  /\ Unbuffered => Width = 1
  /\ Unbuffered /\ mode = "in" => DOMAIN sent.headers \subseteq OwnHeaders
  /\ AnsweredAsReplied

\* A header of the gateway's own makes no difference.
LEMMA SameSet ==
  ASSUME NEW h, NEW g, SameHeaders(h, g), NEW name \in OwnHeaders, NEW value
  PROVE  SameHeaders(Set(h, name, value), g)
  BY DEF SameHeaders, Set

\* Nor do those that CORS sets.
LEMMA SameCors ==
  ASSUME NEW h, NEW g, SameHeaders(h, g), NEW stk
  PROVE  SameHeaders(WithCORS(h, stk), g)
<1>1. /\ "Vary" \in OwnHeaders /\ "Access-Control-Expose-Headers" \in OwnHeaders
      /\ "Access-Control-Allow-Origin" \in OwnHeaders /\ "Access-Control-Allow-Credentials" \in OwnHeaders
  BY DEF OwnHeaders
<1>2. ASSUME NEW x, SameHeaders(x, g), NEW allow, NEW c PROVE SameHeaders(AllowOrigin(x, allow, c), g)
  <2> DEFINE y == Set(x, "Access-Control-Allow-Origin", allow)
             z == Set(y, "Access-Control-Allow-Credentials", "true")
  <2>1. SameHeaders(y, g)
    BY <1>1, <1>2, SameSet, Zenon
  <2> HIDE DEF y
  <2>2. SameHeaders(z, g)
    BY <1>1, <2>1, SameSet, Zenon
  <2>3. AllowOrigin(x, allow, c) = IF c.allow_credentials THEN z ELSE y
    BY Zenon DEF AllowOrigin, y
  <2> HIDE DEF z
  <2>4. QED
    BY <2>1, <2>2, <2>3, Zenon
<1>3. ASSUME NEW origin, NEW c PROVE SameHeaders(injectCORSHeaders(h, origin, c), g)
  <2> DEFINE vary == Set(h, "Vary", "Origin")
             more == Set(vary, "Access-Control-Expose-Headers", c.exposed_headers)
             allow == resolveAllowOrigin(origin, c)
  <2>1. SameHeaders(vary, g)
    BY <1>1, SameSet, Zenon
  <2>2. injectCORSHeaders(h, origin, c) \in {vary, AllowOrigin(vary, allow, c), AllowOrigin(more, allow, c)}
    BY Zenon DEF injectCORSHeaders
  <2> HIDE DEF vary
  <2>3. SameHeaders(more, g)
    BY <1>1, <2>1, SameSet, Zenon
  <2> HIDE DEF more, allow
  <2>4. SameHeaders(AllowOrigin(vary, allow, c), g) /\ SameHeaders(AllowOrigin(more, allow, c), g)
    BY <1>2, <2>1, <2>3, Zenon
  <2>5. QED
    BY <2>1, <2>2, <2>4, Zenon
<1>4. WithCORS(h, stk) = h \/ \E origin, c : WithCORS(h, stk) = injectCORSHeaders(h, origin, c)
  BY Zenon DEF WithCORS
<1>5. QED
  BY <1>3, <1>4, Zenon

\* The upstream's headers after the gateway's own.
LEMMA SameCopy ==
  ASSUME NEW h, DOMAIN h \subseteq OwnHeaders, NEW g, \A n \in DOMAIN g : IsList(g[n])
  PROVE  SameHeaders(CopyHeader(h, g), g)
<1>1. ASSUME NEW s, IsList(s) PROVE <<>> \o s = s
  <2>1. IsList(<<>>) /\ Len(<<>>) = 0
    BY DEF IsList
  <2>2. Len(s) \in Nat
    BY <1>1, ListSeq
  <2>3. /\ IsList(<<>> \o s) /\ Len(<<>> \o s) = Len(s)
        /\ \A i \in 1..Len(s) : (<<>> \o s)[i] = s[i]
    <3>1. /\ IsList(<<>> \o s) /\ Len(<<>> \o s) = Len(<<>>) + Len(s)
          /\ \A i \in 1..Len(s) : (<<>> \o s)[Len(<<>>) + i] = s[i]
      BY <1>1, <2>1, ListConcat
    <3>2. QED
      BY <2>1, <2>2, <3>1
  <2>4. QED
    BY <1>1, <2>3, SameList
<1>2. /\ DOMAIN CopyHeader(h, g) = DOMAIN h \cup DOMAIN g
      /\ \A n \in DOMAIN g : n \notin DOMAIN h => CopyHeader(h, g)[n] = <<>> \o g[n]
  BY DEF CopyHeader
<1>3. QED
  BY <1>1, <1>2 DEF SameHeaders

\* The client's response is the only one: setting a header there.
LEMMA SentMark ==
  ASSUME Queue(writers), Width = 1, NEW name, NEW value, SetOut(name, value)
  PROVE  Width' = 1 /\ sent'.headers = Set(sent.headers, name, value)
<1>1. IsList(writers) /\ DOMAIN writers = 1..Width /\ DOMAIN sent = {"status", "headers", "body"}
  BY ListSeq DEF Queue, Width, sent
<1>2. Width' = Width
  BY SetOutFacts DEF Marked, Width
<1>3. writers' = [writers EXCEPT ![Width] = [writers[Width] EXCEPT !.headers = Set(writers[Width].headers, name, value)]]
  BY DEF SetOut, Width
<1>4. 1 \in DOMAIN writers /\ writers[1] = sent
  BY <1>1 DEF sent
<1>5. sent' = [sent EXCEPT !.headers = Set(sent.headers, name, value)]
  BY <1>3, <1>4 DEF sent
<1>6. QED
  BY <1>1, <1>2, <1>5

\* Writing there.
LEMMA SentWrite ==
  ASSUME Queue(writers), Width = 1, NEW stk, NEW status, status # 0, NEW headers, NEW body,
         writers' = Written(writers, stk, status, headers, body)
  PROVE  /\ Width' = 1 /\ sent'.status # 0
         /\ sent.status # 0 => sent' = sent
         /\ sent.status = 0 => /\ sent'.status = status /\ sent'.body = body
                               /\ sent'.headers = WithCORS(headers, stk)
<1>1. /\ Len(writers') = Len(writers) /\ Queue(writers')
      /\ Last(writers).status = 0 => Last(writers').status = status /\ Last(writers').body = body
      /\ Last(writers).status # 0 => writers' = writers
  BY WrittenLast
<1>2. Width' = 1
  BY <1>1 DEF Width
<1>3. Last(writers) = sent /\ Last(writers') = sent'
  BY <1>2 DEF Last, sent, Width
<1>4. sent'.status # 0
  BY <1>1, <1>3
<1>5. ASSUME sent.status = 0 PROVE sent'.headers = WithCORS(headers, stk)
  <2>1. writers'[1] = writers[1] \/ writers'[1].headers = WithCORS(headers, stk)
    BY <1>4, WrittenFirst DEF sent
  <2>2. sent' # sent
    BY <1>4, <1>5
  <2>3. QED
    BY <2>1, <2>2 DEF sent
<1>6. QED
  BY <1>1, <1>2, <1>3, <1>4, <1>5

\* No layer of such a route holds a response back.
LEMMA NoBuffer ==
  ASSUME Base, Unbuffered, NEW n \in 1..Len(Path)
  PROVE  ~Buffers(Path[n])
<1> SUFFICES ASSUME Buffers(Path[n]) PROVE FALSE
  OBVIOUS
<1>1. Path[n].type \in DOMAIN Zero
  BY Types DEF Buffers
<1>2. n \in 5..Len(Path) - 1 /\ ctx.route # 0 /\ ctx.route = Served
  BY <1>1, LayerAt DEF Base, Shape
<1>3. \E k \in DOMAIN Chain : Path[n] = Chain[k]
  BY <1>2, PathFacts DEF Base, Shape
<1>4. QED
  BY <1>2, <1>3 DEF Unbuffered

\* What a client may be sent hangs on the scenario alone.
LEMMA SameRelays ==
  ASSUME cfg' = cfg, reply' = reply, Served' = Served, Relays(sent')
  PROVE  Relays(sent)'
<1>1. cfg.routes[Served]' = cfg.routes[Served]
  BY Zenon
<1>2. ASSUME NEW status PROVE Retried(cfg.routes[Served], status)' = Retried(cfg.routes[Served], status)
  BY DEF Retried, Retrying
<1>3. Failures(cfg.routes[Served])' = Failures(cfg.routes[Served])
  <2> DEFINE F(route, r) ==
               LET again == Retried(route, 502) \/ (Parses(route) /\ Retried(route, r.status))
               IN  (IF Retried(route, 502) THEN {} ELSE {Failure(502, Unavailable)})
                   \cup (IF again
                         THEN {Failure(499, Error("client_closed", "client disconnected during retry")),
                               Failure(502, Error("bad_gateway", "upstream failed after all attempts"))}
                         ELSE {})
                   \cup (IF again /\ route.breaker THEN {Failure(503, CircuitOpen)} ELSE {})
  <2>1. \A route : Failures(route) = F(route, reply)
    BY Zenon DEF Failures
  <2>2. Failures(cfg.routes[Served])' = F(cfg.routes[Served], reply)'
    BY <1>1, Zenon DEF Failures
  <2> HIDE DEF F
  <2>3. QED
    BY <2>1, <2>2
<1>4. SameHeaders(sent.headers, reply.headers)' = SameHeaders(sent'.headers, reply.headers)
  BY DEF SameHeaders
<1>5. QED
  BY <1>1, <1>2, <1>3, <1>4, Zenon DEF Relays, Resilient, Retrying

\* A step that leaves what the client has, or makes it an error of the recovery.
LEMMA RelayQuiet ==
  ASSUME Relay, [Next]_vars, forwarded' = forwarded, mode' # "in", Unbuffered => Width' = 1,
         Unbuffered => sent' = sent \/ (sent'.status = 500 /\ sent'.body = Recovered)
  PROVE  Relay'
<1>1. /\ cfg' = cfg /\ reply' = reply /\ Served' = Served /\ Chain' = Chain
  BY GivenStays
<1>2. Unbuffered' <=> Unbuffered
  BY <1>1 DEF Unbuffered
<1>3. ASSUME Unbuffered, forwarded # <<>>, sent'.status # 0 PROVE Relays(sent)'
  <2>1. CASE sent' = sent
    <3>1. Relays(sent)
      BY <1>3, <2>1 DEF Relay, AnsweredAsReplied
    <3>2. QED
      BY <1>1, <2>1, <3>1, SameRelays
  <2>2. CASE sent'.status = 500 /\ sent'.body = Recovered
    BY <2>2, Zenon DEF Relays
  <2>3. QED
    BY <1>3, <2>1, <2>2
<1>4. QED
  BY <1>1, <1>2, <1>3 DEF Relay, AnsweredAsReplied

\* A step on the way in, in front of the upstream.
LEMMA RelayBefore ==
  ASSUME Relay, [Next]_vars, mode = "in", forwarded' = forwarded, Unbuffered => Width' = 1,
         Unbuffered /\ mode' = "in" => DOMAIN sent'.headers \subseteq OwnHeaders
  PROVE  Relay'
<1>1. /\ reply' = reply /\ Served' = Served /\ Chain' = Chain
  BY GivenStays
<1>2. Unbuffered' <=> Unbuffered
  BY <1>1 DEF Unbuffered
<1>3. QED
  BY <1>1, <1>2 DEF Relay, AnsweredAsReplied

\* The call of the upstream.
LEMMA RelayProxy == ASSUME Base, Relay, Proxy, [Next]_vars PROVE Relay'
<1>1. /\ cfg' = cfg /\ reply' = reply /\ Served' = Served /\ Chain' = Chain
  BY GivenStays
<1>2. Unbuffered' <=> Unbuffered
  BY <1>1 DEF Unbuffered
<1>3. mode = "in" /\ mode' # "in" /\ Queue(writers) /\ Out.status = 0 /\ reply.status # 0
  BY ProxyKind DEF Base, Responses, Answers, Panics, Stop, Proxy, At, WellFormed
<1> DEFINE route == cfg.routes[Served]
<1>4. Route = route
  BY Entering DEF Proxy, Route
<1>5. ASSUME Unbuffered
      PROVE  Width' = 1 /\ (sent'.status # 0 /\ forwarded' # <<>> => Relays(sent)')
  <2>1. Width = 1 /\ DOMAIN sent.headers \subseteq OwnHeaders /\ forwarded = <<>>
    BY <1>3, <1>5 DEF Relay
  <2>2. Out = sent /\ sent.status = 0
    BY <1>3, <2>1 DEF Out, Last, sent, Width
  <2> DEFINE h == CopyHeader(Out.headers, reply.headers)
  <2>3. SameHeaders(h, reply.headers)
    BY <2>1, <2>2, SameCopy DEF Relay
  <2>4. SameHeaders(WithCORS(h, stack), reply.headers)
    <3> HIDE DEF h
    <3>1. QED
      BY <2>3, SameCors, Zenon
  <2>5. ASSUME NEW body, writers' = Written(writers, stack, reply.status, h, body),
               \/ body = reply.body /\ ~Retried(route, reply.status)
               \/ body = Partial /\ ~Resilient(route)
        PROVE  Width' = 1 /\ Relays(sent)'
    <3> HIDE DEF h, route
    <3>1. /\ Width' = 1 /\ sent'.status = reply.status /\ sent'.body = body
          /\ sent'.headers = WithCORS(h, stack)
      BY <1>3, <2>1, <2>2, <2>5, SentWrite
    <3>2. SameHeaders(sent'.headers, reply.headers)
      BY <2>4, <3>1
    <3>3. Relays(sent')
      BY <2>5, <3>1, <3>2, Zenon DEF Relays, route
    <3>4. QED
      BY <1>1, <3>1, <3>3, SameRelays
  <2>6. ASSUME NEW f \in Failures(route) \cup Refusals(route, cur.body.kind), Answer(f.status, f.error)
        PROVE  Width' = 1 /\ sent'.status = f.status /\ sent'.body = f.error
    <3>1. PICK x : writers' = Written(writers, stack, f.status, x, f.error)
      BY <2>6 DEF Answer, WrittenError
    <3>2. f.status # 0
      BY <2>6, FailureStatus
    <3>3. QED
      BY <1>3, <2>1, <2>2, <3>1, <3>2, SentWrite
  <2>7. \/ writers' = Written(writers, stack, reply.status, h, reply.body) /\ ~Retried(route, reply.status)
        \/ \E f \in Failures(route) : Answer(f.status, f.error)
        \/ writers' = Written(writers, stack, reply.status, h, Partial) /\ ~Resilient(route)
        \/ UNCHANGED writers
        \/ \E f \in Refusals(route, cur.body.kind) : Answer(f.status, f.error) /\ UNCHANGED forwarded
    <3> HIDE DEF route
    <3>1. QED
      BY <1>4, ZenonT(60) DEF Proxy
  <2> HIDE DEF h, route
  <2>8. CASE \E f \in Failures(route) : Answer(f.status, f.error)
    <3>1. PICK f \in Failures(route) : Answer(f.status, f.error)
      BY <2>8
    <3>2. Width' = 1 /\ sent'.status = f.status /\ sent'.body = f.error
      BY <2>6, <3>1
    <3>3. Relays(sent')
      BY <3>2, Zenon DEF Relays, route
    <3>4. QED
      BY <1>1, <3>2, <3>3, SameRelays
  <2>9. CASE UNCHANGED writers
    BY <2>1, <2>2, <2>9 DEF sent, Width
  <2>10. CASE \E f \in Refusals(route, cur.body.kind) : Answer(f.status, f.error) /\ UNCHANGED forwarded
    <3>1. Width' = 1 /\ forwarded' = <<>>
      BY <2>1, <2>6, <2>10
    <3>2. QED
      BY <3>1
  <2>11. QED
    BY <2>5, <2>7, <2>8, <2>9, <2>10, Zenon
<1>6. QED
  BY <1>1, <1>2, <1>3, <1>5 DEF Relay, AnsweredAsReplied

\* What the client has of a reply changes only in these ways.
LEMMA RelayStep == ASSUME Base, Relay, [Next]_vars PROVE Relay'
<1>1. Queue(writers) /\ WellFormed /\ Shape
  BY DEF Base, Responses
<1>2. ASSUME mode = "in", forwarded' = forwarded, writers' = writers PROVE Relay'
  BY <1>2, RelayBefore DEF Relay, Width, sent
<1>3. ASSUME mode = "in", forwarded' = forwarded, NEW name \in OwnHeaders, NEW value, SetOut(name, value)
      PROVE  Relay'
  <2>1. ASSUME Unbuffered PROVE Width' = 1 /\ DOMAIN sent'.headers \subseteq OwnHeaders
    <3>1. Width = 1 /\ DOMAIN sent.headers \subseteq OwnHeaders
      BY <1>3, <2>1 DEF Relay
    <3>2. Width' = 1 /\ sent'.headers = Set(sent.headers, name, value)
      BY <1>1, <1>3, <3>1, SentMark
    <3>3. DOMAIN Set(sent.headers, name, value) = DOMAIN sent.headers \cup {name}
      BY DEF Set
    <3>4. QED
      BY <1>3, <3>1, <3>2, <3>3
  <2>2. QED
    BY <1>3, <2>1, RelayBefore
<1>4. ASSUME mode = "in", forwarded' = forwarded, Answers PROVE Relay'
  <2>1. PICK status, body : status # 0 /\ Settled(writers', writers, status, body)
    BY <1>4 DEF Answers
  <2>2. Width' = Width /\ mode' # "in"
    BY <1>4, <2>1 DEF Settled, Width, Answers, Stop
  <2>3. QED
    BY <1>4, <2>2, RelayBefore DEF Relay
<1>5. ASSUME EnterOuter \/ EnterMetrics PROVE Relay'
  BY <1>2, <1>5 DEF EnterOuter, EnterMetrics, At
<1>6. ASSUME EnterRequestID PROVE Relay'
  <2>1. mode = "in" /\ forwarded' = forwarded /\ SetOut("X-Request-ID", RequestID(cur.headers))
    BY <1>6 DEF EnterRequestID, At
  <2>2. "X-Request-ID" \in OwnHeaders
    BY DEF OwnHeaders
  <2>3. QED
    BY <1>3, <2>1, <2>2, Zenon
<1>7. ASSUME ServeHTTP PROVE Relay'
  <2>1. mode = "in" /\ forwarded' = forwarded
    BY <1>7 DEF ServeHTTP, At
  <2>2. Answers \/ writers' = writers
    BY <1>7, RouterKind DEF Routes
  <2>3. QED
    BY <1>2, <1>4, <2>1, <2>2
<1>8. ASSUME CORSMiddleware \/ AuthMiddleware PROVE Relay'
  <2>1. mode = "in" /\ forwarded' = forwarded
    BY <1>8 DEF CORSMiddleware, AuthMiddleware, At
  <2>2. CASE Answers
    BY <1>4, <2>1, <2>2
  <2>3. CASE Calls
    <3>1. mode' = "in"
      BY <2>1, <2>3 DEF Calls, Call
    <3>2. writers' = writers
      BY <1>8, <3>1, Zenon DEF CORSMiddleware, AuthMiddleware, Stop, Answer
    <3>3. QED
      BY <1>2, <2>1, <3>2
  <2>4. QED
    BY <1>8, <2>2, <2>3, CorsKind, AuthKind
<1>9. ASSUME RateLimitMiddleware PROVE Relay'
  <2>1. mode = "in" /\ forwarded' = forwarded
    BY <1>9 DEF RateLimitMiddleware, At
  <2>2. CASE Answers
    BY <1>4, <2>1, <2>2
  <2>3. CASE Calls
    <3>1. mode' = "in"
      BY <2>1, <2>3 DEF Calls, Call
    <3>2. writers' = writers \/ SetOut("X-RateLimit-Limit", Settings.requests)
      BY <1>9, <3>1, Zenon DEF RateLimitMiddleware, Stop
    <3>3. "X-RateLimit-Limit" \in OwnHeaders
      BY DEF OwnHeaders
    <3>4. QED
      BY <1>2, <1>3, <2>1, <3>2, <3>3, Zenon
  <2>4. QED
    BY <1>9, <2>2, <2>3, LimitKind
<1>10. ASSUME RequestTransform PROVE Relay'
  <2>1. mode = "in" /\ forwarded' = forwarded /\ Head(todo).type = "transform"
    BY <1>10 DEF RequestTransform, At
  <2>2. CASE Answers
    BY <1>4, <2>1, <2>2
  <2>3. CASE ~Answers
    <3>1. \/ \E status \in {413, 502} : \E error : Answer(status, error)
          \/ writers' = writers
          \/ writers' = Append(writers, Unwritten) /\ Configured(Settings.response)
      <4>1. \/ Answer(502, Error("bad_gateway", "failed to read request body"))
            \/ Answer(413, Error("request_too_large", "request body exceeds transform size limit"))
            \/ writers' = writers
            \/ writers' = Append(writers, Unwritten) /\ Configured(Settings.response)
        BY <1>10, ZenonT(60) DEF RequestTransform
      <4>2. /\ Answer(502, Error("bad_gateway", "failed to read request body")) => \E error : Answer(502, error)
            /\ Answer(413, Error("request_too_large", "request body exceeds transform size limit"))
                 => \E error : Answer(413, error)
        BY Zenon
      <4>3. (\E error : Answer(502, error)) \/ (\E error : Answer(413, error))
              => \E status \in {413, 502} : \E error : Answer(status, error)
        OBVIOUS
      <4>4. QED
        BY <4>1, <4>2, <4>3, ZenonT(60)
    <3>2. (\E status \in {413, 502} : \E error : Answer(status, error)) => mode' # "in" /\ Width' = Width
      <4> SUFFICES ASSUME NEW status \in {413, 502}, NEW error, Answer(status, error)
                   PROVE  mode' # "in" /\ Width' = Width
        OBVIOUS
      <4>1. PICK x : writers' = Written(writers, stack, status, x, error)
        BY DEF Answer, WrittenError
      <4>2. Len(writers') = Len(writers)
        BY <1>1, <4>1, WrittenLast
      <4>3. QED
        BY <4>2 DEF Answer, Stop, Width
    <3>3. Unbuffered => ~Configured(Settings.response)
      <4>1. Head(todo) = Path[Depth + 1] /\ Depth + 1 \in 1..Len(Path)
        BY <1>1, <2>1, Position
      <4>2. QED
        BY <2>1, <4>1, NoBuffer DEF Buffers, Settings
    <3>4. CASE \E status \in {413, 502} : \E error : Answer(status, error)
      BY <2>1, <3>2, <3>4, RelayBefore DEF Relay
    <3>5. CASE Unbuffered
      BY <1>2, <2>1, <3>1, <3>3, <3>4, <3>5
    <3>6. CASE ~Unbuffered
      BY <2>1, <3>6, RelayBefore
    <3>7. QED
      BY <3>5, <3>6
  <2>4. QED
    BY <2>2, <2>3
<1>11. ASSUME ResponseTransform \/ LeaveLogging \/ LeaveMetrics \/ LeaveOther PROVE Relay'
  <2>1. Leaves \/ Breaks
    BY <1>11, OutKind
  <2>2. mode' # "in" /\ Depth > 0 /\ forwarded' = forwarded
    BY <2>1 DEF Leaves, Breaks, Pop
  <2>3. Unbuffered => writers' = writers
    <3>1. Top.layer = Path[Depth] /\ Depth \in 1..Len(Path)
      BY <1>1, <2>2, Position
    <3>2. QED
      BY <2>1, <3>1, NoBuffer DEF Leaves, Breaks
  <2>4. Unbuffered => Width' = 1 /\ sent' = sent
    BY <2>3 DEF Relay, Width, sent
  <2>5. QED
    BY <2>2, <2>4, RelayQuiet
<1>12. ASSUME Unwind \/ Finish PROVE Relay'
  <2>1. mode' # "in" /\ forwarded' = forwarded /\ writers' = writers
    BY <1>12 DEF Unwind, Finish, Pop
  <2>2. Unbuffered => Width' = 1 /\ sent' = sent
    BY <2>1 DEF Relay, Width, sent
  <2>3. QED
    BY <2>1, <2>2, RelayQuiet
<1>13. ASSUME Recovery PROVE Relay'
  <2>1. mode' # "in" /\ forwarded' = forwarded
    BY <1>13 DEF Recovery, Pop
  <2>2. Settled(writers', <<sent>>, 500, Recovered)
    BY <1>13, RecoveryKeeps
  <2>3. Len(<<sent>>) = 1 /\ Last(<<sent>>) = sent /\ <<sent>>[1] = sent
    BY DEF Last
  <2>4. Width' = 1 /\ Last(writers') = sent'
    BY <2>2, <2>3 DEF Settled, Width, Last, sent
  <2>5. sent' = sent \/ (sent'.status = 500 /\ sent'.body = Recovered)
    <3>1. CASE sent.status = 0
      BY <2>2, <2>3, <2>4, <3>1 DEF Settled
    <3>2. CASE sent.status # 0
      <4>1. writers' = <<sent>>
        BY <2>2, <2>3, <3>2 DEF Settled
      <4>2. QED
        BY <2>3, <4>1 DEF sent
    <3>3. QED
      BY <3>1, <3>2
  <2>6. QED
    BY <2>1, <2>4, <2>5, RelayQuiet
<1>14. CASE UNCHANGED vars
  <2>1. /\ cfg' = cfg /\ reply' = reply /\ Served' = Served /\ Chain' = Chain
    BY GivenStays
  <2>2. mode' = mode /\ forwarded' = forwarded /\ writers' = writers
    BY <1>14 DEF vars
  <2>3. Relays(sent) => Relays(sent)'
    BY <2>1, <2>2, SameRelays DEF sent
  <2>4. QED
    BY <2>1, <2>2, <2>3 DEF Relay, AnsweredAsReplied, Unbuffered, Width, sent
<1>15. ASSUME Proxy PROVE Relay'
  BY <1>15, RelayProxy
<1>16. QED
  BY <1>5, <1>6, <1>7, <1>8, <1>9, <1>10, <1>11, <1>12, <1>13, <1>14, <1>15 DEF Next

\* When the upstream was called and the route has no response transform, the
\* client is sent the status and the body of the reply, with every header of the
\* reply and no other but the gateway's own, and then the reply is none that the
\* route tries again; or the start of it, on a route without retries and breaker;
\* or one of the errors of Failures; or the recovery's 500.
THEOREM RepliedRight == Spec => []AnsweredAsReplied
<1> DEFINE I == Base /\ Relay
<1>1. Init => I
  <2> SUFFICES ASSUME Init PROVE Relay
    BY BaseInit
  <2>1. mode = "in" /\ forwarded = <<>> /\ writers = <<Unwritten>>
    BY DEF Init
  <2>2. Width = 1 /\ sent = Unwritten
    BY <2>1 DEF Width, sent
  <2>3. DOMAIN sent.headers = {}
    BY <2>2 DEF Unwritten
  <2>4. \A name \in DOMAIN reply.headers : IsList(reply.headers[name])
    <3>1. PICK family \in Families : \E s \in family : reply = s.reply
      BY DEF Init
    <3>2. PICK s \in family : reply = s.reply
      BY <3>1
    <3>3. QED
      BY <3>2, ReplyAssumption, Zenon
  <2>5. QED
    BY <2>1, <2>2, <2>3, <2>4 DEF Relay, AnsweredAsReplied
<1>2. I /\ [Next]_vars => I'
  BY BaseStep, RelayStep
<1>3. I => AnsweredAsReplied
  BY DEF Relay
<1>4. QED
  BY <1>1, <1>2, <1>3, PTL DEF Spec

=============================================================================
