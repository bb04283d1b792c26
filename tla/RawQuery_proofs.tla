---------------------------- MODULE RawQuery_proofs ---------------------------
(***************************************************************************)
(* The pages of GET /data/raw and the walk through them, for any clusters, *)
(* stores, ranges and page size, any number of records that arrive in the  *)
(* meantime, and any order in which the goroutines end.                    *)
(***************************************************************************)
EXTENDS RawQuery, FiniteSetTheorems, SequenceTheorems, WellFoundedInduction,
        TLAPS

-----------------------------------------------------------------------------
(* Sets, sequences and days.                                               *)

\* Among finitely many elements one has none before it in a strict order.
LEMMA Extreme ==
  ASSUME NEW S, IsFiniteSet(S), S # {}, NEW R,
         \A x \in S : <<x, x>> \notin R,
         \A x, y, z \in S : <<x, y>> \in R /\ <<y, z>> \in R => <<x, z>> \in R
  PROVE  \E x \in S : \A y \in S : <<y, x>> \notin R
<1> DEFINE Below(x) == {y \in S : <<y, x>> \in R}
           size(x) == Cardinality(Below(x))
           T == {size(x) : x \in S}
<1>1. ASSUME NEW x \in S
      PROVE  IsFiniteSet(Below(x)) /\ size(x) \in Nat
  <2>1. Below(x) \in SUBSET S
    OBVIOUS
  <2>2. IsFiniteSet(Below(x))
    BY <2>1, FS_Subset
  <2> QED
    BY <2>2, FS_CardinalityType
<1>2. ASSUME NEW x \in S, NEW y \in S, <<y, x>> \in R
      PROVE  size(y) < size(x)
  <2>1. Below(y) \cup {y} \in SUBSET Below(x) /\ y \notin Below(y)
    BY <1>2
  <2>2. Cardinality(Below(y) \cup {y}) = size(y) + 1
    BY <1>1, <2>1, FS_AddElement
  <2>3. Cardinality(Below(y) \cup {y}) <= size(x)
    BY <1>1, <2>1, FS_Subset
  <2> QED
    BY <1>1, <2>2, <2>3
<1>3. T \subseteq Nat /\ T # {}
  <2>1. \A x \in S : size(x) \in Nat
    BY <1>1
  <2> HIDE DEF size
  <2> QED
    BY <2>1
<1> HIDE DEF size
<1>4. PICK n \in T : \A m \in T : ~(m < n)
  <2>1. \E n \in T : \A m \in T : <<m, n>> \notin OpToRel(<, Nat)
    BY <1>3, WFMin, NatLessThanWellFounded
  <2> QED
    BY <1>3, <2>1 DEF OpToRel
<1>5. PICK x \in S : n = size(x)
  OBVIOUS
<1> QED
  BY <1>2, <1>4, <1>5

\* A finite set of integers has a least and a greatest element.
LEMMA ExtremeTimes ==
  ASSUME NEW S \in SUBSET Int, IsFiniteSet(S), S # {}
  PROVE  Min(S) \in S /\ Max(S) \in S
<1> DEFINE R == {p \in S \X S : p[1] < p[2]}
           Q == {p \in S \X S : p[2] < p[1]}
<1>1. \A x, y \in S : /\ <<x, y>> \in R <=> x < y
                      /\ <<x, y>> \in Q <=> y < x
                      /\ x \in Int /\ y \in Int
  OBVIOUS
<1> HIDE DEF R, Q
<1>2. \E x \in S : \A y \in S : <<y, x>> \notin R
  <2>1. \A x \in S : <<x, x>> \notin R
    BY <1>1
  <2>2. \A x, y, z \in S : <<x, y>> \in R /\ <<y, z>> \in R => <<x, z>> \in R
    BY <1>1
  <2> QED
    BY <2>1, <2>2, Extreme
<1>3. \E x \in S : \A y \in S : <<y, x>> \notin Q
  <2>1. \A x \in S : <<x, x>> \notin Q
    BY <1>1
  <2>2. \A x, y, z \in S : <<x, y>> \in Q /\ <<y, z>> \in Q => <<x, z>> \in Q
    BY <1>1
  <2> QED
    BY <2>1, <2>2, Extreme
<1>4. \E x \in S : \A y \in S : x =< y
  <2>1. PICK x \in S : \A y \in S : <<y, x>> \notin R
    BY <1>2
  <2>2. \A y \in S : ~(y < x) /\ x \in Int /\ y \in Int
    BY <1>1, <2>1
  <2> QED
    BY <2>2
<1>5. \E x \in S : \A y \in S : x >= y
  <2>1. PICK x \in S : \A y \in S : <<y, x>> \notin Q
    BY <1>3
  <2>2. \A y \in S : ~(x < y) /\ x \in Int /\ y \in Int
    BY <1>1, <2>1
  <2> QED
    BY <2>2
<1> QED
  BY <1>4, <1>5 DEF Min, Max

\* A function takes finitely many values on a finite set.
LEMMA ImageFinite ==
  ASSUME NEW S, IsFiniteSet(S), NEW f, DOMAIN f = S
  PROVE  IsFiniteSet({f[x] : x \in S})
<1> DEFINE T == {f[x] : x \in S}
           g == [x \in S |-> f[x]]
<1>1. g \in Surjection(S, T)
  BY DEF Surjection
<1> HIDE DEF g, T
<1>2. IsFiniteSet(T)
  BY <1>1, FS_Surjection
<1> QED
  BY <1>2 DEF T

\* A sequence of the elements of a finite set has each of them once.
LEMMA Listing ==
  ASSUME NEW S, IsFiniteSet(S), NEW s \in SetToSeqs(S)
  PROVE  /\ s \in Seq(S) /\ Len(s) = Cardinality(S) /\ Cardinality(S) \in Nat
         /\ DOMAIN s = 1..Len(s)
         /\ \A k, l \in DOMAIN s : k # l => s[k] # s[l]
         /\ \A x \in S : \E k \in DOMAIN s : s[k] = x
<1> DEFINE n == Cardinality(S)
<1>1. n \in Nat
  BY FS_CardinalityType
<1>2. s \in [1..n -> S] /\ \A i, j \in 1..n : i # j => s[i] # s[j]
  BY DEF SetToSeqs
<1> HIDE DEF n
<1>3. s \in Seq(S) /\ Len(s) = n
  BY <1>1, <1>2
<1>4. s \in Injection(1..n, S)
  BY <1>2 DEF Injection, IsInjective
<1>5. Cardinality(1..n) = n
  BY <1>1, FS_Interval
<1>6. s \in Surjection(1..n, S)
  BY <1>4, <1>5, FS_Injection DEF n
<1>7. \A x \in S : \E k \in 1..n : s[k] = x
  BY <1>6 DEF Surjection
<1> QED
  BY <1>1, <1>2, <1>3, <1>7 DEF n

\* Division by a positive number keeps the order.
LEMMA DivisionMonotone ==
  ASSUME NEW t \in Int, NEW u \in Int, NEW n \in Nat \ {0}, t <= u
  PROVE  t \div n <= u \div n /\ t \div n \in Int
<1>1. \A v \in Int : /\ v % n \in Int /\ 0 <= v % n /\ v % n < n
                     /\ v \div n \in Int /\ v = n * (v \div n) + (v % n)
  OBVIOUS
<1> QED
  BY <1>1

\* The daily indices of a range have every record of the range.
LEMMA DaysCoverRange ==
  ASSUME NEW from \in Int, NEW to \in Int, NEW t \in Int, from <= t, t <= to
  PROVE  InIndices(t, ResolveIndices(from, to))
<1>1. /\ from \div Day <= t \div Day /\ t \div Day <= to \div Day
      /\ from \div Day \in Int /\ t \div Day \in Int /\ to \div Day \in Int
  <2>1. \A u \in Int : u <= u
    OBVIOUS
  <2> QED
    BY <2>1, DayAssumption, DivisionMonotone
<1> QED
  BY <1>1 DEF InIndices, ResolveIndices, generateDateRange

-----------------------------------------------------------------------------
(* Records, targets and plans.                                             *)

\* What is stored in a cluster is finite, and has times.
LEMMA StoredRecords ==
  ASSUME TypeOK, NEW c \in Clusters
  PROVE  /\ IsFiniteSet(Stored(c)) /\ store[c] \in Seq(Int)
         /\ \A r \in Stored(c) : /\ r \in Record /\ r[1] = c /\ Time(r) \in Int
                                 /\ r[2] \in DOMAIN store[c]
         /\ \A n \in DOMAIN store[c] : <<c, n>> \in Stored(c)
<1>1. store[c] \in Seq(Int)
  BY DEF TypeOK
<1>2. DOMAIN store[c] = 1..Len(store[c]) /\ Len(store[c]) \in Nat
      /\ \A n \in DOMAIN store[c] : store[c][n] \in Int
  BY <1>1, LenProperties
<1>3. IsFiniteSet(DOMAIN store[c])
  BY <1>2, FS_Interval
<1> DEFINE f == [n \in DOMAIN store[c] |-> <<c, n>>]
<1>4. IsFiniteSet({f[n] : n \in DOMAIN store[c]})
  <2>1. DOMAIN f = DOMAIN store[c]
    OBVIOUS
  <2> HIDE DEF f
  <2> QED
    BY <1>3, <2>1, ImageFinite
<1>5. {f[n] : n \in DOMAIN store[c]} = Stored(c)
  BY DEF Stored
<1>6. \A n \in DOMAIN store[c] : n \in Nat \ {0}
  BY <1>2
<1>7. \A n \in DOMAIN store[c] : <<c, n>> \in Stored(c)
  BY DEF Stored
<1>8. ASSUME NEW r \in Stored(c)
      PROVE  r \in Record /\ r[1] = c /\ Time(r) \in Int /\ r[2] \in DOMAIN store[c]
  <2>1. PICK n \in DOMAIN store[c] : r = <<c, n>>
    BY DEF Stored
  <2>2. r[1] = c /\ r[2] = n
    BY <2>1
  <2> QED
    BY <1>2, <1>6, <2>1, <2>2 DEF Record, Time
<1> HIDE DEF f
<1> QED
  BY <1>1, <1>4, <1>5, <1>7, <1>8

\* A cluster is asked by every goroutine.
LEMMA TargetsType ==
  ASSUME TypeOK
  PROVE  /\ Targets \in Seq(Clusters) /\ Len(Targets) \in Nat
         /\ DOMAIN Targets = 1..Len(Targets)
         /\ \A i \in DOMAIN Targets : Targets[i] \in Clusters
<1>1. Targets \in Seq(Clusters)
  <2>1. cursor # None => cursor.cluster \in Clusters
    BY DEF TypeOK, Cursors
  <2>2. \A c \in Clusters : <<c>> \in Seq(Clusters)
    OBVIOUS
  <2> QED
    BY <2>1, <2>2 DEF TypeOK, Targets
<1>2. /\ Len(Targets) \in Nat /\ DOMAIN Targets = 1..Len(Targets)
      /\ Targets \in [1..Len(Targets) -> Clusters]
  BY <1>1, LenProperties
<1> QED
  BY <1>1, <1>2

\* A range that is discovered is a plan.
LEMMA DiscoveredType ==
  ASSUME TypeOK, NEW c \in Clusters
  PROVE  Discovered(c) \in Plans
<1> DEFINE f == [r \in Stored(c) |-> Time(r)]
           S == {Time(r) : r \in Stored(c)}
<1>1. IsFiniteSet(S)
  <2>1. IsFiniteSet({f[r] : r \in Stored(c)})
    <3>1. DOMAIN f = Stored(c)
      OBVIOUS
    <3> HIDE DEF f
    <3> QED
      BY <3>1, StoredRecords, ImageFinite
  <2>2. {f[r] : r \in Stored(c)} = S
    OBVIOUS
  <2> QED
    BY <2>1, <2>2
<1>2. S \in SUBSET Int
  BY StoredRecords
<1>3. CASE store[c] = <<>>
  BY <1>3 DEF Discovered, Plans
<1>4. CASE store[c] # <<>>
  <2>1. 1 \in DOMAIN store[c]
    BY <1>4, StoredRecords, EmptySeq, LenProperties
  <2>2. S # {}
    <3>1. <<c, 1>> \in Stored(c)
      BY <2>1 DEF Stored
    <3> QED
      BY <3>1
  <2> HIDE DEF S
  <2>3. Min(S) \in Int /\ Max(S) \in Int
    BY <1>1, <1>2, <2>2, ExtremeTimes
  <2> QED
    BY <1>4, <2>3 DEF Discovered, DiscoverJobTimeRange, Plans, S
<1> QED
  BY <1>3, <1>4

\* A range that is asked for is a plan.
LEMMA AskedType ==
  ASSUME TypeOK
  PROVE  Asked \in Plans
<1>1. range \in [full : BOOLEAN, from : [ago : BOOLEAN, time : Int],
                 to : [ago : BOOLEAN, time : Int]]
  BY RangesAssumption DEF TypeOK
<1>2. ParseTime(range.from, now) \in Int /\ ParseTime(range.to, now) \in Int
  BY <1>1 DEF TypeOK, ParseTime
<1> QED
  BY <1>2 DEF Asked, Plans

\* The first Size of a sequence.
LEMMA TopOf ==
  ASSUME NEW X, NEW s \in Seq(X)
  PROVE  /\ Top(s) \in Seq(X) /\ Len(s) \in Nat /\ DOMAIN s = 1..Len(s)
         /\ Len(Top(s)) = Least(Size, Len(s)) /\ Len(Top(s)) \in Nat
         /\ DOMAIN Top(s) = 1..Len(Top(s))
         /\ Len(Top(s)) <= Size /\ Len(Top(s)) <= Len(s)
         /\ \A k \in DOMAIN Top(s) : k \in DOMAIN s /\ Top(s)[k] = s[k]
<1> DEFINE n == Least(Size, Len(s))
<1>1. Len(s) \in Nat /\ DOMAIN s = 1..Len(s) /\ \A k \in 1..Len(s) : s[k] \in X
  BY LenProperties
<1>2. n \in Nat /\ n <= Size /\ n <= Len(s)
  BY <1>1, SizeAssumption DEF Least
<1> HIDE DEF n
<1>3. \A k \in 1..n : s[k] \in X /\ k \in 1..Len(s)
  BY <1>1, <1>2
<1>4. /\ SubSeq(s, 1, n) \in Seq(X)
      /\ Len(SubSeq(s, 1, n)) = IF 1 <= n THEN n - 1 + 1 ELSE 0
      /\ \A k \in 1..n - 1 + 1 : SubSeq(s, 1, n)[k] = s[1 + k - 1]
  BY <1>2, <1>3, SubSeqProperties
<1>5. Len(SubSeq(s, 1, n)) = n /\ \A k \in 1..n : SubSeq(s, 1, n)[k] = s[k]
  BY <1>2, <1>4
<1>6. DOMAIN SubSeq(s, 1, n) = 1..n
  BY <1>4, <1>5, LenProperties
<1>7. Top(s) = SubSeq(s, 1, n)
  BY DEF Top, n
<1> QED
  BY <1>1, <1>2, <1>3, <1>4, <1>5, <1>6, <1>7 DEF n

\* The first Size of what is sorted are newer than the rest.
LEMMA TopIsNewest ==
  ASSUME NEW s \in Seq(Record), \A k \in DOMAIN s : Time(s[k]) \in Int,
         NewestFirst(s)
  PROVE  /\ NewestFirst(Top(s))
         /\ \A k \in DOMAIN s : IsIn(s[k], Top(s)) \/ PassedOver(s[k], Top(s))
<1> DEFINE t == Top(s)
<1>1. /\ DOMAIN t = 1..Len(t) /\ Len(t) = Least(Size, Len(s))
      /\ Len(t) \in Nat /\ Len(s) \in Nat /\ DOMAIN s = 1..Len(s)
      /\ \A k \in DOMAIN t : k \in DOMAIN s /\ t[k] = s[k]
  BY TopOf
<1> HIDE DEF t
<1>2. NewestFirst(t)
  BY <1>1 DEF NewestFirst
<1>3. ASSUME NEW k \in DOMAIN s, k <= Len(t)
      PROVE  IsIn(s[k], t)
  BY <1>1, <1>3 DEF IsIn
<1>4. ASSUME NEW k \in DOMAIN s, ~(k <= Len(t))
      PROVE  PassedOver(s[k], t)
  <2>1. Len(t) = Size
    <3>1. k \in Nat /\ k <= Len(s) /\ Len(t) < k
      BY <1>1, <1>4
    <3>2. Len(t) = IF Size < Len(s) THEN Size ELSE Len(s)
      BY <1>1 DEF Least
    <3> QED
      BY <1>1, <3>1, <3>2
  <2>2. ASSUME NEW j \in DOMAIN t
        PROVE  Time(t[j]) >= Time(s[k])
    <3>1. j < k /\ j \in DOMAIN s /\ t[j] = s[j]
      BY <1>1, <1>4
    <3> QED
      BY <3>1 DEF NewestFirst
  <2> QED
    BY <2>1, <2>2 DEF PassedOver
<1> QED
  BY <1>2, <1>3, <1>4 DEF t

-----------------------------------------------------------------------------
(* Types and the state of a request.                                       *)

ResultType(r) ==
  /\ r \in [state : {"pending", "planned", "page", "failed"},
            plan : Plans \cup {None}, page : Seq(Record), whole : BOOLEAN]
  /\ r.state \in {"planned", "page"} => r.plan \in Plans

LEMMA InitInv == Init => TypeOK /\ IInv
<1> SUFFICES ASSUME Init PROVE TypeOK /\ IInv
  OBVIOUS
<1>1. /\ param \in Seq(Clusters) /\ log = <<>> /\ DOMAIN log = {}
      /\ results = <<>> /\ DOMAIN results = {}
  BY ParamsAssumption DEF Init
<1>2. store \in [Clusters -> Seq(Int)]
  BY StoresAssumption DEF Init
<1>3. \A c \in Clusters : Len(store[c]) \in Nat
  BY <1>2
<1>4. known \in [Clusters -> Nat]
  BY <1>3 DEF Init
<1>5. TypeOK
  <2>1. log \in Seq([page : Seq(Record), whole : BOOLEAN,
                     plans : SUBSET [cluster : Clusters, plan : Plans]])
    BY <1>1
  <2> QED
    BY <1>1, <1>2, <1>4, <2>1, StoresAssumption DEF TypeOK, Init, NoReply
<1>6. RequestOK
  BY <1>1, <1>3 DEF RequestOK, Init, NoReply
<1> QED
  BY <1>1, <1>5, <1>6
     DEF IInv, Init, NoReply, ResultsOK, LogOK, WalkOK, PageIsNewest, Answered,
         NoRepeat, WalkIsComplete, MoreIsHonest

\* What the formulas about pages and answers read of the state.
LEMMA StoreAside ==
  ASSUME UNCHANGED <<store, known>>
  PROVE  /\ \A r : Time(r)' = Time(r)
         /\ \A c : Stored(c)' = Stored(c)
         /\ \A e : About(e)' = About(e)
BY DEF Time, Stored, About, Within

LEMMA RequestAside ==
  ASSUME UNCHANGED <<store, param, cursor>>
  PROVE  Targets' = Targets /\ \A r : Older(r)' = Older(r)
BY DEF Targets, Older, Passed, Single, Time

\* A page that is not replaced stays right.
LEMMA PageSame ==
  ASSUME UNCHANGED <<store, known, param, cursor>>,
         NEW i, results'[i] = results[i], PageOK(i)
  PROVE  PageOK(i)'
BY StoreAside, RequestAside DEF PageOK, NewestFirst, Within, IsIn, PassedOver

\* What the client has got stays as it is until the next answer.
LEMMA LogSame ==
  ASSUME IInv, UNCHANGED <<store, known, param, reply, log>>
  PROVE  LogOK' /\ WalkOK' /\ NoRepeat'
<1>1. LogOK' /\ NoRepeat'
  BY StoreAside DEF IInv, LogOK, NoRepeat, Single, IsIn
<1>2. \A r : Accounted(r)' = Accounted(r)
  BY StoreAside DEF Accounted, InLog, IsIn
<1>3. WalkOK'
  BY StoreAside, <1>2 DEF IInv, WalkOK, Single
<1> QED
  BY <1>1, <1>3

\* The clock is read by buildRawPlan alone.
LEMMA ClockAside ==
  ASSUME IInv,
         UNCHANGED <<store, known, range, param, cursor, phase, results, reply, log>>
  PROVE  IInv'
<1>1. RequestOK'
  BY DEF IInv, RequestOK, Targets, Single, NoReply
<1>2. ResultsOK'
  <2> SUFFICES ASSUME NEW i \in DOMAIN results, PageOK(i)
               PROVE  PageOK(i)'
    BY DEF IInv, ResultsOK
  <2> QED
    BY PageSame
<1>3. LogOK' /\ WalkOK' /\ NoRepeat'
  BY LogSame
<1>4. \A r : Accounted(r)' = Accounted(r)
  BY StoreAside DEF Accounted, InLog, IsIn
<1>5. WalkIsComplete'
  BY StoreAside, <1>4 DEF IInv, WalkIsComplete, Single
<1>6. PageIsNewest' /\ MoreIsHonest'
  BY StoreAside, RequestAside DEF IInv, PageIsNewest, MoreIsHonest, Answered, NewestFirst, IsIn
<1> QED
  BY <1>1, <1>2, <1>3, <1>5, <1>6 DEF IInv

\* The clock moves.
LEMMA TickKeeps ==
  ASSUME TypeOK, IInv, Tick
  PROVE  TypeOK' /\ IInv'
<1>1. UNCHANGED <<store, known, range, param, cursor, phase, results, reply, log>>
      /\ now' \in Int
  BY DEF Tick, TypeOK, asked
<1>2. TypeOK'
  BY <1>1 DEF TypeOK
<1> QED
  BY <1>1, <1>2, ClockAside

\* A goroutine moves on.
LEMMA BecomesKeeps ==
  ASSUME TypeOK, RequestOK, phase = "asking", NEW i \in DOMAIN results, NEW r,
         ResultType(r), Becomes(i, r)
  PROVE  TypeOK' /\ RequestOK'
<1>1. /\ UNCHANGED <<now, store, known, range, param, cursor, phase, reply, log>>
      /\ DOMAIN results' = DOMAIN results /\ results'[i] = r
      /\ \A j \in DOMAIN results : j # i => results'[j] = results[j]
  BY DEF Becomes, asked
<1>2. \A j \in DOMAIN results' : ResultType(results'[j])
  BY <1>1 DEF TypeOK, ResultType
<1>3. TypeOK'
  BY <1>1, <1>2 DEF TypeOK, ResultType
<1>4. RequestOK'
  BY <1>1 DEF RequestOK, Targets, Single, NoReply
<1> QED
  BY <1>3, <1>4

\* No page is there when the request begins.
LEMMA AskKeeps ==
  ASSUME TypeOK, IInv, NEW c \in Cursors \cup {None}, Ask(c),
         c = None => reply = NoReply,
         c # None => reply.next = c
  PROVE  TypeOK' /\ IInv'
<1>1. /\ UNCHANGED <<now, store, known, range, param, reply, log>>
      /\ phase' = "asking" /\ cursor' = c
      /\ results' = [i \in DOMAIN Targets' |-> Waiting]
  BY DEF Ask
<1>2. \A i \in DOMAIN results' : results'[i] = Waiting
  BY <1>1
<1>3. Waiting.state = "pending" /\ ResultType(Waiting)
  <2>1. <<>> \in Seq(Record)
    OBVIOUS
  <2> QED
    BY <2>1 DEF Waiting, ResultType
<1>4. TypeOK'
  BY <1>1, <1>2, <1>3 DEF TypeOK, ResultType
<1>5. RequestOK'
  <2>1. RequestOK
    BY DEF IInv
  <2>2. DOMAIN results' = DOMAIN Targets'
    BY <1>1
  <2>3. c = None => reply.next = c /\ log = <<>>
    BY <2>1 DEF RequestOK, NoReply
  <2>4. reply.status = "none" => c = None
    BY <2>1 DEF RequestOK, NoReply
  <2> QED
    BY <1>1, <2>1, <2>2, <2>3, <2>4 DEF RequestOK, NoReply
<1>6. ResultsOK'
  BY <1>2, <1>3 DEF ResultsOK
<1>7. LogOK' /\ WalkOK' /\ NoRepeat'
  BY <1>1, LogSame
<1>8. PageIsNewest' /\ WalkIsComplete' /\ MoreIsHonest'
  BY <1>1 DEF PageIsNewest, WalkIsComplete, MoreIsHonest, Answered
<1> QED
  BY <1>4, <1>5, <1>6, <1>7, <1>8 DEF IInv

\* What a goroutine does leaves what the client has got alone, and the pages
\* of the others.
LEMMA BecomesLeaves ==
  ASSUME TypeOK, IInv, phase = "asking", NEW i \in DOMAIN results, NEW r,
         ResultType(r), Becomes(i, r), r.state = "page" => PageOK(i)'
  PROVE  TypeOK' /\ IInv'
<1>1. /\ UNCHANGED <<now, store, known, range, param, cursor, phase, reply, log>>
      /\ DOMAIN results' = DOMAIN results /\ results'[i] = r
      /\ \A j \in DOMAIN results : j # i => results'[j] = results[j]
  BY DEF Becomes, asked
<1>2. TypeOK' /\ RequestOK'
  BY BecomesKeeps DEF IInv
<1>3. ResultsOK'
  <2> SUFFICES ASSUME NEW j \in DOMAIN results, results'[j].state = "page"
               PROVE  PageOK(j)'
    BY <1>1 DEF ResultsOK
  <2>1. CASE j = i
    BY <1>1, <2>1
  <2>2. CASE j # i
    <3>1. results'[j] = results[j] /\ PageOK(j)
      BY <1>1, <2>2 DEF IInv, ResultsOK
    <3> QED
      BY <1>1, <3>1, PageSame
  <2> QED
    BY <2>1, <2>2
<1>4. LogOK' /\ WalkOK' /\ NoRepeat'
  BY <1>1, LogSame
<1>5. PageIsNewest' /\ WalkIsComplete' /\ MoreIsHonest'
  BY <1>1 DEF PageIsNewest, WalkIsComplete, MoreIsHonest, Answered
<1> QED
  BY <1>2, <1>3, <1>4, <1>5 DEF IInv

\* A goroutine gives up, or has its plan.
LEMMA PlanKeeps ==
  ASSUME TypeOK, IInv, NEW i \in DOMAIN results, GoroutineFails(i) \/ BuildPlan(i)
  PROVE  TypeOK' /\ IInv'
<1>1. phase = "asking"
  BY DEF GoroutineFails, BuildPlan
<1>2. i \in DOMAIN Targets /\ Targets[i] \in Clusters
  BY <1>1, TargetsType DEF IInv, RequestOK
<1> DEFINE failed == [Waiting EXCEPT !.state = "failed"]
           plan == IF range.full THEN Discovered(Targets[i]) ELSE Asked
           planned == [Waiting EXCEPT !.state = "planned", !.plan = plan]
<1>3. Becomes(i, failed) \/ Becomes(i, planned)
  BY DEF GoroutineFails, BuildPlan
<1>4. <<>> \in Seq(Record)
  OBVIOUS
<1>5. plan \in Plans
  BY <1>2, DiscoveredType, AskedType
<1>6. ResultType(failed) /\ failed.state = "failed"
  BY <1>4 DEF ResultType, Waiting
<1>7. ResultType(planned) /\ planned.state = "planned"
  <2> HIDE DEF plan
  <2> QED
    BY <1>4, <1>5 DEF ResultType, Waiting
<1> HIDE DEF failed, planned
<1>8. CASE Becomes(i, failed)
  BY <1>1, <1>6, <1>8, BecomesLeaves
<1>9. CASE Becomes(i, planned)
  BY <1>1, <1>7, <1>9, BecomesLeaves
<1> QED
  BY <1>3, <1>8, <1>9

-----------------------------------------------------------------------------
(* What a goroutine brings.                                                *)

\* What the query matches is all that is older than the cursor in the range:
\* the indices leave nothing out.
LEMMA HitsAreAll ==
  ASSUME TypeOK, NEW i \in DOMAIN Targets, results[i].plan \in Plans,
         NEW r \in Stored(Targets[i]), Within(r, results[i].plan), Older(r)
  PROVE  r \in Hits(i)
<1> DEFINE plan == results[i].plan
<1>1. Time(r) \in Int
  BY TargetsType, StoredRecords
<1>2. plan.from <= Time(r) /\ Time(r) <= plan.to /\ plan.from \in Int /\ plan.to \in Int
  BY DEF Within, Plans
<1> HIDE DEF plan
<1>3. InIndices(Time(r), Indices(plan))
  <2>1. CASE range.full
    BY <2>1 DEF Indices, InIndices, ResolveWildcardIndices
  <2>2. CASE ~range.full
    <3>1. InIndices(Time(r), ResolveIndices(plan.from, plan.to))
      BY <1>1, <1>2, DaysCoverRange
    <3> QED
      BY <2>2, <3>1 DEF Indices
  <2> QED
    BY <2>1, <2>2
<1> QED
  BY <1>3 DEF Hits, plan

\* The page of a search.
LEMMA SearchPage ==
  ASSUME TypeOK, NEW i \in DOMAIN Targets, results[i].plan \in Plans,
         NEW found \in SUBSET Hits(i), NEW s \in SetToSeqs(found), NewestFirst(s)
  PROVE  /\ Top(s) \in Seq(Record) /\ Len(Top(s)) <= Size /\ NewestFirst(Top(s))
         /\ \A k \in DOMAIN Top(s) : Top(s)[k] \in Stored(Targets[i])
                                     /\ Older(Top(s)[k])
         /\ found = Hits(i) =>
              \A r \in Stored(Targets[i]) :
                Within(r, results[i].plan) /\ Older(r)
                => IsIn(r, Top(s)) \/ PassedOver(r, Top(s))
<1>1. /\ Targets[i] \in Clusters
      /\ IsFiniteSet(Stored(Targets[i]))
      /\ \A r \in Stored(Targets[i]) : r \in Record /\ Time(r) \in Int
  BY TargetsType, StoredRecords
<1>2. /\ Hits(i) \in SUBSET Stored(Targets[i])
      /\ \A r \in Hits(i) : Older(r)
  BY DEF Hits
<1>3. IsFiniteSet(found) /\ found \subseteq Record
  <2>1. found \in SUBSET Stored(Targets[i])
    BY <1>2
  <2> QED
    BY <1>1, <2>1, FS_Subset
<1>4. /\ s \in Seq(found) /\ DOMAIN s = 1..Len(s)
      /\ \A x \in found : \E k \in DOMAIN s : s[k] = x
  BY <1>3, Listing
<1>5. s \in Seq(Record) /\ \A k \in DOMAIN s : s[k] \in found
  BY <1>3, <1>4, SeqMonotonic, ElementOfSeq
<1>6. \A k \in DOMAIN s : Time(s[k]) \in Int
  BY <1>1, <1>2, <1>5
<1>7. /\ NewestFirst(Top(s))
      /\ \A k \in DOMAIN s : IsIn(s[k], Top(s)) \/ PassedOver(s[k], Top(s))
  BY <1>5, <1>6, TopIsNewest
<1>8. /\ Top(s) \in Seq(Record) /\ Len(Top(s)) <= Size
      /\ \A k \in DOMAIN Top(s) : k \in DOMAIN s /\ Top(s)[k] = s[k]
  BY <1>5, TopOf
<1>9. \A k \in DOMAIN Top(s) : Top(s)[k] \in found
  BY <1>5, <1>8
<1>10. ASSUME found = Hits(i), NEW r \in Stored(Targets[i]),
              Within(r, results[i].plan), Older(r)
       PROVE  IsIn(r, Top(s)) \/ PassedOver(r, Top(s))
  <2>1. r \in found
    BY <1>10, HitsAreAll
  <2> QED
    BY <1>4, <1>7, <2>1
<1> QED
  BY <1>2, <1>7, <1>8, <1>9, <1>10

\* A page is brought.
LEMMA SearchKeeps ==
  ASSUME TypeOK, IInv, NEW i \in DOMAIN results, Search(i)
  PROVE  TypeOK' /\ IInv'
<1>1. phase = "asking" /\ results[i].state = "planned"
  BY DEF Search
<1>2. i \in DOMAIN Targets /\ results[i].plan \in Plans
      /\ results[i] \in [state : {"pending", "planned", "page", "failed"},
                         plan : Plans \cup {None}, page : Seq(Record),
                         whole : BOOLEAN]
  BY <1>1 DEF IInv, RequestOK, TypeOK
<1> DEFINE Brings(found, s) ==
             /\ NewestFirst(s)
             /\ Becomes(i, [results[i] EXCEPT !.state = "page", !.page = Top(s),
                                              !.whole = found = Hits(i)])
<1>0. PICK found \in {Hits(i)} \cup {Hits(i) \ {r} : r \in Hits(i)} :
        \E s \in SetToSeqs(found) : Brings(found, s)
  BY DEF Search
<1>3. PICK s \in SetToSeqs(found) : Brings(found, s)
  BY <1>0
<1>4. found \in SUBSET Hits(i)
  BY <1>3
<1> DEFINE r == [results[i] EXCEPT !.state = "page", !.page = Top(s),
                                   !.whole = found = Hits(i)]
<1>5. /\ Top(s) \in Seq(Record) /\ Len(Top(s)) <= Size /\ NewestFirst(Top(s))
      /\ \A k \in DOMAIN Top(s) : Top(s)[k] \in Stored(Targets[i])
                                  /\ Older(Top(s)[k])
      /\ found = Hits(i) =>
           \A q \in Stored(Targets[i]) :
             Within(q, results[i].plan) /\ Older(q)
             => IsIn(q, Top(s)) \/ PassedOver(q, Top(s))
  BY <1>2, <1>3, <1>4, SearchPage
<1>6. /\ r.state = "page" /\ r.page = Top(s) /\ r.plan = results[i].plan
      /\ r.whole = (found = Hits(i)) /\ ResultType(r)
  BY <1>2, <1>5 DEF ResultType
<1>7. /\ UNCHANGED <<now, store, known, range, param, cursor, phase, reply, log>>
      /\ results'[i] = r
  BY <1>3 DEF Becomes, asked
<1>8. PageOK(i)'
  <2> HIDE DEF r
  <2> SUFFICES
        /\ Len(Top(s)) <= Size /\ NewestFirst(Top(s))
        /\ \A k \in DOMAIN Top(s) : Top(s)[k] \in Stored(Targets[i])
                                    /\ Older(Top(s)[k])
        /\ r.whole =>
             \A q \in Stored(Targets[i]) :
               Within(q, results[i].plan) /\ Older(q)
               => IsIn(q, Top(s)) \/ PassedOver(q, Top(s))
    BY <1>6, <1>7, StoreAside, RequestAside
       DEF PageOK, NewestFirst, Within, IsIn, PassedOver
  <2> QED
    BY <1>5, <1>6
<1> HIDE DEF r
<1>9. Becomes(i, r)
  BY <1>3 DEF r
<1> QED
  BY <1>1, <1>6, <1>8, <1>9, BecomesLeaves

-----------------------------------------------------------------------------
(* Records arrive.                                                         *)

\* What was stored stays where it is, and what comes had not arrived before the
\* first request.
Grown ==
  /\ \A c \in Clusters : \A r \in Stored(c) :
       /\ r \in Stored(c)' /\ r[1] = c /\ r \in Record
       /\ Time(r)' = Time(r)
  /\ \A c \in Clusters : \A r \in Stored(c)' :
       r[1] = c /\ (r[2] <= known[c] => r \in Stored(c))

LEMMA ArriveGrows ==
  ASSUME TypeOK, RequestOK, Arrive
  PROVE  Grown /\ TypeOK' /\ RequestOK'
<1>1. PICK c \in Clusters, t \in {now, now - 2} :
        store' = [store EXCEPT ![c] = Append(@, t)]
  BY DEF Arrive
<1>2. UNCHANGED <<now, known, range, param, cursor, phase, results, reply, log>>
  BY DEF Arrive, asked
<1>3. store[c] \in Seq(Int) /\ t \in Int
  BY DEF TypeOK
<1>4. /\ Append(store[c], t) \in Seq(Int) /\ Len(store[c]) \in Nat
      /\ DOMAIN store[c] = 1..Len(store[c])
      /\ Len(Append(store[c], t)) = Len(store[c]) + 1
      /\ DOMAIN Append(store[c], t) = 1..(Len(store[c]) + 1)
      /\ \A n \in 1..Len(store[c]) : Append(store[c], t)[n] = store[c][n]
  BY <1>3, AppendProperties, LenProperties
<1>5. /\ store' \in [Clusters -> Seq(Int)] /\ store'[c] = Append(store[c], t)
      /\ \A d \in Clusters : d # c => store'[d] = store[d]
  BY <1>1, <1>4 DEF TypeOK
<1>6. TypeOK'
  BY <1>2, <1>5 DEF TypeOK
<1>7. known \in [Clusters -> Nat] /\ \A d \in Clusters : known[d] <= Len(store[d])
  BY DEF TypeOK, RequestOK
<1>8. RequestOK'
  <2>1. \A d \in Clusters : known[d] <= Len(store'[d])
    <3> TAKE d \in Clusters
    <3>1. CASE d = c
      BY <1>4, <1>5, <1>7, <3>1
    <3>2. CASE d # c
      BY <1>5, <1>7, <3>2
    <3> QED
      BY <3>1, <3>2
  <2> QED
    BY <1>2, <2>1 DEF RequestOK, Targets, Single, NoReply
<1>9. ASSUME NEW d \in Clusters, NEW n \in DOMAIN store[d]
      PROVE  n \in DOMAIN store'[d] /\ store'[d][n] = store[d][n]
  <2>1. CASE d = c
    <3>1. n \in 1..Len(store[c]) /\ n \in 1..(Len(store[c]) + 1)
      BY <1>4, <2>1
    <3> QED
      BY <1>4, <1>5, <2>1, <3>1
  <2>2. CASE d # c
    BY <1>5, <2>2
  <2> QED
    BY <2>1, <2>2
<1>10. ASSUME NEW d \in Clusters, NEW n \in DOMAIN store'[d], n <= known[d]
       PROVE  n \in DOMAIN store[d]
  <2>1. CASE d = c
    <3>1. n \in 1..(Len(store[c]) + 1) /\ n <= known[c] /\ known[c] <= Len(store[c])
          /\ known[c] \in Nat
      BY <1>4, <1>5, <1>7, <1>10, <2>1
    <3>2. n \in 1..Len(store[c])
      BY <1>4, <3>1
    <3> QED
      BY <1>4, <2>1, <3>2
  <2>2. CASE d # c
    BY <1>5, <1>10, <2>2
  <2> QED
    BY <2>1, <2>2
<1>11. ASSUME NEW d \in Clusters, NEW r \in Stored(d)
       PROVE  r \in Stored(d)' /\ r[1] = d /\ r \in Record /\ Time(r)' = Time(r)
  <2>1. PICK n \in DOMAIN store[d] : r = <<d, n>>
    BY DEF Stored
  <2>2. r[1] = d /\ r[2] = n
    BY <2>1
  <2> QED
    BY <1>9, <2>1, <2>2, StoredRecords DEF Stored, Time
<1>12. ASSUME NEW d \in Clusters, NEW r \in Stored(d)'
       PROVE  r[1] = d /\ (r[2] <= known[d] => r \in Stored(d))
  <2>1. PICK n \in DOMAIN store'[d] : r = <<d, n>>
    BY DEF Stored
  <2>2. r[1] = d /\ r[2] = n
    BY <2>1
  <2> QED
    BY <1>10, <2>1, <2>2 DEF Stored
<1> QED
  BY <1>6, <1>8, <1>11, <1>12 DEF Grown

\* No answer is about what has come since.
LEMMA AboutStays ==
  ASSUME Grown, UNCHANGED known, NEW entry
  PROVE  About(entry)' = About(entry)
<1>1. ASSUME NEW r \in About(entry)
      PROVE  r \in About(entry)'
  <2>1. PICK c \in Clusters : r \in Stored(c)
    BY DEF About
  <2> QED
    BY <2>1 DEF Grown, About, Within
<1>2. ASSUME NEW r \in About(entry)'
      PROVE  r \in About(entry)
  <2>1. PICK c \in Clusters : r \in Stored(c)'
    BY DEF About
  <2>2. r[1] = c /\ r[2] <= known[c]
    BY <2>1 DEF Grown, About
  <2>3. r \in Stored(c)
    BY <2>1, <2>2 DEF Grown
  <2> QED
    BY <2>3 DEF Grown, About, Within
<1> QED
  BY <1>1, <1>2

\* Pages that have been brought stay what they are.
LEMMA PageStays ==
  ASSUME TypeOK, Grown, UNCHANGED <<known, param, cursor, results>>,
         NEW i \in DOMAIN Targets, PageOK(i)
  PROVE  PageOK(i)'
<1> DEFINE page == results[i].page
<1>1. Targets[i] \in Clusters /\ Targets' = Targets /\ Passed' = Passed
  BY TargetsType DEF Targets, Passed, Single
<1>2. /\ Len(page) <= Size /\ NewestFirst(page)
      /\ \A k \in DOMAIN page : page[k] \in Stored(Targets[i]) /\ Older(page[k])
      /\ results[i].whole =>
           \A r \in Stored(Targets[i]) :
             /\ r[2] <= known[r[1]] /\ Within(r, results[i].plan) /\ Older(r)
             => IsIn(r, page) \/ PassedOver(r, page)
  BY DEF PageOK
<1>3. ASSUME NEW k \in DOMAIN page
      PROVE  page[k] \in Stored(Targets[i])' /\ Time(page[k])' = Time(page[k])
  <2>1. page[k] \in Stored(Targets[i])
    BY <1>2
  <2>2. \A r \in Stored(Targets[i]) : r \in Stored(Targets[i])' /\ Time(r)' = Time(r)
    BY <1>1 DEF Grown
  <2>3. page' = page
    OBVIOUS
  <2> HIDE DEF page
  <2> QED
    BY <2>1, <2>2, <2>3
<1> HIDE DEF page
<1>4. NewestFirst(page)'
  <2> SUFFICES ASSUME NEW k \in DOMAIN page, NEW l \in DOMAIN page, k < l
               PROVE  Time(page[k])' >= Time(page[l])'
    BY DEF NewestFirst, page
  <2> QED
    BY <1>2, <1>3 DEF NewestFirst
<1>5. \A r \in Stored(Targets[i]) : Older(r)' = Older(r)
  BY <1>1 DEF Grown, Older
<1>6. ASSUME results[i].whole, NEW r \in Stored(Targets[i])',
             r[2] <= known[r[1]], Within(r, results[i].plan)', Older(r)'
      PROVE  IsIn(r, page) \/ PassedOver(r, page)'
  <2>1. r \in Stored(Targets[i]) /\ Time(r)' = Time(r)
    BY <1>1, <1>6 DEF Grown
  <2>2. Within(r, results[i].plan) /\ Older(r)
    BY <1>5, <1>6, <2>1 DEF Within
  <2>3. IsIn(r, page) \/ PassedOver(r, page)
    BY <1>2, <1>6, <2>1, <2>2
  <2> QED
    BY <1>3, <2>1, <2>3 DEF PassedOver, page
<1> QED
  BY <1>1, <1>2, <1>3, <1>4, <1>5, <1>6 DEF PageOK, page, IsIn

\* An entry of the client's log.
LEMMA LogEntry ==
  ASSUME TypeOK
  PROVE  /\ DOMAIN log = 1..Len(log) /\ Len(log) \in Nat
         /\ log # <<>> => Len(log) \in DOMAIN log
         /\ \A k \in DOMAIN log :
              /\ log[k] \in [page : Seq(Record), whole : BOOLEAN,
                             plans : SUBSET [cluster : Clusters, plan : Plans]]
              /\ log[k].page \in Seq(Record)
<1> DEFINE E == [page : Seq(Record), whole : BOOLEAN,
                 plans : SUBSET [cluster : Clusters, plan : Plans]]
<1>1. log \in Seq(E)
  BY DEF TypeOK
<1>2. \A e \in E : e.page \in Seq(Record)
  OBVIOUS
<1> HIDE DEF E
<1>3. DOMAIN log = 1..Len(log) /\ Len(log) \in Nat /\ log \in [1..Len(log) -> E]
  BY <1>1, LenProperties
<1>4. log # <<>> => Len(log) \in DOMAIN log
  BY <1>1, <1>3, EmptySeq
<1> QED
  BY <1>2, <1>3, <1>4 DEF E

\* What the client has is stored.
LEMMA LogStays ==
  ASSUME TypeOK, LogOK, Grown, UNCHANGED log,
         NEW k \in DOMAIN log, NEW m \in DOMAIN log[k].page
  PROVE  /\ log[k].page[m] \in Stored(log[k].page[m][1])
         /\ log[k].page[m] \in Stored(log[k].page[m][1])'
         /\ log[k].page[m][1] \in Clusters
         /\ Time(log[k].page[m])' = Time(log[k].page[m])
<1>1. log[k].page \in Seq(Record)
  BY LogEntry
<1>2. log[k].page[m] \in Record
  BY <1>1
<1> QED
  BY <1>2 DEF Record, Grown, LogOK

\* So does the time of the last record of a page.
LEMMA LastStays ==
  ASSUME TypeOK, LogOK, Grown, UNCHANGED log,
         NEW k \in DOMAIN log, log[k].page # <<>>
  PROVE  /\ Len(log[k].page) \in DOMAIN log[k].page
         /\ Time(Last(log[k].page))' = Time(Last(log[k].page))
<1>1. log[k].page \in Seq(Record)
  BY LogEntry
<1>2. Len(log[k].page) \in DOMAIN log[k].page
  BY <1>1, EmptySeq, LenProperties
<1> QED
  BY <1>2, LogStays DEF Last

\* A record that the client has, or misses for a reason, is not lost by what
\* comes, and what comes is not about the pages that were.
LEMMA AccountStays ==
  ASSUME TypeOK, LogOK, Grown, UNCHANGED <<known, log>>, log # <<>>,
         NEW c \in Clusters, NEW r \in Stored(c)'
  PROVE  /\ r \in Stored(c) /\ Accounted(r) => Accounted(r)'
         /\ r \notin Stored(c) => Accounted(r)'
<1>1. ASSUME r \in Stored(c), Accounted(r)
      PROVE  Accounted(r)'
  <2>1. Time(r)' = Time(r)
    BY <1>1 DEF Grown
  <2>2. CASE InLog(r)
    BY <2>2 DEF Accounted, InLog, IsIn
  <2>3. CASE \E k \in DOMAIN log : r \notin About(log[k])
    BY <2>3, AboutStays DEF Accounted
  <2>4. ASSUME NEW k \in DOMAIN log, log[k].page # <<>>,
               Time(Last(log[k].page)) = Time(r)
        PROVE  Accounted(r)'
    BY <2>1, <2>4, LastStays DEF Accounted
  <2> QED
    BY <1>1, <2>2, <2>3, <2>4 DEF Accounted
<1>2. ASSUME r \notin Stored(c)
      PROVE  Accounted(r)'
  <2>1. ~(r[2] <= known[r[1]])
    BY <1>2 DEF Grown
  <2>2. \A e : r \notin About(e)
    BY <2>1 DEF About
  <2>3. Len(log) \in DOMAIN log
    BY LogEntry
  <2> QED
    BY <2>2, <2>3, AboutStays DEF Accounted
<1> QED
  BY <1>1, <1>2

\* A record arrives at any moment.
LEMMA ArriveKeeps ==
  ASSUME TypeOK, IInv, Arrive
  PROVE  TypeOK' /\ IInv'
<1>1. UNCHANGED <<now, known, range, param, cursor, phase, results, reply, log>>
  BY DEF Arrive, asked
<1>2. Grown /\ TypeOK' /\ RequestOK'
  BY ArriveGrows DEF IInv
<1>3. RequestOK /\ LogOK
  BY DEF IInv
<1>4. ResultsOK'
  <2> SUFFICES ASSUME phase = "asking", NEW i \in DOMAIN results,
                      results[i].state = "page"
               PROVE  PageOK(i)'
    BY <1>1 DEF ResultsOK
  <2>1. i \in DOMAIN Targets /\ PageOK(i)
    BY <1>3 DEF RequestOK, IInv, ResultsOK
  <2> QED
    BY <1>1, <1>2, <2>1, PageStays
<1>5. LogOK'
  BY <1>1, <1>2, <1>3, LogStays DEF LogOK
<1>6. ASSUME ~Single(param), reply.next # None
      PROVE  /\ reply.next.cluster \in Clusters /\ log # <<>>
             /\ \A k \in DOMAIN log : \A m \in DOMAIN log[k].page :
                  /\ log[k].page[m][1] = reply.next.cluster
                  /\ Time(log[k].page[m])' >= reply.next.after
             /\ (\A k \in DOMAIN log : log[k].whole) =>
                  \A r \in Stored(reply.next.cluster)' :
                    Accounted(r)' \/ Time(r)' < reply.next.after
  <2>1. reply.next.cluster \in Clusters /\ log # <<>>
    BY <1>3, <1>6 DEF RequestOK, TypeOK, Cursors
  <2>2. /\ \A k \in DOMAIN log : \A m \in DOMAIN log[k].page :
             /\ log[k].page[m][1] = reply.next.cluster
             /\ Time(log[k].page[m]) >= reply.next.after
        /\ (\A k \in DOMAIN log : log[k].whole) =>
             \A r \in Stored(reply.next.cluster) :
               Accounted(r) \/ Time(r) < reply.next.after
    BY <1>6 DEF IInv, WalkOK
  <2>3. ASSUME NEW k \in DOMAIN log, NEW m \in DOMAIN log[k].page
        PROVE  Time(log[k].page[m])' = Time(log[k].page[m])
    BY <1>1, <1>2, <1>3, LogStays
  <2>4. ASSUME \A k \in DOMAIN log : log[k].whole,
               NEW r \in Stored(reply.next.cluster)'
        PROVE  Accounted(r)' \/ Time(r)' < reply.next.after
    <3>1. CASE r \in Stored(reply.next.cluster)
      <4>1. Time(r)' = Time(r)
        BY <1>2, <2>1, <3>1 DEF Grown
      <4>2. Accounted(r) => Accounted(r)'
        BY <1>1, <1>2, <1>3, <2>1, <2>4, <3>1, AccountStays
      <4> QED
        BY <2>2, <2>4, <3>1, <4>1, <4>2
    <3>2. CASE r \notin Stored(reply.next.cluster)
      BY <1>1, <1>2, <1>3, <2>1, <2>4, <3>2, AccountStays
    <3> QED
      BY <3>1, <3>2
  <2> QED
    BY <2>1, <2>2, <2>3, <2>4
<1>7. WalkOK'
  BY <1>1, <1>6 DEF WalkOK, Single
<1>8. NoRepeat'
  BY <1>1 DEF IInv, NoRepeat, Single, IsIn
<1>9. WalkIsComplete'
  <2> SUFFICES ASSUME phase = "idle", reply.status = "ok", reply.next = None,
                      ~Single(param), cursor # None,
                      \A k \in DOMAIN log : log[k].whole,
                      NEW r \in Stored(cursor.cluster)'
               PROVE  Accounted(r)'
    BY <1>1 DEF WalkIsComplete, Single
  <2>1. cursor.cluster \in Clusters /\ log # <<>>
    BY <1>3 DEF RequestOK, TypeOK, Cursors
  <2>2. \A q \in Stored(cursor.cluster) : Accounted(q)
    BY DEF IInv, WalkIsComplete
  <2> QED
    BY <1>1, <1>2, <1>3, <2>1, <2>2, AccountStays
<1> DEFINE last == Last(log)
<1>10. ASSUME Answered
       PROVE  /\ About(last)' = About(last)
              /\ \A r \in About(last) : Time(r)' = Time(r)
              /\ \A k \in DOMAIN last.page : Time(last.page[k])' = Time(last.page[k])
  <2>1. log # <<>>
    BY <1>3, <1>10 DEF RequestOK, Answered
  <2>2. Len(log) \in DOMAIN log
    BY <2>1, LogEntry
  <2>3. \A k \in DOMAIN last.page : Time(last.page[k])' = Time(last.page[k])
    BY <1>1, <1>2, <1>3, <2>2, LogStays DEF Last
  <2>4. \A r \in About(last) : Time(r)' = Time(r)
    BY <1>2 DEF Grown, About
  <2> QED
    BY <1>1, <1>2, <2>3, <2>4, AboutStays
<1>11. last' = last /\ (Answered' <=> Answered)
  BY <1>1 DEF Answered
<1>12. PageIsNewest'
  <2> SUFFICES ASSUME Answered, cursor = None
               PROVE  /\ NewestFirst(last.page)'
                      /\ \A r \in About(last)' :
                           ~IsIn(r, last.page) =>
                             /\ Len(last.page) = Size
                             /\ \A k \in DOMAIN last.page :
                                  Time(last.page[k])' >= Time(r)'
    BY <1>1, <1>11 DEF PageIsNewest, IsIn
  <2>1. /\ NewestFirst(last.page)
        /\ \A r \in About(last) :
             ~IsIn(r, last.page) =>
               /\ Len(last.page) = Size
               /\ \A k \in DOMAIN last.page : Time(last.page[k]) >= Time(r)
    BY DEF IInv, PageIsNewest
  <2> HIDE DEF last
  <2>2. NewestFirst(last.page)'
    BY <1>10, <1>11, <2>1 DEF NewestFirst
  <2> QED
    BY <1>10, <2>1, <2>2
<1>13. MoreIsHonest'
  <2> SUFFICES ASSUME Answered, ~reply.more, NEW r \in About(last)',
                      ~(Cardinality(last.plans) > 1 /\ Len(last.page) = Size)
               PROVE  IsIn(r, last.page) \/ ~Older(r)'
    BY <1>1, <1>11 DEF MoreIsHonest, IsIn
  <2>1. r \in About(last) /\ Time(r)' = Time(r)
    BY <1>10
  <2>2. IsIn(r, last.page) \/ ~Older(r)
    BY <2>1 DEF IInv, MoreIsHonest
  <2> QED
    BY <1>1, <2>1, <2>2 DEF Older, Passed, Single
<1> QED
  BY <1>2, <1>4, <1>5, <1>7, <1>8, <1>9, <1>12, <1>13 DEF IInv

-----------------------------------------------------------------------------
(* The answer.                                                             *)

PlansOf == {[cluster |-> Targets[i], plan |-> results[i].plan] : i \in Good}
AllWhole == \A i \in Good : results[i].whole
Entry(page) == [page |-> page, plans |-> PlansOf, whole |-> AllWhole]

\* What MergeResults makes of the pages: the records are theirs and in order,
\* what is missing is behind them, and has_more and the cursor tell.
AnswerOK(page, more, next) ==
  /\ page \in Seq(Record) /\ NewestFirst(page)
  /\ more \in BOOLEAN /\ next \in Cursors \cup {None}
  /\ \A m \in DOMAIN page : Older(page[m]) /\ \E i \in Good : page[m] \in Stored(Targets[i])
  /\ AllWhole => \A r \in About(Entry(page)) : Older(r) =>
       /\ IsIn(r, page) \/ PassedOver(r, page)
       /\ ~more => IsIn(r, page) \/ (Cardinality(PlansOf) > 1 /\ Len(page) = Size)
  /\ next # None =>
       page # <<>> /\ next = nextCursor(page) /\ \E i : Good = {i}
  /\ next = None /\ (\E i : Good = {i}) => ~more

\* The pages that an answer is made of.
LEMMA GoodPages ==
  ASSUME TypeOK, IInv, phase = "asking", NEW i \in Good
  PROVE  /\ i \in DOMAIN Targets /\ Targets[i] \in Clusters
         /\ results[i].page \in Seq(Record) /\ results[i].plan \in Plans
         /\ PageOK(i)
         /\ DOMAIN results[i].page = 1..Len(results[i].page)
         /\ Len(results[i].page) \in Nat /\ Len(results[i].page) <= Size
         /\ \A k \in DOMAIN results[i].page :
              /\ results[i].page[k] \in Record
              /\ results[i].page[k] \in Stored(Targets[i])
              /\ Older(results[i].page[k])
              /\ Time(results[i].page[k]) \in Int
<1>1. i \in DOMAIN results /\ results[i].state = "page"
  BY DEF Good
<1>2. i \in DOMAIN Targets /\ PageOK(i)
  BY <1>1 DEF IInv, RequestOK, ResultsOK
<1>3. results[i].page \in Seq(Record) /\ results[i].plan \in Plans
  BY <1>1 DEF TypeOK
<1>4. Targets[i] \in Clusters
  BY <1>2, TargetsType
<1>5. /\ DOMAIN results[i].page = 1..Len(results[i].page)
      /\ Len(results[i].page) \in Nat
  BY <1>3, LenProperties
<1>6. /\ Len(results[i].page) <= Size
      /\ \A k \in DOMAIN results[i].page :
           /\ results[i].page[k] \in Stored(Targets[i])
           /\ Older(results[i].page[k])
  BY <1>2 DEF PageOK
<1> QED
  BY <1>2, <1>3, <1>4, <1>5, <1>6, StoredRecords

\* A record that an answer is about was in the range of one of its pages.
LEMMA AboutPage ==
  ASSUME TypeOK, IInv, phase = "asking", NEW page, AllWhole,
         NEW r \in About(Entry(page)), Older(r)
  PROVE  /\ r \in Record /\ Time(r) \in Int
         /\ \E i \in Good :
              /\ Targets[i] = r[1] /\ r \in Stored(Targets[i])
              /\ \A j \in Good : Targets[j] = Targets[i] /\ results[j].plan = results[i].plan
                   => IsIn(r, results[j].page) \/ PassedOver(r, results[j].page)
<1>1. PICK c \in Clusters : r \in Stored(c)
  BY DEF About
<1>2. r[1] = c /\ r \in Record /\ Time(r) \in Int
  BY <1>1, StoredRecords
<1>3. /\ r[2] <= known[r[1]]
      /\ \E p \in PlansOf : p.cluster = r[1] /\ Within(r, p.plan)
  BY DEF About, Entry
<1>4. PICK i \in Good : Targets[i] = r[1] /\ Within(r, results[i].plan)
  BY <1>3 DEF PlansOf
<1>5. ASSUME NEW j \in Good, Targets[j] = Targets[i],
             results[j].plan = results[i].plan
      PROVE  IsIn(r, results[j].page) \/ PassedOver(r, results[j].page)
  <2>1. PageOK(j) /\ results[j].whole
    BY GoodPages DEF AllWhole
  <2> QED
    BY <1>1, <1>2, <1>3, <1>4, <1>5, <2>1 DEF PageOK
<1> QED
  BY <1>1, <1>2, <1>4, <1>5

\* No page: every list of clusters was empty.
LEMMA EmptyAnswer ==
  ASSUME Good = {}
  PROVE  AnswerOK(<<>>, FALSE, None)
<1>1. \A p : About(Entry(p)) = {}
  BY DEF About, Entry, PlansOf
<1>2. <<>> \in Seq(Record) /\ DOMAIN <<>> = {}
  OBVIOUS
<1> QED
  BY <1>1, <1>2 DEF AnswerOK, NewestFirst

\* One page.
LEMMA OneAnswer ==
  ASSUME TypeOK, IInv, phase = "asking", NEW i, Good = {i}
  PROVE  LET page == results[i].page
         IN AnswerOK(page, HasMore(page),
                     IF HasMore(page) THEN nextCursor(page) ELSE None)
<1> DEFINE page == results[i].page
           next == IF HasMore(page) THEN nextCursor(page) ELSE None
<1>1. i \in Good
  OBVIOUS
<1>2. /\ i \in DOMAIN Targets /\ Targets[i] \in Clusters
      /\ page \in Seq(Record) /\ PageOK(i)
      /\ DOMAIN page = 1..Len(page) /\ Len(page) \in Nat /\ Len(page) <= Size
      /\ \A k \in DOMAIN page :
           /\ page[k] \in Record /\ page[k] \in Stored(Targets[i])
           /\ Older(page[k]) /\ Time(page[k]) \in Int
  BY <1>1, GoodPages
<1>3. NewestFirst(page)
  BY <1>2 DEF PageOK
<1>4. ASSUME AllWhole, NEW r \in About(Entry(page)), Older(r)
      PROVE  IsIn(r, page) \/ PassedOver(r, page)
  BY <1>1, <1>4, AboutPage
<1> HIDE DEF page
<1>5. HasMore(page) \in BOOLEAN /\ (HasMore(page) <=> Len(page) = Size)
  <2>1. HasMore(page) <=> Len(page) >= Size
    BY DEF HasMore
  <2>2. Len(page) >= Size <=> Len(page) = Size
    <3>1. \A m, n \in Nat : m <= n => (m >= n <=> m = n)
      OBVIOUS
    <3>2. Len(page) \in Nat /\ Size \in Nat /\ Len(page) <= Size
      BY <1>2, SizeAssumption
    <3> QED
      BY <3>1, <3>2
  <2>3. HasMore(page) \in BOOLEAN
    BY DEF HasMore
  <2> QED
    BY <2>1, <2>2, <2>3
<1>6. ASSUME HasMore(page)
      PROVE  page # <<>> /\ nextCursor(page) \in Cursors /\ nextCursor(page) # None
  <2>1. Len(page) \in DOMAIN page /\ page # <<>>
    BY <1>2, <1>5, <1>6, SizeAssumption, EmptySeq
  <2>2. Last(page) \in Record /\ Time(Last(page)) \in Int
    BY <1>2, <2>1 DEF Last
  <2>3. nextCursor(page) \in Cursors
    BY <2>2 DEF nextCursor, Cursors, Record
  <2> QED
    BY <2>1, <2>3, NoneAssumption DEF Cursors
<1>7. /\ next \in Cursors \cup {None}
      /\ next # None => page # <<>> /\ next = nextCursor(page)
      /\ next = None => ~HasMore(page)
  BY <1>6
<1> HIDE DEF next
<1>8. AnswerOK(page, HasMore(page), next)
  BY <1>1, <1>2, <1>3, <1>4, <1>5, <1>7 DEF AnswerOK, PassedOver
<1> QED
  BY <1>8 DEF page, next

\* N different values are among the first n of a sequence.
HasPlaces(s, n, N, g) ==
  /\ \A k, l \in 1..N : g[k] = g[l] => k = l
  /\ \A k \in 1..N : \E j \in 1..n : s[j] = g[k]

LEMMA PlacesFor ==
  ASSUME NEW s, NEW n \in Nat, NEW N \in Nat, NEW g, HasPlaces(s, n, N, g)
  PROVE  N <= n
<1> DEFINE f == [k \in 1..N |-> CHOOSE j \in 1..n : s[j] = g[k]]
<1>1. \A k \in 1..N : f[k] \in 1..n /\ s[f[k]] = g[k]
  BY DEF HasPlaces
<1>2. f \in [1..N -> 1..n]
  BY <1>1
<1> HIDE DEF f
<1>3. \A k, l \in 1..N : f[k] = f[l] => k = l
  BY <1>1 DEF HasPlaces
<1>4. /\ IsFiniteSet(1..N) /\ Cardinality(1..N) = N
      /\ IsFiniteSet(1..n) /\ Cardinality(1..n) = n
  BY FS_Interval
<1>5. ASSUME n < N PROVE FALSE
  <2>1. Cardinality(1..n) < Cardinality(1..N)
    BY <1>4, <1>5
  <2>2. \E k, l \in 1..N : k # l /\ f[k] = f[l]
    <3> DEFINE S == 1..N
               T == 1..n
    <3>1. /\ IsFiniteSet(S) /\ IsFiniteSet(T) /\ Cardinality(T) < Cardinality(S)
          /\ f \in [S -> T]
      BY <1>2, <1>4, <2>1
    <3> HIDE DEF S, T
    <3>2. \E k, l \in S : k # l /\ f[k] = f[l]
      BY <3>1, FS_PigeonHole
    <3> QED
      BY <3>2 DEF S
  <2> QED
    BY <1>3, <2>2
<1> QED
  BY <1>5

\* The records of all pages are finitely many.
LEMMA FoundFinite ==
  ASSUME TypeOK, IInv, phase = "asking"
  PROVE  /\ IsFiniteSet(Good) /\ IsFiniteSet(Found) /\ IsFiniteSet(PlansOf)
         /\ \A f \in Found : /\ f[1] \in Good /\ f[2] \in DOMAIN results[f[1]].page
                             /\ f = <<f[1], f[2]>>
         /\ \A i \in Good : \A k \in DOMAIN results[i].page : <<i, k>> \in Found
<1>1. IsFiniteSet(Good)
  <2>1. Good \in SUBSET (1..Len(Targets))
    BY TargetsType, GoodPages
  <2>2. IsFiniteSet(1..Len(Targets))
    BY TargetsType, FS_Interval
  <2> QED
    BY <2>1, <2>2, FS_Subset
<1>2. ASSUME NEW i \in Good
      PROVE  IsFiniteSet({<<i, k>> : k \in DOMAIN results[i].page})
  <2> DEFINE S == DOMAIN results[i].page
             f == [k \in S |-> <<i, k>>]
  <2>1. IsFiniteSet(S)
    BY GoodPages, FS_Interval
  <2>2. {f[k] : k \in S} = {<<i, k>> : k \in S} /\ DOMAIN f = S
    OBVIOUS
  <2> HIDE DEF f, S
  <2>3. IsFiniteSet({f[k] : k \in S})
    BY <2>1, <2>2, ImageFinite
  <2> QED
    BY <2>2, <2>3 DEF S
<1> DEFINE pages == [i \in Good |-> {<<i, k>> : k \in DOMAIN results[i].page}]
<1>3. IsFiniteSet(Found)
  <2>1. DOMAIN pages = Good /\ \A i \in Good : IsFiniteSet(pages[i])
    BY <1>2
  <2>2. Found = UNION {pages[i] : i \in Good}
    BY DEF Found
  <2> HIDE DEF pages
  <2>3. IsFiniteSet({pages[i] : i \in Good})
    BY <1>1, <2>1, ImageFinite
  <2>4. \A T \in {pages[i] : i \in Good} : IsFiniteSet(T)
    BY <2>1
  <2>5. IsFiniteSet(UNION {pages[i] : i \in Good})
    BY <2>3, <2>4, FS_UNION
  <2> QED
    BY <2>2, <2>5
<1> DEFINE p == [i \in Good |-> [cluster |-> Targets[i], plan |-> results[i].plan]]
<1>4. IsFiniteSet(PlansOf)
  <2>1. DOMAIN p = Good /\ PlansOf = {p[i] : i \in Good}
    BY DEF PlansOf
  <2> HIDE DEF p
  <2> QED
    BY <1>1, <2>1, ImageFinite
<1>5. ASSUME NEW f \in Found
      PROVE  /\ f[1] \in Good /\ f[2] \in DOMAIN results[f[1]].page
             /\ f = <<f[1], f[2]>>
  <2>1. PICK i \in Good : f \in {<<i, k>> : k \in DOMAIN results[i].page}
    BY DEF Found
  <2>2. PICK k \in DOMAIN results[i].page : f = <<i, k>>
    BY <2>1
  <2> QED
    BY <2>2
<1>6. \A i \in Good : \A k \in DOMAIN results[i].page : <<i, k>> \in Found
  BY DEF Found
<1> QED
  BY <1>1, <1>3, <1>4, <1>5, <1>6

\* If there is one plan only, all pages have it.
LEMMA SamePlan ==
  ASSUME TypeOK, IInv, phase = "asking", ~(Cardinality(PlansOf) > 1),
         NEW i \in Good, NEW j \in Good
  PROVE  Targets[j] = Targets[i] /\ results[j].plan = results[i].plan
<1> DEFINE a == [cluster |-> Targets[i], plan |-> results[i].plan]
           b == [cluster |-> Targets[j], plan |-> results[j].plan]
<1>1. a \in PlansOf /\ b \in PlansOf
  BY DEF PlansOf
<1>2. ASSUME a # b PROVE FALSE
  <2> HIDE DEF a, b
  <2>1. IsFiniteSet({a}) /\ Cardinality({a}) = 1
    BY FS_Singleton
  <2>2. Cardinality({a} \cup {b}) = 2
    BY <1>2, <2>1, FS_AddElement, SMTT(60)
  <2>3. {a} \cup {b} \in SUBSET PlansOf
    BY <1>1
  <2>4. Cardinality({a} \cup {b}) <= Cardinality(PlansOf)
    BY <2>3, FoundFinite, FS_Subset
  <2>5. Cardinality(PlansOf) \in Nat
    BY FoundFinite, FS_CardinalityType
  <2> QED
    BY <2>2, <2>4, <2>5
<1>3. a.cluster = b.cluster /\ a.plan = b.plan
  BY <1>2
<1> QED
  BY <1>3

\* Several pages, sorted and cut.
LEMMA ManyAnswer ==
  ASSUME TypeOK, IInv, phase = "asking", Good # {}, Cardinality(Good) # 1,
         NEW s \in SetToSeqs(Found), IsMerge(s)
  PROVE  AnswerOK(Top([k \in DOMAIN s |-> At(s[k])]), Len(s) > Size, None)
<1> DEFINE u == [k \in DOMAIN s |-> At(s[k])]
           page == Top(u)
<1>1. /\ s \in Seq(Found) /\ DOMAIN s = 1..Len(s) /\ Len(s) \in Nat
      /\ \A f \in Found : \E k \in DOMAIN s : s[k] = f
  BY FoundFinite, Listing
<1>2. \A k \in DOMAIN s : s[k] \in Found
  BY <1>1, ElementOfSeq
<1>3. ASSUME NEW k \in DOMAIN s
      PROVE  /\ u[k] \in Record /\ Older(u[k]) /\ Time(u[k]) \in Int
             /\ \E i \in Good : u[k] \in Stored(Targets[i])
  <2>1. /\ s[k][1] \in Good
        /\ s[k][2] \in DOMAIN results[s[k][1]].page
    BY <1>2, FoundFinite
  <2>2. u[k] = results[s[k][1]].page[s[k][2]]
    BY DEF At
  <2> QED
    BY <2>1, <2>2, GoodPages
<1>4. DOMAIN u = DOMAIN s /\ u = [k \in DOMAIN s |-> u[k]]
  OBVIOUS
<1>5. ASSUME NEW i \in Good, NEW k \in DOMAIN results[i].page
      PROVE  \E j \in DOMAIN s : s[j] = <<i, k>> /\ u[j] = results[i].page[k]
  <2>1. PICK j \in DOMAIN s : s[j] = <<i, k>>
    BY <1>1, FoundFinite
  <2> QED
    BY <2>1 DEF At
<1>6. NewestFirst(u)
  BY DEF IsMerge
<1> HIDE DEF u
<1>7. u \in Seq(Record) /\ Len(u) = Len(s)
  BY <1>1, <1>3, <1>4
<1>8. /\ NewestFirst(page)
      /\ \A k \in DOMAIN u : IsIn(u[k], page) \/ PassedOver(u[k], page)
  BY <1>3, <1>4, <1>6, <1>7, TopIsNewest
<1>9. /\ page \in Seq(Record) /\ Len(page) = Least(Size, Len(u))
      /\ Len(page) \in Nat /\ DOMAIN page = 1..Len(page)
      /\ Len(page) <= Size /\ Len(page) <= Len(u)
      /\ \A k \in DOMAIN page : k \in DOMAIN u /\ page[k] = u[k]
  BY <1>7, TopOf
<1> HIDE DEF page
<1>10. \A m \in DOMAIN page :
         Older(page[m]) /\ \E i \in Good : page[m] \in Stored(Targets[i])
  BY <1>3, <1>4, <1>9
\* A page that is full has at least Size places in the merge.
<1>11. ASSUME NEW i \in Good, NEW n \in Nat, Len(results[i].page) = Size,
              \A k \in 1..Size : \A j \in DOMAIN s : s[j] = <<i, k>> => j <= n
       PROVE  Size <= n
  <2> DEFINE g == [k \in 1..Size |-> <<i, k>>]
  <2>1. \A k, l \in 1..Size : g[k] = g[l] => k = l
    OBVIOUS
  <2>2. \A k \in 1..Size : \E j \in 1..n : s[j] = g[k]
    <3> TAKE k \in 1..Size
    <3>1. PICK j \in DOMAIN s : s[j] = <<i, k>>
      BY <1>5, <1>11, GoodPages
    <3>2. j \in 1..n
      BY <1>1, <1>11, <3>1
    <3> QED
      BY <3>1, <3>2
  <2> HIDE DEF g
  <2> QED
    <3>1. Size \in Nat
      BY SizeAssumption
    <3>2. HasPlaces(s, n, Size, g)
      BY <2>1, <2>2 DEF HasPlaces
    <3> QED
      BY <3>1, <3>2, PlacesFor
<1>12. ASSUME NEW i \in Good, Len(results[i].page) = Size
       PROVE  Size <= Len(s) /\ Len(page) = Size
  <2>1. Size <= Len(s)
    BY <1>1, <1>11, <1>12
  <2> QED
    <3>1. Len(page) = IF Size < Len(s) THEN Size ELSE Len(s)
      BY <1>7, <1>9 DEF Least
    <3>2. Len(s) \in Nat /\ Size \in Nat
      BY <1>1, SizeAssumption
    <3> QED
      BY <2>1, <3>1, <3>2
\* What is behind a full page is behind the merged one.
<1>13. ASSUME NEW i \in Good, NEW r, Time(r) \in Int,
              PassedOver(r, results[i].page)
       PROVE  PassedOver(r, page)
  <2>1. Len(results[i].page) = Size
    BY <1>13 DEF PassedOver
  <2>2. ASSUME NEW m \in DOMAIN page, ~(Time(page[m]) >= Time(r))
        PROVE  FALSE
    <3>1. /\ m \in DOMAIN s /\ page[m] = u[m] /\ Time(u[m]) \in Int
          /\ m \in Nat /\ m - 1 \in Nat /\ m <= Size
      BY <1>3, <1>4, <1>9, <2>2, SizeAssumption
    <3>2. ASSUME NEW k \in 1..Size, NEW j \in DOMAIN s, s[j] = <<i, k>>
          PROVE  j <= m - 1
      <4>1. k \in DOMAIN results[i].page
        BY <2>1, GoodPages
      <4>2. u[j] = results[i].page[k]
        BY <3>2 DEF u, At
      <4>3. Time(u[j]) >= Time(r) /\ Time(u[j]) \in Int
        BY <1>3, <1>13, <4>1, <4>2 DEF PassedOver
      <4>4. m < j => Time(u[m]) >= Time(u[j])
        BY <1>4, <1>6, <3>1 DEF NewestFirst
      <4>5. Time(u[m]) < Time(r)
        BY <1>13, <2>2, <3>1
      <4>6. ~(m < j) /\ m # j
        BY <1>13, <3>1, <4>3, <4>4, <4>5
      <4>7. j \in Nat
        BY <1>1
      <4> QED
        BY <3>1, <4>6, <4>7
    <3>3. Size <= m - 1
      BY <1>11, <2>1, <3>1, <3>2
    <3> QED
      BY <3>1, <3>3, SizeAssumption
  <2> QED
    BY <1>12, <2>1, <2>2 DEF PassedOver
<1>14. ASSUME NEW i \in Good, NEW r, IsIn(r, results[i].page)
       PROVE  \E j \in DOMAIN u : u[j] = r
  BY <1>4, <1>5, <1>14 DEF IsIn
<1>15. ASSUME AllWhole, NEW r \in About(Entry(page)), Older(r)
       PROVE  IsIn(r, page) \/ PassedOver(r, page)
  <2>1. PICK i \in Good :
          Time(r) \in Int /\ (IsIn(r, results[i].page) \/ PassedOver(r, results[i].page))
    BY <1>15, AboutPage
  <2> QED
    BY <1>8, <1>13, <1>14, <2>1

<1>16. ASSUME AllWhole, NEW r \in About(Entry(page)), Older(r), ~(Len(s) > Size)
       PROVE  IsIn(r, page) \/ (Cardinality(PlansOf) > 1 /\ Len(page) = Size)
  <2>1. PICK i \in Good :
          \A j \in Good : Targets[j] = Targets[i] /\ results[j].plan = results[i].plan
            => IsIn(r, results[j].page) \/ PassedOver(r, results[j].page)
    BY <1>16, AboutPage
  <2>2. ASSUME NEW j \in Good, IsIn(r, results[j].page)
        PROVE  IsIn(r, page)
    <3>1. PICK k \in DOMAIN u : u[k] = r
      BY <1>14, <2>2
    <3>2. Len(page) = Len(s)
      BY <1>1, <1>7, <1>9, <1>16, SizeAssumption DEF Least
    <3>3. k \in DOMAIN page
      BY <1>1, <1>4, <1>9, <3>2
    <3> QED
      BY <1>9, <3>1, <3>3 DEF IsIn
  <2>3. ASSUME ~IsIn(r, page), ~(Cardinality(PlansOf) > 1)
        PROVE  FALSE
    <3>1. \A j \in Good : Len(results[j].page) = Size
      BY <2>1, <2>2, <2>3, SamePlan DEF PassedOver
    <3>2. Good # {i}
      BY FS_Singleton
    <3>3. PICK j \in Good : j # i
      BY <3>2
    <3> DEFINE g == [k \in 1..(Size + 1) |->
                       IF k = Size + 1 THEN <<j, 1>> ELSE <<i, k>>]
    <3>4. \A k, l \in 1..(Size + 1) : g[k] = g[l] => k = l
      BY <3>3, SizeAssumption
    <3>5. \A k \in 1..(Size + 1) : \E m \in 1..Len(s) : s[m] = g[k]
      <4> TAKE k \in 1..(Size + 1)
      <4>1. CASE k = Size + 1
        <5>1. 1 \in DOMAIN results[j].page
          BY <3>1, GoodPages, SizeAssumption
        <5> QED
          <6>1. PICK m \in DOMAIN s : s[m] = <<j, 1>>
            BY <1>5, <5>1
          <6> QED
            BY <1>1, <4>1, <6>1
      <4>2. CASE k # Size + 1
        <5>1. k \in 1..Size
          BY <4>2, SizeAssumption
        <5>2. k \in DOMAIN results[i].page
          BY <3>1, <5>1, GoodPages
        <5> QED
          BY <1>1, <1>5, <4>2, <5>2
      <4> QED
        BY <4>1, <4>2
    <3> HIDE DEF g
    <3>6. Size + 1 <= Len(s)
      <4>1. Size + 1 \in Nat
        BY SizeAssumption
      <4>2. HasPlaces(s, Len(s), Size + 1, g)
        BY <3>4, <3>5 DEF HasPlaces
      <4> QED
        BY <1>1, <4>1, <4>2, PlacesFor
    <3> QED
      BY <1>1, <1>16, <3>6, SizeAssumption
  <2>4. ASSUME ~IsIn(r, page)
        PROVE  Len(page) = Size
    <3>1. PassedOver(r, results[i].page)
      BY <2>1, <2>2, <2>4
    <3> QED
      BY <1>12, <3>1 DEF PassedOver
  <2> QED
    BY <2>3, <2>4
<1>17. ~(\E i : Good = {i})
  BY FS_Singleton
<1>18. AnswerOK(page, Len(s) > Size, None)
  <2>1. (Len(s) > Size) \in BOOLEAN
    BY <1>1, SizeAssumption
  <2> QED
    BY <1>8, <1>9, <1>10, <1>15, <1>16, <1>17, <2>1 DEF AnswerOK
<1> QED
  BY <1>18 DEF page, u

\* The client goes on with the cursor of its walk.
LEMMA Walking ==
  ASSUME TypeOK, IInv, phase = "asking", ~Single(param), cursor # None,
         results = <<>> \/ Good # {}
  PROVE  /\ Targets = <<cursor.cluster>> /\ Passed = cursor /\ Good = {1}
         /\ cursor.cluster \in Clusters /\ cursor.after \in Int
         /\ reply.next = cursor
<1>1. Targets = <<cursor.cluster>> /\ Passed = cursor /\ DOMAIN Targets = {1}
  BY DEF Targets, Passed
<1>2. DOMAIN results = {1} /\ reply.next = cursor
  BY <1>1 DEF IInv, RequestOK
<1>3. Good \subseteq {1} /\ Good # {}
  BY <1>2 DEF Good
<1>4. cursor \in Cursors
  BY DEF TypeOK
<1>5. cursor.cluster \in Clusters /\ cursor.after \in Int
  BY <1>4 DEF Cursors
<1> QED
  BY <1>1, <1>2, <1>3, <1>5

\* The client gets an answer.
LEMMA AnswerKeeps ==
  ASSUME TypeOK, IInv, phase = "asking", results = <<>> \/ Good # {},
         phase' = "idle", results' = <<>>, UNCHANGED <<now, store, asked>>,
         NEW page, NEW more, NEW next,
         AnswerOK(page, more, next), Received(page, more, next)
  PROVE  TypeOK' /\ IInv'
<1> DEFINE entry == Entry(page)
           E == [page : Seq(Record), whole : BOOLEAN,
                 plans : SUBSET [cluster : Clusters, plan : Plans]]
           n == Len(log)
<1>1. /\ UNCHANGED <<now, store, known, range, param, cursor>>
      /\ reply' = [status |-> "ok", more |-> more, next |-> next]
      /\ log' = Append(log, entry)
  BY DEF Received, asked, Entry, PlansOf, AllWhole
<1>2. /\ page \in Seq(Record) /\ DOMAIN page = 1..Len(page) /\ Len(page) \in Nat
      /\ \A m \in DOMAIN page : page[m] \in Record
  BY LenProperties DEF AnswerOK
<1>3. entry \in E /\ entry.page = page /\ entry.whole = AllWhole /\ entry.plans = PlansOf
  <2>1. AllWhole \in BOOLEAN
    BY DEF AllWhole
  <2>2. \A i \in Good : [cluster |-> Targets[i], plan |-> results[i].plan]
                          \in [cluster : Clusters, plan : Plans]
    BY GoodPages
  <2>3. PlansOf \subseteq [cluster : Clusters, plan : Plans]
    BY <2>2 DEF PlansOf
  <2> QED
    BY <1>2, <2>1, <2>3 DEF Entry
<1>4. log \in Seq(E)
  BY DEF TypeOK
<1> HIDE DEF entry, E
<1>5. /\ DOMAIN log = 1..n /\ n \in Nat /\ DOMAIN log' = 1..(n + 1) /\ Len(log') = n + 1
      /\ \A k \in DOMAIN log : log'[k] = log[k] /\ k \in DOMAIN log'
      /\ log'[n + 1] = entry /\ n + 1 \in DOMAIN log' /\ log' \in Seq(E)
      /\ log' # <<>>
  BY <1>1, <1>3, <1>4, AppendProperties, LenProperties
<1> HIDE DEF n
<1>6. \A k \in DOMAIN log' : k \in DOMAIN log \/ k = n + 1
  BY <1>5
<1>7. Last(log') = entry
  BY <1>5 DEF Last
<1>8. TypeOK'
  BY <1>1, <1>5 DEF TypeOK, AnswerOK, E
<1>9. RequestOK'
  BY <1>1, <1>5 DEF IInv, RequestOK
<1>10. ResultsOK'
  BY DEF ResultsOK
<1>11. /\ \A r : Time(r)' = Time(r) /\ Older(r)' = Older(r)
       /\ \A c : Stored(c)' = Stored(c)
       /\ \A e : About(e)' = About(e)
       /\ Passed' = Passed
  BY <1>1 DEF Time, Older, Stored, About, Passed, Single, Within
<1>12. \A m \in DOMAIN page :
         /\ Older(page[m]) /\ page[m] \in Stored(page[m][1])
         /\ Time(page[m]) \in Int /\ page[m][1] \in Clusters
         /\ \E i \in Good : page[m][1] = Targets[i]
  <2> TAKE m \in DOMAIN page
  <2>1. PICK i \in Good : page[m] \in Stored(Targets[i])
    BY DEF AnswerOK
  <2>2. Targets[i] \in Clusters
    BY GoodPages
  <2> QED
    BY <2>1, <2>2, StoredRecords DEF AnswerOK
<1>13. LogOK'
  <2>1. LogOK
    BY DEF IInv
  <2> QED
    BY <1>3, <1>5, <1>6, <1>11, <1>12, <2>1 DEF LogOK
<1>14. ASSUME AllWhole, NEW r \in About(entry), Older(r)
       PROVE  /\ r \in Record /\ Time(r) \in Int
              /\ IsIn(r, page) \/ PassedOver(r, page)
              /\ ~more => IsIn(r, page) \/ (Cardinality(PlansOf) > 1 /\ Len(page) = Size)
  BY <1>14, AboutPage DEF AnswerOK, entry
<1>15. PageIsNewest'
  <2> SUFFICES ASSUME AllWhole, cursor = None
               PROVE  /\ NewestFirst(page)'
                      /\ \A r \in About(entry) : IsIn(r, page) \/ PassedOver(r, page)'
    BY <1>1, <1>3, <1>7, <1>11 DEF PageIsNewest, Answered, PassedOver, IsIn
  <2>1. NewestFirst(page)'
    BY <1>11 DEF AnswerOK, NewestFirst
  <2>2. \A r : Older(r)
    BY DEF Older, Passed
  <2> QED
    BY <1>11, <1>14, <2>1, <2>2 DEF PassedOver
<1>16. MoreIsHonest'
  <2> SUFFICES ASSUME AllWhole, ~more,
                      ~(Cardinality(PlansOf) > 1 /\ Len(page) = Size),
                      NEW r \in About(entry), Older(r)
               PROVE  IsIn(r, page)
    BY <1>1, <1>3, <1>7, <1>11 DEF MoreIsHonest, Answered, IsIn
  <2> QED
    BY <1>14
\* The walk so far: what the client has is not older than the cursor.
<1>17. ASSUME ~Single(param), cursor # None
       PROVE  /\ Targets = <<cursor.cluster>> /\ Passed = cursor /\ Good = {1}
              /\ cursor.cluster \in Clusters /\ cursor.after \in Int
              /\ \A k \in DOMAIN log : \A m \in DOMAIN log[k].page :
                   /\ log[k].page[m][1] = cursor.cluster
                   /\ Time(log[k].page[m]) >= cursor.after
              /\ (\A k \in DOMAIN log : log[k].whole) =>
                   \A r \in Stored(cursor.cluster) :
                     Accounted(r) \/ Time(r) < cursor.after
              /\ Cardinality(PlansOf) = 1
              /\ \A r : r[1] = cursor.cluster => (Older(r) <=> Time(r) < cursor.after)
  <2>1. /\ Targets = <<cursor.cluster>> /\ Passed = cursor /\ Good = {1}
        /\ cursor.cluster \in Clusters /\ cursor.after \in Int
        /\ reply.next = cursor
    BY <1>17, Walking
  <2>2. Cardinality(PlansOf) = 1
    <3>1. PlansOf = {[cluster |-> Targets[1], plan |-> results[1].plan]}
      BY <2>1 DEF PlansOf
    <3> QED
      BY <3>1, FS_Singleton
  <2>3. \A r : r[1] = cursor.cluster => (Older(r) <=> Time(r) < cursor.after)
    BY <1>17, <2>1 DEF Older
  <2> QED
    BY <1>17, <2>1, <2>2, <2>3 DEF IInv, WalkOK
<1>18. ASSUME ~Single(param), cursor = None
       PROVE  log = <<>> /\ \A r : Older(r)
  BY <1>18 DEF IInv, RequestOK, Older, Passed
<1>19. NoRepeat'
  <2> SUFFICES ASSUME ~Single(param), NEW k \in DOMAIN log', NEW l \in DOMAIN log',
                      k < l, NEW m \in DOMAIN log'[k].page,
                      IsIn(log'[k].page[m], log'[l].page)
               PROVE  FALSE
    BY <1>1 DEF NoRepeat, Single, IsIn
  <2>1. k \in DOMAIN log
    BY <1>5, <1>6
  <2>2. CASE l \in DOMAIN log
    BY <1>5, <2>1, <2>2 DEF IInv, NoRepeat
  <2>3. CASE l = n + 1
    <3>1. PICK j \in DOMAIN page : page[j] = log[k].page[m]
      BY <1>3, <1>5, <2>1, <2>3 DEF IsIn
    <3>2. cursor # None
      BY <1>5, <1>18, <2>1
    <3>3. /\ page[j][1] = cursor.cluster /\ Time(page[j]) >= cursor.after
          /\ cursor.after \in Int
      BY <1>5, <1>17, <2>1, <3>1, <3>2
    <3>4. Time(page[j]) < cursor.after /\ Time(page[j]) \in Int
      BY <1>12, <1>17, <3>2, <3>3
    <3> QED
      BY <3>3, <3>4
  <2> QED
    BY <1>6, <2>2, <2>3
\* What was accounted for stays so; what this answer is not about is, too.
<1>20. ASSUME NEW r
       PROVE  /\ Accounted(r) => Accounted(r)'
              /\ r \notin About(entry) => Accounted(r)'
              /\ IsIn(r, page) => Accounted(r)'
              /\ page # <<>> /\ Time(Last(page)) = Time(r) => Accounted(r)'
  <2>1. InLog(r) => InLog(r)'
    BY <1>5 DEF InLog, IsIn
  <2>2. IsIn(r, page) => InLog(r)'
    BY <1>3, <1>5 DEF InLog, IsIn
  <2>3. (\E k \in DOMAIN log : r \notin About(log[k])) => Accounted(r)'
    BY <1>5, <1>11 DEF Accounted
  <2>4. ASSUME NEW k \in DOMAIN log, log[k].page # <<>>,
               Time(Last(log[k].page)) = Time(r)
        PROVE  Accounted(r)'
    <3>1. k \in DOMAIN log' /\ log'[k] = log[k]
      BY <1>5
    <3>2. Last(log'[k].page) = Last(log[k].page)
      BY <3>1
    <3>3. Time(Last(log[k].page))' = Time(r)'
      BY <1>11, <2>4, <3>2
    <3> QED
      BY <2>4, <3>1, <3>3 DEF Accounted
  <2>5. r \notin About(entry) => Accounted(r)'
    BY <1>5, <1>11 DEF Accounted
  <2>6. page # <<>> /\ Time(Last(page)) = Time(r) => Accounted(r)'
    BY <1>3, <1>5, <1>11 DEF Accounted
  <2> QED
    BY <2>1, <2>2, <2>3, <2>4, <2>5, <2>6 DEF Accounted
<1>21. WalkIsComplete'
  <2> SUFFICES ASSUME next = None, ~Single(param), cursor # None,
                      AllWhole, \A k \in DOMAIN log : log[k].whole,
                      NEW r \in Stored(cursor.cluster)
               PROVE  Accounted(r)'
    BY <1>1, <1>3, <1>5, <1>11 DEF WalkIsComplete, Single
  <2>1. ~more
    BY <1>17 DEF AnswerOK
  <2>2. r[1] = cursor.cluster
    BY <1>17, StoredRecords
  <2>3. CASE Accounted(r) \/ r \notin About(entry)
    BY <1>20, <2>3
  <2>4. CASE Time(r) < cursor.after /\ r \in About(entry)
    <3>1. Older(r)
      BY <1>17, <2>2, <2>4
    <3>2. IsIn(r, page)
      BY <1>14, <1>17, <2>1, <2>4, <3>1
    <3> QED
      BY <1>20, <3>2
  <2> QED
    BY <1>17, <2>3, <2>4
<1>22. WalkOK'
  <2> SUFFICES ASSUME ~Single(param), next # None
               PROVE  /\ \A k \in DOMAIN log' : \A m \in DOMAIN log'[k].page :
                           /\ log'[k].page[m][1] = next.cluster
                           /\ Time(log'[k].page[m]) >= next.after
                      /\ (\A k \in DOMAIN log' : log'[k].whole) =>
                           \A r \in Stored(next.cluster) :
                             Accounted(r)' \/ Time(r) < next.after
    BY <1>1, <1>11 DEF WalkOK, Single
  <2> DEFINE last == Last(page)
  <2>1. /\ page # <<>> /\ next.cluster = last[1] /\ next.after = Time(last)
        /\ \E i : Good = {i}
    <3>1. page # <<>> /\ next = nextCursor(page) /\ \E i : Good = {i}
      BY DEF AnswerOK
    <3> QED
      BY <3>1 DEF nextCursor
  <2>2. Len(page) \in DOMAIN page /\ last = page[Len(page)]
    BY <1>2, <2>1, EmptySeq DEF Last
  <2>3. /\ Older(last) /\ Time(last) \in Int /\ last[1] \in Clusters
        /\ last \in Stored(last[1])
    BY <1>12, <2>2
  <2> HIDE DEF last
  <2>4. ASSUME NEW m \in DOMAIN page
        PROVE  page[m][1] = last[1] /\ Time(page[m]) >= Time(last)
    <3>1. page[m][1] = last[1]
      BY <1>12, <2>1, <2>2
    <3>2. m < Len(page) => Time(page[m]) >= Time(last)
      BY <2>2 DEF AnswerOK, NewestFirst
    <3>3. m = Len(page) => Time(page[m]) >= Time(last)
      BY <2>2, <2>3
    <3> QED
      BY <1>2, <3>1, <3>2, <3>3
  <2>5. ASSUME NEW k \in DOMAIN log, NEW m \in DOMAIN log[k].page
        PROVE  log[k].page[m][1] = last[1] /\ Time(log[k].page[m]) >= Time(last)
    <3>1. cursor # None
      BY <1>5, <1>18
    <3>2. last[1] = cursor.cluster
      BY <1>12, <1>17, <2>2, <3>1
    <3>3. Time(last) < cursor.after /\ cursor.after \in Int
      BY <1>17, <2>3, <3>1, <3>2
    <3>4. /\ log[k].page[m][1] = cursor.cluster
          /\ Time(log[k].page[m]) >= cursor.after
      BY <1>17, <3>1
    <3>5. Time(log[k].page[m]) \in Int
      <4>1. log[k].page[m] \in Stored(log[k].page[m][1])
        BY DEF IInv, LogOK
      <4>2. log[k].page[m][1] \in Clusters
        BY <2>3, <3>2, <3>4
      <4> QED
        BY <4>1, <4>2, StoredRecords
    <3> QED
      BY <2>3, <3>2, <3>3, <3>4, <3>5
  <2>6. ASSUME AllWhole, \A k \in DOMAIN log : log[k].whole, NEW r \in Stored(last[1])
        PROVE  Accounted(r)' \/ Time(r) < Time(last)
    <3>1. r[1] = last[1] /\ Time(r) \in Int
      BY <2>3, StoredRecords
    <3>2. CASE r \notin About(entry)
      BY <1>20, <3>2
    <3>3. CASE r \in About(entry) /\ Older(r)
      <4>1. IsIn(r, page) \/ PassedOver(r, page)
        BY <1>14, <2>6, <3>3
      <4>2. CASE IsIn(r, page)
        BY <1>20, <4>2
      <4>3. CASE PassedOver(r, page)
        <5>1. Time(last) >= Time(r)
          BY <2>2, <4>3 DEF PassedOver
        <5>2. Time(last) = Time(r) => Accounted(r)'
          BY <1>20, <2>1 DEF last
        <5> QED
          BY <2>3, <3>1, <5>1, <5>2
      <4> QED
        BY <4>1, <4>2, <4>3
    <3>4. CASE ~Older(r)
      <4>1. cursor # None
        BY <1>18, <3>4
      <4>2. last[1] = cursor.cluster
        BY <1>12, <1>17, <2>2, <4>1
      <4> QED
        BY <1>17, <1>20, <2>6, <3>1, <3>4, <4>1, <4>2
    <3> QED
      BY <3>2, <3>3, <3>4
  <2>7. \A k \in DOMAIN log' : \A m \in DOMAIN log'[k].page :
          /\ log'[k].page[m][1] = next.cluster
          /\ Time(log'[k].page[m]) >= next.after
    <3> TAKE k \in DOMAIN log'
    <3> TAKE m \in DOMAIN log'[k].page
    <3>1. CASE k \in DOMAIN log
      BY <1>5, <2>1, <2>5, <3>1
    <3>2. CASE k = n + 1
      BY <1>3, <1>5, <2>1, <2>4, <3>2
    <3> QED
      BY <1>6, <3>1, <3>2
  <2>8. ASSUME \A k \in DOMAIN log' : log'[k].whole
        PROVE  AllWhole /\ \A k \in DOMAIN log : log[k].whole
    BY <1>3, <1>5, <2>8
  <2> QED
    BY <2>1, <2>6, <2>7, <2>8
<1> QED
  BY <1>8, <1>9, <1>10, <1>13, <1>15, <1>16, <1>19, <1>21, <1>22 DEF IInv

\* No cluster has answered.
LEMMA ErrorKeeps ==
  ASSUME TypeOK, IInv, phase' = "idle", results' = <<>>,
         UNCHANGED <<now, store, asked, log>>,
         reply' = [status |-> "error", more |-> FALSE, next |-> None]
  PROVE  TypeOK' /\ IInv'
<1>1. /\ UNCHANGED <<now, store, known, range, param, cursor, log>>
      /\ reply' = [status |-> "error", more |-> FALSE, next |-> None]
  BY DEF asked
<1>2. TypeOK'
  <2>1. reply' \in [status : {"none", "ok", "error"}, more : BOOLEAN,
                    next : Cursors \cup {None}]
    BY <1>1
  <2>2. DOMAIN results' = {}
    OBVIOUS
  <2>3. UNCHANGED <<now, store, known, range, param, cursor, log>> /\ phase' = "idle"
    BY <1>1
  <2> QED
    BY <2>1, <2>2, <2>3 DEF TypeOK
<1>3. RequestOK'
  BY <1>1 DEF IInv, RequestOK
<1>4. LogOK' /\ NoRepeat'
  BY <1>1 DEF IInv, LogOK, NoRepeat, IsIn, Stored, Single
<1> QED
  BY <1>1, <1>2, <1>3, <1>4
     DEF IInv, ResultsOK, WalkOK, PageIsNewest, Answered, WalkIsComplete,
         MoreIsHonest

\* The answer is put together.
LEMMA RespondKeeps ==
  ASSUME TypeOK, IInv, Respond
  PROVE  TypeOK' /\ IInv'
<1>1. /\ phase = "asking" /\ phase' = "idle" /\ results' = <<>>
      /\ UNCHANGED <<now, store, asked>>
  BY DEF Respond
<1>2. CASE Good = {} /\ results # <<>>
  <2>1. reply' = [NoReply EXCEPT !.status = "error"] /\ UNCHANGED log
    BY <1>2 DEF Respond
  <2>2. reply' = [status |-> "error", more |-> FALSE, next |-> None]
    BY <2>1 DEF NoReply
  <2> QED
    BY <1>1, <2>1, <2>2, ErrorKeeps
<1>3. CASE results = <<>> \/ Good # {}
  <2>1. MergeResults
    BY <1>3 DEF Respond
  <2>2. CASE Good = {}
    <3>1. Received(<<>>, FALSE, None)
      BY <2>1, <2>2, FS_EmptySet DEF MergeResults, Received
    <3>2. AnswerOK(<<>>, FALSE, None)
      BY <2>2, EmptyAnswer
    <3> QED
      BY <1>1, <1>3, <3>1, <3>2, AnswerKeeps
  <2>3. CASE Good # {} /\ Cardinality(Good) = 1
    <3>1. PICK i : Good = {i}
      BY <1>1, <2>3, FoundFinite, FS_Singleton
    <3> DEFINE page == results[i].page
               next == IF HasMore(page) THEN nextCursor(page) ELSE None
    <3>2. (CHOOSE j \in Good : TRUE) = i
      BY <3>1
    <3>3. Received(page, HasMore(page), next)
      BY <2>1, <2>3, <3>2 DEF MergeResults
    <3>4. AnswerOK(page, HasMore(page), next)
      BY <1>1, <3>1, OneAnswer
    <3> HIDE DEF page, next
    <3> QED
      BY <1>1, <1>3, <3>3, <3>4, AnswerKeeps
  <2>4. CASE Good # {} /\ Cardinality(Good) # 1
    <3>1. PICK s \in SetToSeqs(Found) :
            /\ IsMerge(s)
            /\ Received(Top([k \in DOMAIN s |-> At(s[k])]), Len(s) > Size, None)
      BY <2>1, <2>4 DEF MergeResults
    <3>2. AnswerOK(Top([k \in DOMAIN s |-> At(s[k])]), Len(s) > Size, None)
      BY <1>1, <2>4, <3>1, ManyAnswer
    <3> QED
      BY <1>1, <1>3, <3>1, <3>2, AnswerKeeps
  <2> QED
    BY <2>2, <2>3, <2>4
<1> QED
  BY <1>2, <1>3

-----------------------------------------------------------------------------
(* The theorems.                                                           *)

\* Every step keeps the invariant.
LEMMA NextInv ==
  ASSUME TypeOK, IInv, [Next]_vars
  PROVE  TypeOK' /\ IInv'
<1>1. CASE FirstRequest
  BY <1>1, AskKeeps DEF FirstRequest
<1>2. CASE NextRequest
  <2>1. reply.next \in Cursors
    BY <1>2 DEF NextRequest, TypeOK
  <2> QED
    BY <1>2, <2>1, AskKeeps DEF NextRequest
<1>3. CASE Respond
  BY <1>3, RespondKeeps
<1>4. CASE Tick
  BY <1>4, TickKeeps
<1>5. CASE Arrive
  BY <1>5, ArriveKeeps
<1>6. ASSUME NEW i \in DOMAIN results,
             GoroutineFails(i) \/ BuildPlan(i) \/ Search(i)
      PROVE  TypeOK' /\ IInv'
  BY <1>6, PlanKeeps, SearchKeeps
<1>7. CASE UNCHANGED vars
  <2>1. UNCHANGED <<now, store, known, range, param, cursor, phase, results,
                    reply, log>>
    BY <1>7 DEF vars
  <2>2. TypeOK'
    BY <2>1 DEF TypeOK
  <2> QED
    BY <2>1, <2>2, ClockAside
<1> QED
  BY <1>1, <1>2, <1>3, <1>4, <1>5, <1>6, <1>7 DEF Next, Stopped

\* What the goroutines of a request have brought and how far the client's walk
\* has come fit together at any time.
THEOREM RawQueryInvariant == Spec => [](TypeOK /\ IInv)
<1>1. Init => TypeOK /\ IInv
  BY InitInv
<1>2. TypeOK /\ IInv /\ [Next]_vars => (TypeOK /\ IInv)'
  BY NextInv
<1> QED
  BY <1>1, <1>2, PTL DEF Spec

\* The variables keep their types: ranges that are discovered are ranges.
THEOREM TypeCorrect == Spec => []TypeOK
BY RawQueryInvariant, PTL

\* A first page has the newest records of all the clusters that answered, in
\* order, for any number of clusters and any order in which they answer.
THEOREM AlwaysPageIsNewest == Spec => []PageIsNewest
<1>1. TypeOK /\ IInv => PageIsNewest
  BY DEF IInv
<1> QED
  BY <1>1, RawQueryInvariant, PTL

\* A page of a walk repeats no record of the pages before, whatever arrives.
THEOREM AlwaysNoRepeat == Spec => []NoRepeat
<1>1. TypeOK /\ IInv => NoRepeat
  BY DEF IInv
<1> QED
  BY <1>1, RawQueryInvariant, PTL

\* A walk that has ended has brought all that was in range of all its pages,
\* the instants at the page breaks aside.
THEOREM AlwaysWalkIsComplete == Spec => []WalkIsComplete
<1>1. TypeOK /\ IInv => WalkIsComplete
  BY DEF IInv
<1> QED
  BY <1>1, RawQueryInvariant, PTL

\* has_more = false is the truth, but for a merged page of exactly Size.
THEOREM AlwaysMoreIsHonest == Spec => []MoreIsHonest
<1>1. TypeOK /\ IInv => MoreIsHonest
  BY DEF IInv
<1> QED
  BY <1>1, RawQueryInvariant, PTL
=============================================================================
