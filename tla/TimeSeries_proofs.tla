--------------------------- MODULE TimeSeries_proofs --------------------------
(***************************************************************************)
(* The arithmetic of the windows, the order of an answer's records, and    *)
(* with them the promises of both time series endpoints, for every range,  *)
(* interval, limit, set of documents and number of collectors.             *)
(***************************************************************************)
EXTENDS TimeSeriesQuery, FiniteSetTheorems, SequenceTheorems, TLAPS

-----------------------------------------------------------------------------
(* Division, buckets and windows.                                          *)

\* Division by a positive number, and what it leaves.
LEMMA Division ==
  ASSUME NEW t \in Int, NEW n \in Nat \ {0}
  PROVE  /\ t % n \in Int /\ 0 <= t % n /\ t % n < n
         /\ t \div n \in Int /\ t = n * (t \div n) + (t % n)
OBVIOUS

\* Division keeps the order.
LEMMA DivisionMonotone ==
  ASSUME NEW t \in Int, NEW u \in Int, NEW n \in Nat \ {0}, t <= u
  PROVE  t \div n <= u \div n
BY Division

\* The bucket of a time: the last multiple of the interval not after it.
LEMMA BucketOf ==
  ASSUME NEW t \in Int, NEW n \in Nat \ {0}
  PROVE  /\ Bucket(t, n) \in Int /\ Bucket(t, n) = n * (t \div n)
         /\ Bucket(t, n) <= t /\ t < Bucket(t, n) + n
BY Division DEF Bucket

\* A later time has no earlier bucket.
LEMMA BucketMonotone ==
  ASSUME NEW t \in Int, NEW u \in Int, NEW n \in Nat \ {0}, t <= u
  PROVE  Bucket(t, n) <= Bucket(u, n)
<1>1. t \div n <= u \div n /\ t \div n \in Int /\ u \div n \in Int
  BY DivisionMonotone, Division
<1>2. n * (t \div n) <= n * (u \div n)
  BY <1>1
<1> QED
  BY <1>2, BucketOf

\* A multiple of the interval is its own bucket, and the first time of it.
LEMMA BucketOfEdge ==
  ASSUME NEW q \in Int, NEW t \in Int, NEW n \in Nat \ {0}
  PROVE  /\ Bucket(n * q, n) = n * q
         /\ t < n * q => Bucket(t, n) < n * q
         /\ n * q <= t => n * q <= Bucket(t, n)
<1>1. (n * q) % n = 0
  OBVIOUS
<1>2. Bucket(n * q, n) = n * q
  BY <1>1 DEF Bucket
<1>3. Bucket(t, n) \in Int /\ Bucket(t, n) <= t /\ n * q \in Int
  BY BucketOf
<1>4. n * q <= t => n * q <= Bucket(t, n)
  BY <1>2, <1>3, BucketMonotone
<1> QED
  BY <1>2, <1>3, <1>4

\* Between two multiples of the interval that are m intervals apart there
\* are at most m buckets.
LEMMA BucketsBetween ==
  ASSUME NEW q \in Int, NEW m \in Nat, NEW n \in Nat \ {0}, NEW B,
         \A x \in B : \E p \in Int : x = n * p /\ q <= p /\ p < q + m
  PROVE  IsFiniteSet(B) /\ Cardinality(B) \in Nat /\ Cardinality(B) <= m
<1> DEFINE f == [x \in B |-> (x \div n) - q]
<1>1. \A p \in Int : (n * p) \div n = p
  OBVIOUS
<1>2. \A x \in B : \E p \in Int : x = n * p /\ f[x] = p - q
                                  /\ f[x] \in 0..(m - 1)
  <2> TAKE x \in B
  <2>1. PICK p \in Int : x = n * p /\ q <= p /\ p < q + m
    OBVIOUS
  <2>2. x \div n = p
    BY <1>1, <2>1
  <2>3. f[x] = p - q
    BY <2>2
  <2> QED
    BY <2>1, <2>3
<1>3. f \in [B -> 0..(m - 1)]
  BY <1>2
<1>4. ASSUME NEW x \in B, NEW y \in B, f[x] = f[y]
      PROVE  x = y
  <2> HIDE DEF f
  <2>1. PICK p \in Int : x = n * p /\ f[x] = p - q
    BY <1>2
  <2>2. PICK r \in Int : y = n * r /\ f[y] = r - q
    BY <1>2
  <2> QED
    BY <1>4, <2>1, <2>2
<1>5. f \in Injection(B, 0..(m - 1))
  BY <1>3, <1>4 DEF Injection, IsInjective
<1> HIDE DEF f
<1>6. IsFiniteSet(0..(m - 1)) /\ Cardinality(0..(m - 1)) = m
  BY FS_Interval
<1>7. IsFiniteSet(B) /\ Cardinality(B) <= m
  BY <1>5, <1>6, FS_Injection
<1> QED
  BY <1>7, FS_CardinalityType

\* The number of the bucket at which window i of a plan begins.
Grid(from, n, b, i) == (from \div n) + (i - 1) * b

\* The windows of a plan: how many there are and where each begins and ends.
IsPlan(w, count, from, to, n, b) ==
  /\ count \in Nat \ {0} /\ DOMAIN w = 1..count
  /\ Origin(from, n) = n * (from \div n) /\ Origin(from, n) <= from
  /\ to < n * Grid(from, n, b, count + 1)
  /\ \A i \in 1..count :
       /\ Grid(from, n, b, i) \in Int
       /\ Grid(from, n, b, i + 1) = Grid(from, n, b, i) + b
       /\ n * Grid(from, n, b, i) <= to
       /\ w[i] = [from |-> IF i = 1 THEN from ELSE n * Grid(from, n, b, i),
                  to |-> IF i = count THEN to
                                      ELSE n * Grid(from, n, b, i + 1),
                  inclusive |-> i = count]

\* planTimeWindows makes such windows of every range that does not end
\* before it starts.
LEMMA PlannedWindows ==
  ASSUME NEW from \in Int, NEW to \in Int, NEW n \in Nat \ {0},
         NEW b \in Nat \ {0}, from <= to
  PROVE  IsPlan(planTimeWindows(from, to, n, b), windowCount(from, to, n, b),
                from, to, n, b)
<1> DEFINE w == planTimeWindows(from, to, n, b)
           count == windowCount(from, to, n, b)
           d == from \div n
           q(i) == Grid(from, n, b, i)
           span == n * b
           origin == Origin(from, n)
<1>1. d \in Int /\ from = n * d + (from % n) /\ 0 <= from % n
  BY Division
<1>2. origin = n * d /\ origin \in Int /\ origin <= from
  BY <1>1 DEF Origin
<1>3. span \in Nat \ {0}
  OBVIOUS
<1> DEFINE k == (to - origin) \div span
<1>4. /\ k \in Int /\ span * k <= to - origin
      /\ to - origin < span * k + span
  <2> HIDE DEF span, origin
  <2> DEFINE e == to - origin
  <2>1. e \in Int
    BY <1>2
  <2> HIDE DEF e
  <2>2. /\ e % span \in Int /\ 0 <= e % span /\ e % span < span
        /\ e \div span \in Int /\ e = span * (e \div span) + (e % span)
    BY <1>3, <2>1, Division
  <2>3. span * (e \div span) \in Int
    BY <1>3, <2>2
  <2>4. e \div span \in Int /\ span * (e \div span) <= e
        /\ e < span * (e \div span) + span
    BY <1>3, <2>1, <2>2, <2>3
  <2> QED
    BY <2>4 DEF e
<1>5. k >= 0
  <2> HIDE DEF k, span, origin
  <2>1. to - origin >= 0 /\ to - origin \in Int
    BY <1>2
  <2>2. ASSUME k < 0 PROVE FALSE
    <3>1. span * (k + 1) <= 0
      BY <1>3, <1>4, <2>2
    <3>2. span * k + span <= 0
      BY <1>3, <1>4, <3>1
    <3> QED
      BY <1>3, <1>4, <2>1, <3>2
  <2> QED
    BY <1>4, <2>2
<1>6. count = k + 1
  BY DEF windowCount
<1>7. count \in Nat \ {0}
  BY <1>4, <1>5, <1>6
<1>8. to < n * q(count + 1)
  <2>1. n * q(count + 1) = n * d + (span * k + span)
    <3> HIDE DEF k, d
    <3>1. (k + 1) * b \in Int /\ n * (d + (k + 1) * b) = n * d + n * ((k + 1) * b)
      BY <1>1, <1>4
    <3>2. n * ((k + 1) * b) = span * k + span
      BY <1>4
    <3>3. q(count + 1) = d + (k + 1) * b
      BY <1>4, <1>6 DEF Grid, d
    <3> QED
      BY <3>1, <3>2, <3>3
  <2> HIDE DEF k, d, span, origin
  <2> QED
    BY <2>1, <1>1, <1>2, <1>3, <1>4
<1>9. ASSUME NEW i \in 1..count
      PROVE  /\ q(i) \in Int /\ q(i + 1) = q(i) + b /\ n * q(i) <= to
             /\ n * q(i) = origin + (i - 1) * span
             /\ n * q(i + 1) = origin + i * span
  <2> HIDE DEF k, d
  <2>1. i \in Int /\ i - 1 \in Nat /\ i - 1 <= k
    BY <1>4, <1>6
  <2>2. (i - 1) * b \in Int /\ i * b \in Int /\ i * b = (i - 1) * b + b
    BY <2>1
  <2>3. n * ((i - 1) * b) = (i - 1) * span /\ n * (i * b) = i * span
    BY <2>1
  <2>4. q(i) \in Int /\ q(i + 1) = d + i * b /\ q(i + 1) = q(i) + b
    BY <1>1, <2>1, <2>2 DEF Grid, d
  <2>5. n * (d + (i - 1) * b) = n * d + n * ((i - 1) * b)
        /\ n * (d + i * b) = n * d + n * (i * b)
    BY <1>1, <2>2
  <2>6. (i - 1) * span <= span * k
    <3> HIDE DEF span
    <3> QED
      BY <1>3, <1>4, <2>1
  <2>7. n * q(i) = origin + (i - 1) * span
    BY <1>2, <2>3, <2>5 DEF Grid, d
  <2>8. n * q(i) <= to
    <3>1. (i - 1) * span \in Int /\ span * k \in Int
      BY <1>3, <1>4, <2>1
    <3> HIDE DEF span, q, origin
    <3> QED
      BY <1>2, <1>4, <2>6, <2>7, <3>1
  <2>9. n * q(i + 1) = origin + i * span
    BY <1>2, <2>3, <2>4, <2>5
  <2> QED
    BY <2>4, <2>7, <2>8, <2>9
<1>10. DOMAIN w = 1..count
  BY DEF planTimeWindows
<1>11. ASSUME NEW i \in 1..count
       PROVE  w[i] = [from |-> IF i = 1 THEN from ELSE n * q(i),
                      to |-> IF i = count THEN to ELSE n * q(i + 1),
                      inclusive |-> i = count]
  <2>1. w[i] = [from |-> IF i = 1 THEN from
                         ELSE IF i - 1 = count THEN to
                              ELSE origin + (i - 1) * span,
                to |-> IF i = count THEN to ELSE origin + i * span,
                inclusive |-> i = count]
    BY DEF planTimeWindows
  <2>2. i - 1 # count
    BY <1>7
  <2> HIDE DEF w, q, origin, span, count
  <2> QED
    BY <1>9, <2>1, <2>2
<1> HIDE DEF k, span, w, count
<1> QED
  BY <1>2, <1>7, <1>8, <1>9, <1>10, <1>11 DEF IsPlan, w, count

\* A time is in a window if it is in the range and between the window's
\* edges, which are multiples of the interval: the edge an exclusive end
\* leaves out is the first time of the next window.
Spans(w, i, from, to, n, b) ==
  /\ Grid(from, n, b, i) \in Int
  /\ Grid(from, n, b, i + 1) = Grid(from, n, b, i) + b
  /\ w.from \in Int /\ w.to \in Int /\ w.inclusive \in BOOLEAN
  /\ Bucket(w.from, n) = n * Grid(from, n, b, i)
  /\ \A t \in Int :
       /\ InWindow(t, w) <=> /\ from <= t /\ t <= to
                             /\ n * Grid(from, n, b, i) <= t
                             /\ t < n * Grid(from, n, b, i + 1)
       /\ InWindow(t, w) <=>
            t \in w.from..(IF w.inclusive THEN w.to ELSE w.to - 1)

\* So each window of a plan spans its part of the grid.
LEMMA WindowSpan ==
  ASSUME NEW from \in Int, NEW to \in Int, NEW n \in Nat \ {0},
         NEW b \in Nat \ {0}, from <= to,
         NEW i \in DOMAIN planTimeWindows(from, to, n, b)
  PROVE  Spans(planTimeWindows(from, to, n, b)[i], i, from, to, n, b)
<1> DEFINE w == planTimeWindows(from, to, n, b)
           count == windowCount(from, to, n, b)
           q(j) == Grid(from, n, b, j)
<1> HIDE DEF w, count
<1>0. IsPlan(w, count, from, to, n, b)
  BY PlannedWindows DEF w, count
<1>1. /\ count \in Nat \ {0}
      /\ Origin(from, n) = n * (from \div n) /\ Origin(from, n) <= from
      /\ to < n * q(count + 1)
      /\ i \in 1..count /\ q(i) \in Int /\ q(i + 1) = q(i) + b
      /\ n * q(i) <= to
      /\ w[i] = [from |-> IF i = 1 THEN from ELSE n * q(i),
                 to |-> IF i = count THEN to ELSE n * q(i + 1),
                 inclusive |-> i = count]
  <2>1. i \in 1..count
    BY <1>0 DEF IsPlan, w
  <2> QED
    BY <1>0, <2>1 DEF IsPlan
<1>2. q(1) = from \div n /\ from \div n \in Int
  BY Division DEF Grid
<1> HIDE DEF q
<1>3. /\ q(i) \in Int /\ q(i + 1) = q(i) + b /\ q(i + 1) \in Int
      /\ n * q(i) \in Int /\ n * q(i + 1) \in Int /\ n * q(i) <= to
      /\ n * q(i) < n * q(i + 1)
  BY <1>1
<1>4. /\ w[i].from = IF i = 1 THEN from ELSE n * q(i)
      /\ w[i].to = IF i = count THEN to ELSE n * q(i + 1)
      /\ w[i].inclusive = IF i = count THEN TRUE ELSE FALSE
  <2>1. w[i].inclusive = (i = count)
    BY <1>1
  <2>2. w[i].inclusive = IF i = count THEN TRUE ELSE FALSE
    BY <2>1, Zenon
  <2>3. /\ w[i].from = IF i = 1 THEN from ELSE n * q(i)
        /\ w[i].to = IF i = count THEN to ELSE n * q(i + 1)
    BY <1>1
  <2> QED
    BY <2>2, <2>3, Zenon
<1>5. w[i].from \in Int /\ w[i].to \in Int /\ w[i].inclusive \in BOOLEAN
  BY <1>3, <1>4
<1>6. i = 1 => n * q(i) <= from
  BY <1>1, <1>2
<1>7. Bucket(w[i].from, n) = n * q(i)
  <2>1. CASE i = 1
    BY <1>2, <1>4, <2>1, BucketOf
  <2>2. CASE i # 1
    BY <1>3, <1>4, <2>2, BucketOfEdge
  <2> QED
    BY <2>1, <2>2
\* The edges of the windows before and after.
<1>8. i # 1 => from <= n * q(i)
  <2>1. ASSUME i # 1 PROVE from < n * q(i)
    <3>1. from < n * (from \div n) + n
      BY BucketOf, <1>2
    <3>2. (i - 1) * b >= 1 /\ (i - 1) * b \in Int
      <4>1. i - 1 \in Nat \ {0}
        BY <1>1, <2>1
      <4>2. \A x, y \in Nat \ {0} : x * y >= 1 /\ x * y \in Int
        OBVIOUS
      <4> QED
        BY <4>1, <4>2
    <3>3. q(i) >= (from \div n) + 1
      BY <1>2, <3>2 DEF q, Grid
    <3>4. n * q(i) >= n * ((from \div n) + 1)
      BY <1>2, <1>3, <3>3
    <3>5. n * ((from \div n) + 1) = n * (from \div n) + n
      BY <1>2
    <3> QED
      BY <1>2, <1>3, <3>1, <3>4, <3>5
  <2> QED
    BY <1>3, <2>1
<1>9. i # count => n * q(i + 1) <= to
  <2>1. i # count => i + 1 \in 1..count
    BY <1>1
  <2> QED
    BY <1>0, <2>1 DEF IsPlan, q
<1>10. i = count => to < n * q(i + 1)
  BY <1>1
<1>11. ASSUME NEW t \in Int
       PROVE  InWindow(t, w[i]) <=> /\ from <= t /\ t <= to
                                    /\ n * q(i) <= t /\ t < n * q(i + 1)
  <2> DEFINE l == n * q(i)
             h == n * q(i + 1)
  <2>1. l \in Int /\ h \in Int /\ l <= to /\ l < h
        /\ (i = 1 => l <= from) /\ (i # 1 => from <= l)
        /\ (i # count => h <= to) /\ (i = count => to < h)
        /\ w[i].from = (IF i = 1 THEN from ELSE l)
        /\ w[i].to = (IF i = count THEN to ELSE h)
    BY <1>3, <1>4, <1>6, <1>8, <1>9, <1>10
  <2> HIDE DEF l, h
  <2>2. InWindow(t, w[i]) <=> from <= t /\ t <= to /\ l <= t /\ t < h
    <3>1. CASE i = count
      <4>1. w[i].inclusive = TRUE /\ w[i].to = to
        BY <1>4, <3>1
      <4> QED
        BY <2>1, <3>1, <4>1 DEF InWindow
    <3>2. CASE i # count
      <4>1. w[i].inclusive = FALSE /\ w[i].to = h
        BY <1>4, <2>1, <3>2
      <4> QED
        BY <2>1, <3>2, <4>1 DEF InWindow
    <3> QED
      BY <3>1, <3>2
  <2> QED
    BY <2>2 DEF l, h
<1>12. ASSUME NEW t \in Int
       PROVE  InWindow(t, w[i]) <=>
                t \in w[i].from..(IF w[i].inclusive THEN w[i].to
                                                    ELSE w[i].to - 1)
  BY <1>5 DEF InWindow
<1> QED
  BY <1>3, <1>5, <1>7, <1>11, <1>12 DEF q, Spans, w

\* Every time of the range is in a window.
LEMMA WindowsCover ==
  ASSUME NEW from \in Int, NEW to \in Int, NEW n \in Nat \ {0},
         NEW b \in Nat \ {0}, NEW t \in from..to
  PROVE  \E i \in DOMAIN planTimeWindows(from, to, n, b) :
           InWindow(t, planTimeWindows(from, to, n, b)[i])
<1> DEFINE w == planTimeWindows(from, to, n, b)
           d == from \div n
           q(i) == Grid(from, n, b, i)
           count == windowCount(from, to, n, b)
           p == t \div n
           k == (p - d) \div b
<1>1. from <= to /\ t \in Int /\ from <= t /\ t <= to
  OBVIOUS
<1>2. count \in Nat \ {0} /\ DOMAIN w = 1..count /\ to < n * q(count + 1)
  <2>1. IsPlan(w, count, from, to, n, b)
    BY <1>1, PlannedWindows
  <2> QED
    BY <2>1 DEF IsPlan
<1>3. d \in Int /\ p \in Int /\ d <= p /\ n * p <= t /\ t < n * p + n
  BY <1>1, Division, DivisionMonotone, BucketOf
<1>4. k \in Int /\ b * k <= p - d /\ p - d < b * k + b
  <2> HIDE DEF p, d
  <2> DEFINE e == p - d
  <2>1. e \in Int
    BY <1>3
  <2> HIDE DEF e
  <2>2. /\ e % b \in Int /\ 0 <= e % b /\ e % b < b
        /\ e \div b \in Int /\ e = b * (e \div b) + (e % b)
    BY <2>1, Division
  <2>3. b * (e \div b) \in Int
    BY <2>2
  <2>4. e \div b \in Int /\ b * (e \div b) <= e /\ e < b * (e \div b) + b
    BY <2>1, <2>2, <2>3
  <2> QED
    BY <2>4 DEF e
<1> HIDE DEF k, p
<1>5. 0 <= k
  <2> HIDE DEF d
  <2>1. ASSUME k < 0 PROVE FALSE
    <3>1. b * (k + 1) <= 0
      BY <1>4, <2>1
    <3>2. b * k + b <= 0 /\ b * k + b \in Int
      BY <1>4, <3>1
    <3> QED
      BY <1>3, <1>4, <3>2
  <2> QED
    BY <1>4, <2>1
<1>6. k < count
  <2>1. q(count + 1) = d + count * b
    BY <1>2 DEF Grid, d
  <2> HIDE DEF d, count
  <2>2. n * p < n * (d + count * b)
    <3>1. n * p \in Int /\ n * q(count + 1) \in Int
      BY <1>2, <1>3, <2>1
    <3>2. n * p < n * q(count + 1)
      BY <1>1, <1>2, <1>3, <3>1
    <3> QED
      BY <2>1, <3>2
  <2>3. count * b \in Int /\ d + count * b \in Int
    BY <1>2, <1>3
  <2>4. p < d + count * b
    <3> DEFINE z == d + count * b
    <3>1. z \in Int /\ n * p < n * z
      BY <2>2, <2>3
    <3> HIDE DEF z
    <3>2. p < z
      BY <1>3, <3>1
    <3> QED
      BY <3>2 DEF z
  <2>5. b * k < b * count
    BY <1>2, <1>3, <1>4, <2>3, <2>4
  <2> QED
    BY <1>2, <1>4, <2>5
<1>7. k + 1 \in DOMAIN w
  BY <1>2, <1>4, <1>5, <1>6
<1>8. q(k + 1) = d + k * b /\ q(k + 2) = d + (k + 1) * b
  BY <1>4 DEF Grid
<1>9. n * q(k + 1) <= t /\ t < n * q(k + 2)
  <2> HIDE DEF d
  <2>1. k * b \in Int /\ (k + 1) * b \in Int /\ (k + 1) * b = b * k + b
        /\ k * b = b * k
    BY <1>4
  <2>2. q(k + 1) \in Int /\ q(k + 1) <= p /\ q(k + 2) \in Int
        /\ p + 1 <= q(k + 2)
    BY <1>3, <1>4, <1>8, <2>1
  <2> HIDE DEF q
  <2>3. n * q(k + 1) <= n * p /\ n * (p + 1) <= n * q(k + 2)
    BY <1>3, <2>2
  <2>4. n * (p + 1) = n * p + n
    BY <1>3
  <2> QED
    BY <1>1, <1>3, <2>2, <2>3, <2>4
<1>10. InWindow(t, w[k + 1]) <=>
         from <= t /\ t <= to /\ n * q(k + 1) <= t /\ t < n * q((k + 1) + 1)
  <2>1. Spans(w[k + 1], k + 1, from, to, n, b)
    BY <1>1, <1>7, WindowSpan
  <2> QED
    BY <1>1, <2>1 DEF Spans
<1>11. (k + 1) + 1 = k + 2
  BY <1>4
<1> HIDE DEF w, q
<1>12. InWindow(t, w[k + 1])
  BY <1>1, <1>9, <1>10, <1>11
<1> QED
  BY <1>7, <1>12 DEF w

-----------------------------------------------------------------------------
(* Counting and order: the records of an answer.                           *)

Smaller(S, R, x) == {y \in S : <<y, x>> \in R}

\* A strict total order on a finite set numbers its elements: each has a
\* number of smaller ones, no two the same, and all numbers occur.
LEMMA Positions ==
  ASSUME NEW S, IsFiniteSet(S), NEW R,
         \A x \in S : <<x, x>> \notin R,
         \A x, y, z \in S : <<x, y>> \in R /\ <<y, z>> \in R => <<x, z>> \in R,
         \A x, y \in S : x # y => <<x, y>> \in R \/ <<y, x>> \in R
  PROVE  /\ \A x \in S : Cardinality(Smaller(S, R, x)) \in 0..(Cardinality(S) - 1)
         /\ \A x, y \in S : <<x, y>> \in R =>
              Cardinality(Smaller(S, R, x)) < Cardinality(Smaller(S, R, y))
         /\ \A k \in 0..(Cardinality(S) - 1) :
              \E x \in S : Cardinality(Smaller(S, R, x)) = k
<1> DEFINE P(x) == Cardinality(Smaller(S, R, x))
           n == Cardinality(S)
<1>1. n \in Nat
  BY FS_CardinalityType
<1>2. ASSUME NEW x \in S
      PROVE  /\ IsFiniteSet(Smaller(S, R, x)) /\ x \notin Smaller(S, R, x)
             /\ P(x) \in Nat /\ P(x) + 1 <= n
  <2>1. Smaller(S, R, x) \in SUBSET S /\ x \notin Smaller(S, R, x)
    BY DEF Smaller
  <2>2. IsFiniteSet(Smaller(S, R, x))
    BY <2>1, FS_Subset
  <2>3. Smaller(S, R, x) \cup {x} \in SUBSET S
    BY <2>1
  <2>4. Cardinality(Smaller(S, R, x) \cup {x}) = P(x) + 1
    BY <2>1, <2>2, FS_AddElement
  <2>5. Cardinality(Smaller(S, R, x) \cup {x}) <= n
    BY <2>3, FS_Subset
  <2> QED
    BY <2>1, <2>2, <2>4, <2>5, FS_CardinalityType
<1>3. ASSUME NEW x \in S, NEW y \in S, <<x, y>> \in R
      PROVE  P(x) < P(y)
  <2>1. Smaller(S, R, x) \cup {x} \in SUBSET Smaller(S, R, y)
    BY <1>3 DEF Smaller
  <2>2. Cardinality(Smaller(S, R, x) \cup {x}) = P(x) + 1
    BY <1>2, FS_AddElement
  <2>3. Cardinality(Smaller(S, R, x) \cup {x}) <= P(y)
    BY <1>2, <2>1, FS_Subset
  <2> QED
    BY <1>2, <2>2, <2>3
<1> HIDE DEF n
<1> DEFINE f == [x \in S |-> P(x)]
<1>4. f \in [S -> 0..(n - 1)]
  BY <1>1, <1>2
<1>5. ASSUME NEW x \in S, NEW y \in S, f[x] = f[y]
      PROVE  x = y
  <2>1. P(x) = P(y) /\ P(x) \in Nat
    BY <1>2, <1>5
  <2>2. ~(P(x) < P(y)) /\ ~(P(y) < P(x))
    BY <2>1
  <2> QED
    BY <1>3, <2>2
<1>6. f \in Injection(S, 0..(n - 1))
  BY <1>4, <1>5 DEF Injection, IsInjective
<1>7. IsFiniteSet(0..(n - 1)) /\ Cardinality(0..(n - 1)) = n
  BY <1>1, FS_Interval
<1>8. f \in Surjection(S, 0..(n - 1))
  <2> HIDE DEF f
  <2> QED
    BY <1>6, <1>7, FS_Injection DEF n
<1>9. \A k \in 0..(n - 1) : \E x \in S : f[x] = k
  BY <1>8 DEF Surjection
<1>10. \A k \in 0..(n - 1) : \E x \in S : P(x) = k
  BY <1>9
<1> QED
  BY <1>1, <1>2, <1>3, <1>10 DEF n

\* A finite set of integers has a greatest element.
LEMMA MaxOf ==
  ASSUME NEW S \in SUBSET Int, IsFiniteSet(S), S # {}
  PROVE  Max(S) \in S /\ \A y \in S : y <= Max(S)
<1> DEFINE R == {p \in S \X S : p[2] < p[1]}
           n == Cardinality(S)
<1>1. \A x, y \in S : <<x, y>> \in R <=> y < x
  OBVIOUS
<1> HIDE DEF R
<1>2. n \in Nat /\ n # 0
  BY FS_CardinalityType, FS_EmptySet
<1>3. \A k \in 0..(n - 1) : \E x \in S : Cardinality(Smaller(S, R, x)) = k
  <2>1. \A x \in S : x \in Int
    OBVIOUS
  <2>2. \A x \in S : <<x, x>> \notin R
    BY <1>1, <2>1
  <2>3. \A x, y, z \in S :
          <<x, y>> \in R /\ <<y, z>> \in R => <<x, z>> \in R
    BY <1>1, <2>1
  <2>4. \A x, y \in S : x # y => <<x, y>> \in R \/ <<y, x>> \in R
    BY <1>1, <2>1
  <2> QED
    BY <2>2, <2>3, <2>4, Positions
<1>4. PICK x \in S : Cardinality(Smaller(S, R, x)) = 0
  BY <1>2, <1>3
<1>5. Smaller(S, R, x) = {}
  <2>1. Smaller(S, R, x) \in SUBSET S
    BY DEF Smaller
  <2>2. IsFiniteSet(Smaller(S, R, x))
    BY <2>1, FS_Subset
  <2> QED
    BY <1>4, <2>2, FS_EmptySet
<1>6. \A y \in S : x >= y
  <2>1. \A y \in S : <<y, x>> \notin R
    BY <1>5 DEF Smaller
  <2>2. \A y \in S : ~(x < y) /\ x \in Int /\ y \in Int
    BY <1>1, <2>1
  <2> QED
    BY <2>2
<1> QED
  BY <1>6 DEF Max

Follows(ds, S) == {p \in S \X S : Before(p[1], p[2], ds)}

\* InOrder lists records that no two of which have the same group and bucket,
\* each once and in order.
LEMMA OrderedAnswer ==
  ASSUME NEW S, IsFiniteSet(S), NEW ds,
         \A r \in S : r.bucket \in Int,
         \A r, s \in S : r.group # s.group =>
           /\ Rank(ds, r.group) \in Nat /\ Rank(ds, s.group) \in Nat
           /\ Rank(ds, r.group) # Rank(ds, s.group),
         \A r, s \in S : r.group = s.group /\ r.bucket = s.bucket => r = s
  PROVE  /\ InOrder(S, ds) \in Seq(S)
         /\ \A r \in S : \E k \in DOMAIN InOrder(S, ds) : InOrder(S, ds)[k] = r
         /\ \A k, l \in DOMAIN InOrder(S, ds) :
              /\ k < l
              /\ InOrder(S, ds)[k].group = InOrder(S, ds)[l].group
              => InOrder(S, ds)[k].bucket < InOrder(S, ds)[l].bucket
<1> DEFINE R == Follows(ds, S)
           n == Cardinality(S)
           P(r) == Cardinality(Smaller(S, R, r))
           f == InOrder(S, ds)
<1>1. \A r, s \in S : <<r, s>> \in R <=> Before(r, s, ds)
  BY DEF Follows
<1>2. \A r \in S : ~Before(r, r, ds)
  BY DEF Before
<1>3. \A r, s, t \in S : Before(r, s, ds) /\ Before(s, t, ds) => Before(r, t, ds)
  BY DEF Before
<1>4. \A r, s \in S : r # s => Before(r, s, ds) \/ Before(s, r, ds)
  BY DEF Before
<1> HIDE DEF R
<1>5. /\ \A r \in S : P(r) \in 0..(n - 1)
      /\ \A r, s \in S : <<r, s>> \in R => P(r) < P(s)
      /\ \A k \in 0..(n - 1) : \E r \in S : P(r) = k
  BY <1>1, <1>2, <1>3, <1>4, Positions
<1>6. n \in Nat
  BY FS_CardinalityType
<1>7. ASSUME NEW r \in S
      PROVE  P(r) = Cardinality({s \in S : Before(s, r, ds)})
  <2>1. Smaller(S, R, r) = {s \in S : Before(s, r, ds)}
    BY <1>1 DEF Smaller
  <2> QED
    BY <2>1
<1>8. f = [k \in 1..n |-> CHOOSE r \in S : P(r) = k - 1]
  BY <1>7 DEF InOrder
<1> HIDE DEF P, f, n
<1>9. ASSUME NEW k \in 1..n
      PROVE  f[k] \in S /\ P(f[k]) = k - 1
  <2>1. k - 1 \in 0..(n - 1)
    BY <1>6
  <2>2. \E r \in S : P(r) = k - 1
    BY <1>5, <2>1
  <2> QED
    BY <1>8, <2>2
<1>10. f \in [1..n -> S] /\ DOMAIN f = 1..n
  BY <1>8, <1>9
<1>11. f \in Seq(S)
  BY <1>6, <1>10
<1>12. ASSUME NEW r \in S, NEW s \in S, P(r) = P(s)
       PROVE  r = s
  <2>1. P(r) \in Int /\ ~(P(r) < P(s)) /\ ~(P(s) < P(r))
    BY <1>5, <1>6, <1>12
  <2> QED
    BY <1>1, <1>4, <1>5, <2>1
<1>13. ASSUME NEW r \in S
       PROVE  \E k \in DOMAIN f : f[k] = r
  <2>1. P(r) + 1 \in 1..n /\ (P(r) + 1) - 1 = P(r)
    BY <1>5, <1>6
  <2>2. f[P(r) + 1] = r
    BY <1>9, <1>12, <2>1
  <2> QED
    BY <1>10, <2>1, <2>2
<1>14. ASSUME NEW k \in 1..n, NEW l \in 1..n, k < l, f[k].group = f[l].group
       PROVE  f[k].bucket < f[l].bucket
  <2>1. /\ f[k] \in S /\ P(f[k]) = k - 1
        /\ f[l] \in S /\ P(f[l]) = l - 1
    BY <1>9
  <2>2. ~(P(f[l]) < P(f[k])) /\ P(f[k]) # P(f[l])
    BY <1>6, <1>14, <2>1
  <2>3. ~Before(f[l], f[k], ds) /\ f[l] # f[k]
    BY <1>1, <1>5, <2>1, <2>2
  <2>4. Before(f[k], f[l], ds)
    BY <1>4, <2>1, <2>3
  <2> QED
    BY <1>14, <2>4 DEF Before
<1> QED
  BY <1>10, <1>11, <1>13, <1>14 DEF f

\* The documents a collector may have, or a part of them.
IsDocs(ds) == /\ ds \subseteq Int \X (Nat \ {Ungrouped}) /\ IsFiniteSet(ds)
              /\ \A d \in ds : Value(d) \in Int

\* A part of them is such a set too.
LEMMA PartOfDocs ==
  ASSUME NEW ds, IsDocs(ds), NEW es \in SUBSET ds
  PROVE  IsDocs(es)
<1>1. IsFiniteSet(es)
  BY FS_Subset DEF IsDocs
<1> QED
  BY <1>1 DEF IsDocs

\* A function takes finitely many values on a finite set.
LEMMA ImageFinite ==
  ASSUME NEW S, IsFiniteSet(S), NEW f, DOMAIN f = S
  PROVE  IsFiniteSet({f[x] : x \in S})
<1> DEFINE T == {f[x] : x \in S}
           g == [x \in S |-> f[x]]
<1>1. g \in Surjection(S, T)
  BY DEF Surjection
<1> HIDE DEF g, T
<1>2. IsFiniteSet(T)
  BY <1>1, FS_Surjection
<1> QED
  BY <1>2 DEF T

\* Groups are ranked without ties.
LEMMA RanksDiffer ==
  ASSUME NEW ds, IsDocs(ds)
  PROVE  /\ IsFiniteSet(GroupsOf(ds)) /\ GroupsOf(ds) \subseteq Nat
         /\ \A g \in GroupsOf(ds) : Rank(ds, g) \in Nat
         /\ \A g, h \in GroupsOf(ds) : g # h => Rank(ds, g) # Rank(ds, h)
<1> DEFINE G == GroupsOf(ds)
           size(g) == Cardinality(Of(ds, g))
           Ahead(g, h) == size(g) > size(h) \/ (size(g) = size(h) /\ g < h)
           R == {p \in G \X G : Ahead(p[1], p[2])}
<1>1. IsFiniteSet(G)
  <2> DEFINE f == [d \in ds |-> d[2]]
  <2>1. IsFiniteSet({f[d] : d \in ds})
    BY ImageFinite DEF IsDocs
  <2>2. G = {f[d] : d \in ds}
    BY DEF GroupsOf
  <2> QED
    BY <2>1, <2>2
<1>2. G \subseteq Nat
  BY DEF GroupsOf, IsDocs
<1>3. \A g \in G : size(g) \in Nat
  <2> TAKE g \in G
  <2>1. Of(ds, g) \in SUBSET ds
    BY DEF Of
  <2> QED
    BY <2>1, FS_Subset, FS_CardinalityType DEF IsDocs
<1>4. \A g, h \in G : <<g, h>> \in R <=> Ahead(g, h)
  OBVIOUS
<1> HIDE DEF R, G, size
<1>5. \A g \in G : <<g, g>> \notin R
  BY <1>2, <1>3, <1>4
<1>6. \A g, h, i \in G : <<g, h>> \in R /\ <<h, i>> \in R => <<g, i>> \in R
  BY <1>2, <1>3, <1>4
<1>7. ASSUME NEW g \in G, NEW h \in G, g # h
      PROVE  <<g, h>> \in R \/ <<h, g>> \in R
  <2>1. g \in Nat /\ h \in Nat /\ size(g) \in Nat /\ size(h) \in Nat
    BY <1>2, <1>3
  <2>2. Ahead(g, h) \/ Ahead(h, g)
    BY <1>7, <2>1
  <2> QED
    BY <1>4, <2>2
<1>8. /\ \A g \in G : Cardinality(Smaller(G, R, g)) \in 0..(Cardinality(G) - 1)
      /\ \A g, h \in G : <<g, h>> \in R =>
           Cardinality(Smaller(G, R, g)) < Cardinality(Smaller(G, R, h))
  BY <1>1, <1>5, <1>6, <1>7, Positions
<1>9. ASSUME NEW g \in G
      PROVE  Rank(ds, g) = Cardinality(Smaller(G, R, g))
  <2>1. Smaller(G, R, g) = {h \in G : Ahead(h, g)}
    BY <1>4 DEF Smaller
  <2>2. {h \in G : Ahead(h, g)} =
          {h \in GroupsOf(ds) :
             \/ Cardinality(Of(ds, h)) > Cardinality(Of(ds, g))
             \/ Cardinality(Of(ds, h)) = Cardinality(Of(ds, g)) /\ h < g}
    BY DEF G, size
  <2> QED
    BY <2>1, <2>2 DEF Rank
<1>10. Cardinality(G) \in Nat
  BY <1>1, FS_CardinalityType
<1>11. \A g \in G : Rank(ds, g) \in Nat
  BY <1>8, <1>9, <1>10
<1>12. ASSUME NEW g \in G, NEW h \in G, g # h
       PROVE  Rank(ds, g) # Rank(ds, h)
  <2>1. Rank(ds, g) < Rank(ds, h) \/ Rank(ds, h) < Rank(ds, g)
    BY <1>7, <1>8, <1>9, <1>12
  <2> QED
    BY <1>11, <2>1
<1> QED
  BY <1>1, <1>2, <1>11, <1>12 DEF G

\* A bucket has an integer for a value, whether it has documents or not.
LEMMA BucketValueType ==
  ASSUME NEW ds, IsDocs(ds), NEW n, NEW b
  PROVE  BucketValue(ds, n, b) \in Int
<1> DEFINE in == {d \in ds : Bucket(d[1], n) = b}
           f == [d \in in |-> Value(d)]
           V == {Value(d) : d \in in}
<1>1. CASE in = {}
  BY <1>1 DEF BucketValue
<1>2. CASE in # {}
  <2>1. in \in SUBSET ds
    OBVIOUS
  <2>2. IsDocs(in)
    BY <2>1, PartOfDocs
  <2> HIDE DEF in
  <2>3. V = {f[d] : d \in in}
    OBVIOUS
  <2>4. IsFiniteSet(V)
    <3>1. IsFiniteSet(in) /\ DOMAIN f = in
      BY <2>2 DEF IsDocs
    <3> HIDE DEF f, V
    <3> QED
      BY <2>3, <3>1, ImageFinite
  <2>5. V \in SUBSET Int /\ V # {}
    BY <1>2, <2>2 DEF IsDocs
  <2>6. Max(V) \in Int
    BY <2>4, <2>5, MaxOf
  <2> QED
    BY <1>2, <2>6 DEF BucketValue, MaxValue, in
<1> QED
  BY <1>1, <1>2

\* The groups an answer about ds reports, and the documents of one.
Labels(ds, grouped) == IF grouped THEN TopGroups(ds) ELSE {Ungrouped}
Labelled(ds, g, grouped) == IF grouped THEN Of(ds, g) ELSE ds

\* What an answer consists of: one record per group and bucket.
IsAnswer(S, c, ds, lo, hi, n, grouped) ==
  /\ S \subseteq RecordType /\ IsFiniteSet(S)
  /\ \A r \in S :
       /\ r.collector = c /\ r.group \in Labels(ds, grouped)
       /\ r.value = BucketValue(Labelled(ds, r.group, grouped), n, r.bucket)
       /\ \E t \in lo..hi : r.bucket = Bucket(t, n)
  /\ \A g \in Labels(ds, grouped) : \A t \in lo..hi :
       \E r \in S : r.group = g /\ r.bucket = Bucket(t, n)

\* Records is such an answer.
LEMMA RecordsAnswer ==
  ASSUME NEW c \in 1..Collectors, NEW ds, IsDocs(ds), NEW lo \in Int,
         NEW hi \in Int, NEW n \in Nat \ {0}, NEW grouped \in BOOLEAN
  PROVE  IsAnswer(Records(c, ds, lo, hi, n, grouped), c, ds, lo, hi, n, grouped)
<1> DEFINE S == Records(c, ds, lo, hi, n, grouped)
           G == Labels(ds, grouped)
           B == {Bucket(t, n) : t \in lo..hi}
           record(g, b) ==
             [collector |-> c, group |-> g, bucket |-> b,
              value |-> BucketValue(Labelled(ds, g, grouped), n, b)]
<1>1. S = {record(g, b) : g \in G, b \in B}
  BY DEF Records, Labels, Labelled
<1>2. B \subseteq Int
  BY BucketOf
<1>3. G \subseteq Nat /\ IsFiniteSet(G)
  <2>1. CASE grouped
    <3>1. TopGroups(ds) \in SUBSET GroupsOf(ds)
      BY DEF TopGroups
    <3>2. IsFiniteSet(GroupsOf(ds)) /\ GroupsOf(ds) \subseteq Nat
      BY RanksDiffer
    <3> QED
      BY <2>1, <3>1, <3>2, FS_Subset DEF Labels
  <2>2. CASE ~grouped
    <3>1. Labels(ds, grouped) = {0}
      BY <2>2 DEF Labels, Ungrouped
    <3> QED
      <4>1. IsFiniteSet({0})
        BY FS_Singleton, Zenon
      <4> QED
        BY <3>1, <4>1
  <2> QED
    BY <2>1, <2>2
<1>4. IsFiniteSet(B)
  <2> DEFINE f == [t \in lo..hi |-> Bucket(t, n)]
  <2>1. IsFiniteSet(lo..hi)
    BY FS_Interval
  <2>2. B = {f[t] : t \in lo..hi}
    OBVIOUS
  <2>3. DOMAIN f = lo..hi
    OBVIOUS
  <2> HIDE DEF f, B
  <2>4. IsFiniteSet({f[t] : t \in lo..hi})
    BY <2>1, <2>3, ImageFinite
  <2> QED
    BY <2>2, <2>4
<1>5. ASSUME NEW g \in G, NEW b \in B
      PROVE  record(g, b) \in RecordType
  <2>1. Labelled(ds, g, grouped) \in SUBSET ds
    BY DEF Labelled, Of
  <2>2. BucketValue(Labelled(ds, g, grouped), n, b) \in Int
    BY <2>1, PartOfDocs, BucketValueType
  <2> QED
    BY <1>2, <1>3, <2>2 DEF RecordType
<1>6. S \subseteq RecordType
  BY <1>1, <1>5
<1>7. IsFiniteSet(S)
  <2> DEFINE f == [p \in G \X B |-> record(p[1], p[2])]
  <2> HIDE DEF B, G, record, S
  <2>1. IsFiniteSet(G \X B) /\ DOMAIN f = G \X B
    BY <1>3, <1>4, FS_Product
  <2>2. ASSUME NEW g \in G, NEW b \in B
        PROVE  <<g, b>> \in G \X B /\ f[<<g, b>>] = record(g, b)
    OBVIOUS
  <2>3. \A p \in G \X B : p[1] \in G /\ p[2] \in B
                          /\ f[p] = record(p[1], p[2])
    OBVIOUS
  <2> HIDE DEF f
  <2>4. IsFiniteSet({f[p] : p \in G \X B})
    BY <2>1, ImageFinite
  <2>5. S = {f[p] : p \in G \X B}
    <3>1. ASSUME NEW x \in S
          PROVE  \E p \in G \X B : x = f[p]
      <4>1. PICK g \in G, b \in B : x = record(g, b)
        BY <1>1
      <4> QED
        BY <2>2, <4>1
    <3>2. ASSUME NEW p \in G \X B
          PROVE  f[p] \in S
      BY <1>1, <2>3
    <3> QED
      BY <3>1, <3>2
  <2> QED
    BY <2>4, <2>5
<1>8. \A r \in S :
        /\ r.collector = c /\ r.group \in G
        /\ r.value = BucketValue(Labelled(ds, r.group, grouped), n, r.bucket)
        /\ r.bucket \in B
  BY <1>1
<1>9. \A g \in G : \A b \in B : \E r \in S : r.group = g /\ r.bucket = b
  <2> TAKE g \in G
  <2> TAKE b \in B
  <2>1. record(g, b) \in S
    BY <1>1
  <2> QED
    BY <2>1
<1>10. \A r \in S : \E t \in lo..hi : r.bucket = Bucket(t, n)
  <2> TAKE r \in S
  <2>1. r.bucket \in B
    BY <1>8
  <2> QED
    BY <2>1
<1>11. \A g \in G : \A t \in lo..hi : \E r \in S : r.group = g /\ r.bucket = Bucket(t, n)
  <2> TAKE g \in G
  <2> TAKE t \in lo..hi
  <2>1. Bucket(t, n) \in B
    OBVIOUS
  <2> QED
    BY <1>9, <2>1
<1> HIDE DEF S, G, B, record
<1>12. IsAnswer(S, c, ds, lo, hi, n, grouped)
  BY <1>6, <1>7, <1>8, <1>10, <1>11 DEF IsAnswer, G
<1> QED
  BY <1>12 DEF S

\* The sequence InOrder makes of an answer.
LEMMA AnswerInOrder ==
  ASSUME NEW c \in 1..Collectors, NEW ds, IsDocs(ds), NEW lo \in Int,
         NEW hi \in Int, NEW n \in Nat \ {0}, NEW grouped \in BOOLEAN, NEW S,
         IsAnswer(S, c, ds, lo, hi, n, grouped)
  PROVE  /\ InOrder(S, ds) \in Seq(S)
         /\ \A r \in S : \E k \in DOMAIN InOrder(S, ds) : InOrder(S, ds)[k] = r
         /\ \A k, l \in DOMAIN InOrder(S, ds) :
              /\ k < l
              /\ InOrder(S, ds)[k].group = InOrder(S, ds)[l].group
              => InOrder(S, ds)[k].bucket < InOrder(S, ds)[l].bucket
<1>1. \A r \in S : r.bucket \in Int /\ r \in RecordType
  BY DEF IsAnswer, RecordType
<1>2. ASSUME NEW r \in S, NEW s \in S, r.group # s.group
      PROVE  /\ Rank(ds, r.group) \in Nat /\ Rank(ds, s.group) \in Nat
             /\ Rank(ds, r.group) # Rank(ds, s.group)
  <2>1. grouped /\ r.group \in TopGroups(ds) /\ s.group \in TopGroups(ds)
    BY <1>2 DEF IsAnswer, Labels
  <2>2. r.group \in GroupsOf(ds) /\ s.group \in GroupsOf(ds)
    BY <2>1 DEF TopGroups
  <2> QED
    BY <1>2, <2>2, RanksDiffer
<1>3. ASSUME NEW r \in S, NEW s \in S, r.group = s.group, r.bucket = s.bucket
      PROVE  r = s
  <2>1. r.collector = s.collector /\ r.value = s.value
    BY <1>3 DEF IsAnswer
  <2> QED
    BY <1>1, <1>3, <2>1 DEF RecordType
<1> QED
  BY <1>1, <1>2, <1>3, OrderedAnswer DEF IsAnswer

-----------------------------------------------------------------------------
(* The state: types.                                                       *)

\* What the types say of the request and of the documents.
Sane ==
  /\ request.from \in Int /\ request.to \in Int
  /\ request.interval \in Nat \ {0} /\ request.limit \in Nat \ {0}
  /\ request.grouped \in BOOLEAN
  /\ \A c \in 1..Collectors : IsDocs(docs[c])
  /\ PerWindow \in Nat \ {0}

\* A request for one date bucket asks for at least one bucket.
LEMMA UnitType ==
  ASSUME NEW grouped \in BOOLEAN
  PROVE  estimateBuckets(1, Collectors, grouped) \in Nat \ {0}
<1>1. (IF grouped THEN GroupSize ELSE 1) \in Nat \ {0}
  BY GroupSizeAssumption
<1>2. 1 + Collectors \in Nat \ {0}
  BY ParametersAssumption
<1>3. \A x, y \in Nat \ {0} : 1 * x * y \in Nat \ {0}
  OBVIOUS
<1> QED
  BY <1>1, <1>2, <1>3 DEF estimateBuckets

\* As many date buckets as Elasticsearch allows, or one, and never more.
LEMMA PerWindowFits ==
  ASSUME NEW grouped \in BOOLEAN, NEW unit,
         unit = estimateBuckets(1, Collectors, grouped), NEW p,
         p = windowDateBuckets(MaxESBuckets, WindowBuckets, Collectors, grouped)
  PROVE  p \in Nat \ {0} /\ (p = 1 \/ p * unit <= MaxESBuckets)
<1> DEFINE room == MaxESBuckets \div unit
<1>1. unit \in Nat \ {0} /\ MaxESBuckets \in Nat
  BY UnitType, ParametersAssumption
<1>2. room \in Int /\ unit * room <= MaxESBuckets
  <2>1. \A e \in Nat, u \in Nat \ {0} : e \div u \in Int /\ u * (e \div u) <= e
    OBVIOUS
  <2> QED
    BY <1>1, <2>1
<1> HIDE DEF room
<1>3. p = IF (IF room < 1 THEN 1 ELSE room) < WindowBuckets
          THEN (IF room < 1 THEN 1 ELSE room) ELSE WindowBuckets
  BY DEF windowDateBuckets, room
<1>4. WindowBuckets \in Nat \ {0}
  BY ParametersAssumption
<1>5. p \in Nat \ {0} /\ (p = 1 \/ p <= room)
  BY <1>2, <1>3, <1>4
<1>6. ASSUME p <= room
      PROVE  p * unit <= MaxESBuckets
  <2>1. p * unit <= room * unit /\ p * unit \in Int /\ room * unit = unit * room
    BY <1>1, <1>2, <1>5, <1>6
  <2> QED
    BY <1>1, <1>2, <2>1
<1> QED
  BY <1>5, <1>6

\* The types and the assumptions on the constants say so.
LEMMA TypesAreSane == TypeOK => Sane
<1> SUFFICES ASSUME TypeOK PROVE Sane
  OBVIOUS
<1>1. /\ request.from \in Froms /\ request.to \in Tos
      /\ request.interval \in Intervals /\ request.limit \in Budgets
      /\ request.grouped \in BOOLEAN
      /\ \A c \in 1..Collectors : docs[c] \in Documents
  BY DEF TypeOK
<1>2. PerWindow \in Nat \ {0}
  BY <1>1, PerWindowFits DEF PerWindow
<1> QED
  BY <1>1, <1>2, ParametersAssumption DEF Sane, IsDocs

\* The windows of a state are those of a plan.
WindowsSpan ==
  /\ request.from <= request.to
  /\ Len(windows) \in Nat \ {0} /\ DOMAIN windows = 1..Len(windows)
  /\ \A i \in 1..Len(windows) :
       Spans(windows[i], i, request.from, request.to, request.interval,
             PerWindow)

\* Once planned, the windows are those of a plan.
LEMMA WindowsArePlanned ==
  ASSUME TypeOK, PlanOK, windows # <<>>
  PROVE  WindowsSpan
<1> USE TypesAreSane
<1>1. request.from <= request.to
  BY DEF PlanOK, NoPlan, Sane
<1>2. DOMAIN windows = 1..Len(windows) /\ Len(windows) \in Nat
  BY DEF TypeOK
<1>3. Len(windows) # 0
  BY <1>2, EmptySeq DEF TypeOK
<1>4. windows = planTimeWindows(request.from, request.to, request.interval,
                                PerWindow)
  BY DEF PlanOK
<1>5. \A i \in DOMAIN windows :
        Spans(windows[i], i, request.from, request.to, request.interval,
              PerWindow)
  BY <1>1, <1>4, WindowSpan DEF Sane
<1> QED
  BY <1>1, <1>2, <1>3, <1>5 DEF WindowsSpan

\* Planning yields windows of the type.
LEMMA PlanType ==
  ASSUME TypeOK, Plan
  PROVE  windows' \in Seq([from : Int, to : Int, inclusive : BOOLEAN])
<1> DEFINE w == planTimeWindows(request.from, request.to, request.interval,
                                PerWindow)
           count == windowCount(request.from, request.to, request.interval,
                                PerWindow)
<1>1. CASE windows' = windows
  BY <1>1 DEF TypeOK
<1>2. CASE windows' # windows
  <2>1. /\ windows' = w /\ ~NoPlan(request.from, request.to, request.interval,
                                   PerWindow, MaxWindows)
    BY <1>2 DEF Plan
  <2>2. Sane /\ request.from <= request.to
    BY <2>1, TypesAreSane DEF Sane, NoPlan
  <2> HIDE DEF w, count
  <2>3. IsPlan(w, count, request.from, request.to, request.interval, PerWindow)
    BY <2>2, PlannedWindows DEF Sane, w, count
  <2>4. \A i \in DOMAIN w :
          Spans(w[i], i, request.from, request.to, request.interval, PerWindow)
    BY <2>2, WindowSpan DEF Sane, w
  <2>5. ASSUME NEW i \in 1..count
        PROVE  w[i] \in [from : Int, to : Int, inclusive : BOOLEAN]
    <3>1. w[i].from \in Int /\ w[i].to \in Int /\ w[i].inclusive \in BOOLEAN
      BY <2>3, <2>4 DEF IsPlan, Spans
    <3>2. \E x, y, z : w[i] = [from |-> x, to |-> y, inclusive |-> z]
      BY <2>3 DEF IsPlan
    <3> QED
      BY <3>1, <3>2
  <2>6. w = [i \in 1..count |-> w[i]] /\ count \in Nat
    BY <2>3 DEF IsPlan, w, planTimeWindows
  <2> DEFINE T == [from : Int, to : Int, inclusive : BOOLEAN]
  <2> HIDE DEF T
  <2>7. w \in [1..count -> T]
    BY <2>5, <2>6 DEF T
  <2>8. w \in Seq(T)
    BY <2>6, <2>7
  <2> QED
    BY <2>1, <2>8 DEF T
<1> QED
  BY <1>1, <1>2

\* The question a collector is asked: a window, the documents in it, the
\* records of the answer, and their order.
Lo == windows[window].from
Hi == IF windows[window].inclusive THEN windows[window].to
                                   ELSE windows[window].to - 1
Asked == Found(collector, windows[window])
Answer == Records(collector, Asked, Lo, Hi, request.interval, request.grouped)
InTurn == RecordsOf(collector, windows[window])

\* That answer is one of the documents in the window, in order.
LEMMA AnswerInTurn ==
  ASSUME TypeOK, IInv, pc = "collector"
  PROVE  /\ WindowsSpan /\ window \in 1..Len(windows)
         /\ Lo \in Int /\ Hi \in Int
         /\ \A t \in Int : t \in Lo..Hi <=> InWindow(t, windows[window])
         /\ IsDocs(Asked)
         /\ IsAnswer(Answer, collector, Asked, Lo, Hi, request.interval,
                     request.grouped)
         /\ InTurn = InOrder(Answer, Asked)
         /\ InTurn \in Seq(Answer) /\ InTurn \in Seq(RecordType)
         /\ \A r \in Answer : \E k \in DOMAIN InTurn : InTurn[k] = r
         /\ \A k, l \in DOMAIN InTurn :
              k < l /\ InTurn[k].group = InTurn[l].group
              => InTurn[k].bucket < InTurn[l].bucket
<1>1. WindowsSpan
  BY WindowsArePlanned DEF IInv, PlanOK
<1>2. window \in 1..Len(windows)
  BY <1>1 DEF TypeOK, IInv, PlaceOK, WindowsSpan
<1>3. Spans(windows[window], window, request.from, request.to,
            request.interval, PerWindow)
  BY <1>1, <1>2 DEF WindowsSpan
<1>4. Lo \in Int /\ Hi \in Int
  BY <1>3 DEF Lo, Hi, Spans
<1>5. \A t \in Int : t \in Lo..Hi <=> InWindow(t, windows[window])
  BY <1>3 DEF Lo, Hi, Spans
<1>6. Sane /\ collector \in 1..Collectors
  BY TypesAreSane DEF TypeOK
<1>7. IsDocs(Asked)
  <2>1. IsDocs(docs[collector]) /\ Asked \in SUBSET docs[collector]
    BY <1>6 DEF Sane, Asked, Found
  <2> QED
    BY <2>1, PartOfDocs
<1>8. IsAnswer(Answer, collector, Asked, Lo, Hi, request.interval,
               request.grouped)
  BY <1>4, <1>6, <1>7, RecordsAnswer DEF Sane, Answer
<1>9. InTurn = InOrder(Answer, Asked)
  BY DEF InTurn, RecordsOf, Answer, Asked, Lo, Hi
<1>10. /\ InOrder(Answer, Asked) \in Seq(Answer)
       /\ \A r \in Answer : \E k \in DOMAIN InOrder(Answer, Asked) :
                               InOrder(Answer, Asked)[k] = r
       /\ \A k, l \in DOMAIN InOrder(Answer, Asked) :
            /\ k < l
            /\ InOrder(Answer, Asked)[k].group = InOrder(Answer, Asked)[l].group
            => InOrder(Answer, Asked)[k].bucket
                 < InOrder(Answer, Asked)[l].bucket
  BY <1>4, <1>6, <1>7, <1>8, AnswerInOrder, SMTT(60) DEF Sane
<1>11. Answer \subseteq RecordType
  BY <1>8 DEF IsAnswer
<1> HIDE DEF Answer, Asked
<1>12. InTurn \in Seq(RecordType)
  <2>1. InTurn \in Seq(Answer)
    BY <1>9, <1>10
  <2> QED
    BY <1>11, <2>1, SeqMonotonic
<1> QED
  BY <1>1, <1>2, <1>4, <1>5, <1>7, <1>8, <1>9, <1>10, <1>12

\* What a step that takes an answer adds to the output: the records, as far
\* as the budget goes.
Room == request.limit - Len(out)
Taking ==
  /\ pc = "collector" /\ window <= Len(windows)
  /\ ~TooManyGroups(Asked) /\ InTurn # <<>>
  /\ acc' = [acc EXCEPT ![collector] = merge(@, Asked)]
  /\ out' = out \o Cut(InTurn, Room)
  /\ Advance(Len(out'), Len(InTurn) > Room)
  /\ UNCHANGED <<inputVars, windows, stats>>

\* Nothing found, or too much.
Passing ==
  /\ pc = "collector" /\ window <= Len(windows) /\ Asked = {} /\ Skip
  /\ UNCHANGED <<inputVars, windows, stats, acc, out, truncated>>
Refusing ==
  /\ pc = "collector" /\ pc' = "error"
  /\ UNCHANGED <<inputVars, windows, stats, window, collector, acc, out,
                 truncated>>

\* An answer is taken, passed over or refused.
LEMMA CollectKinds ==
  Collect => Taking \/ Passing \/ Refusing
BY DEF Collect, Taking, Passing, Refusing, Asked, InTurn, Room

\* Taking an answer appends a prefix of its records.
LEMMA TakingAppends ==
  ASSUME TypeOK, IInv, Taking
  PROVE  LET m == Len(out)
             x == Len(out') - Len(out)
         IN /\ Room \in Nat /\ m \in Nat /\ x \in Nat
            /\ x = IF Len(InTurn) > Room THEN Room ELSE Len(InTurn)
            /\ x <= Len(InTurn) /\ Len(InTurn) \in Nat
            /\ out' \in Seq(RecordType) /\ DOMAIN out' = 1..(m + x)
            /\ DOMAIN out = 1..m /\ DOMAIN InTurn = 1..Len(InTurn)
            /\ \A k \in 1..m : out'[k] = out[k]
            /\ \A k \in 1..x : out'[m + k] = InTurn[k] /\ InTurn[k] \in Answer
<1> DEFINE f == Cut(InTurn, Room)
           m == Len(out)
           len == Len(InTurn)
           n == IF len > Room THEN Room ELSE len
<1>1. InTurn \in Seq(RecordType) /\ InTurn \in Seq(Answer)
  BY AnswerInTurn DEF Taking
<1>2. out \in Seq(RecordType) /\ m \in Nat /\ DOMAIN out = 1..m
  BY DEF TypeOK
<1>3. len \in Nat /\ DOMAIN InTurn = 1..len /\ \A k \in 1..len : InTurn[k] \in Answer
  BY <1>1
<1>4. Room \in Nat
  <2>1. request.limit \in Nat /\ Len(out) <= request.limit
    BY TypesAreSane DEF IInv, BudgetOK, Sane
  <2> QED
    BY <1>2, <2>1 DEF Room
<1>5. n \in Nat /\ n <= len
  BY <1>3, <1>4
<1>6. f = SubSeq(InTurn, 1, n)
  BY DEF Cut
<1> HIDE DEF f, n, len
<1>7. \A k \in 1..n : InTurn[k] \in RecordType
  BY <1>1, <1>3, <1>5, ElementOfSeq DEF len
<1>8. f \in Seq(RecordType) /\ Len(f) = n /\ \A k \in 1..n : f[k] = InTurn[k]
  <2>1. /\ f \in Seq(RecordType)
        /\ Len(f) = IF 1 <= n THEN n - 1 + 1 ELSE 0
        /\ \A k \in 1..n - 1 + 1 : f[k] = InTurn[1 + k - 1]
    BY <1>5, <1>6, <1>7, SubSeqProperties
  <2> QED
    BY <1>5, <2>1
<1>9. out' = out \o f
  BY DEF Taking, f
<1> HIDE DEF m
<1>10. /\ out' \in Seq(RecordType) /\ Len(out') = m + n
       /\ \A k \in 1..m + n : out'[k] = IF k <= m THEN out[k] ELSE f[k - m]
  BY <1>2, <1>8, <1>9, ConcatProperties DEF m
<1>11. DOMAIN out' = 1..(m + n) /\ Len(out') - m = n
  BY <1>2, <1>5, <1>10
<1>12. \A k \in 1..m : out'[k] = out[k]
  BY <1>2, <1>5, <1>10
<1>13. ASSUME NEW k \in 1..n
       PROVE  out'[m + k] = InTurn[k] /\ InTurn[k] \in Answer
  <2>1. m + k \in 1..m + n /\ ~(m + k <= m) /\ (m + k) - m = k
    BY <1>2, <1>5
  <2> QED
    BY <1>3, <1>5, <1>8, <1>10, <2>1
<1> QED
  BY <1>2, <1>3, <1>4, <1>5, <1>10, <1>11, <1>12, <1>13 DEF m, n, len

\* Every step keeps the types.
LEMMA StreamTypeStep ==
  ASSUME TypeOK, IInv, Next
  PROVE  TypeOK'
<1> USE DEF TypeOK
<1>1. CASE Plan
  <2>1. windows' \in Seq([from : Int, to : Int, inclusive : BOOLEAN])
    BY <1>1, PlanType
  <2> QED
    BY <1>1, <2>1 DEF Plan, inputVars
<1>2. CASE EmitMeta \/ StartWindow \/ Done \/ Fail \/ Terminated \/ Refusing
  <2>1. 1 \in 1..Collectors
    BY ParametersAssumption
  <2> QED
    BY <1>2, <2>1 DEF EmitMeta, StartWindow, Done, Fail, Terminated, Refusing,
                      vars, inputVars
<1>3. CASE Passing
  <2>1. collector # Collectors => collector + 1 \in 1..Collectors
    BY ParametersAssumption
  <2> QED
    BY <1>3, <2>1 DEF Passing, Skip, inputVars
<1>4. CASE Taking
  <2>1. collector # Collectors => collector + 1 \in 1..Collectors
    BY ParametersAssumption
  <2>2. out' \in Seq(RecordType)
    BY <1>4, TakingAppends
  <2>3. UNCHANGED <<inputVars, windows, stats>> /\ DOMAIN acc' = DOMAIN acc
    BY <1>4 DEF Taking
  <2>4. Len(windows) + 1 \in Nat \ {0} /\ window + 1 \in Nat \ {0}
    OBVIOUS
  <2>5. /\ window' \in Nat \ {0} /\ collector' \in 1..Collectors
        /\ pc' \in {"window", "collector"} /\ truncated' \in BOOLEAN
    BY <1>4, <2>1, <2>4 DEF Taking, Advance
  <2> QED
    BY <2>2, <2>3, <2>5 DEF inputVars
<1> QED
  BY <1>1, <1>2, <1>3, <1>4, CollectKinds DEF Next

-----------------------------------------------------------------------------
(* The invariant of the stream, one part at a time.                        *)

Edge(i) == Bucket(windows[i].from, request.interval)

\* Windows come one behind the other.
LEMMA EdgesAscend ==
  ASSUME TypeOK, WindowsSpan, NEW i \in 1..Len(windows),
         NEW j \in 1..Len(windows), i <= j
  PROVE  Edge(i) \in Int /\ Edge(j) \in Int /\ Edge(i) <= Edge(j)
<1> DEFINE n == request.interval
           g(k) == Grid(request.from, n, PerWindow, k)
<1>1. n \in Nat \ {0} /\ PerWindow \in Nat \ {0} /\ request.from \in Int
  BY TypesAreSane DEF Sane
<1>2. Edge(i) = n * g(i) /\ Edge(j) = n * g(j) /\ g(i) \in Int /\ g(j) \in Int
  BY DEF WindowsSpan, Spans, Edge
<1>3. g(i) <= g(j)
  <2>1. request.from \div n \in Int
    BY <1>1, Division
  <2>2. i \in Int /\ j \in Int /\ i - 1 <= j - 1
    OBVIOUS
  <2> DEFINE d == request.from \div n
             x == i - 1
             y == j - 1
  <2>3. x \in Int /\ y \in Int /\ x <= y /\ d \in Int
    BY <2>1, <2>2
  <2> HIDE DEF d, x, y
  <2>4. d + x * PerWindow <= d + y * PerWindow
    BY <1>1, <2>3
  <2> QED
    BY <2>4 DEF Grid, d, x, y
<1> HIDE DEF g, n
<1>4. n * g(i) <= n * g(j) /\ n * g(i) \in Int /\ n * g(j) \in Int
  BY <1>1, <1>2, <1>3
<1> QED
  BY <1>2, <1>4

\* A bucket of a window lies between the window's edge and the next one's.
LEMMA BucketInWindow ==
  ASSUME TypeOK, WindowsSpan, NEW i \in 1..Len(windows), NEW t \in Int,
         InWindow(t, windows[i])
  PROVE  /\ Bucket(t, request.interval) \in Int
         /\ Edge(i) <= Bucket(t, request.interval)
         /\ i < Len(windows) => Bucket(t, request.interval) < Edge(i + 1)
<1> DEFINE n == request.interval
           g(k) == Grid(request.from, n, PerWindow, k)
<1>1. n \in Nat \ {0}
  BY TypesAreSane DEF Sane
<1>2. /\ g(i) \in Int /\ g(i + 1) \in Int /\ Edge(i) = n * g(i)
      /\ n * g(i) <= t /\ t < n * g(i + 1)
  <2>1. Spans(windows[i], i, request.from, request.to, n, PerWindow)
    BY DEF WindowsSpan
  <2>2. PerWindow \in Int
    BY TypesAreSane DEF Sane
  <2> QED
    BY <2>1, <2>2 DEF Spans, Edge
<1>3. i < Len(windows) => Edge(i + 1) = n * g(i + 1)
  <2>1. i < Len(windows) => i + 1 \in 1..Len(windows)
    BY DEF WindowsSpan
  <2> QED
    BY <2>1 DEF WindowsSpan, Spans, Edge
<1> HIDE DEF n, g
<1>4. /\ Bucket(t, n) \in Int /\ n * g(i) <= Bucket(t, n)
      /\ Bucket(t, n) < n * g(i + 1)
  BY <1>1, <1>2, BucketOf, BucketOfEdge
<1> QED
  BY <1>2, <1>3, <1>4 DEF n

\* A bucket that has one time in a window has all the times of the range it
\* has there.
LEMMA BucketWhole ==
  ASSUME TypeOK, WindowsSpan, NEW i \in 1..Len(windows), NEW t \in Int,
         InWindow(t, windows[i]), NEW u \in request.from..request.to,
         Bucket(u, request.interval) = Bucket(t, request.interval)
  PROVE  InWindow(u, windows[i])
<1> DEFINE n == request.interval
           g(k) == Grid(request.from, n, PerWindow, k)
<1>1. n \in Nat \ {0} /\ u \in Int /\ request.from <= u /\ u <= request.to
  BY TypesAreSane DEF Sane
<1>2. Spans(windows[i], i, request.from, request.to, n, PerWindow)
  BY DEF WindowsSpan
<1>3. /\ g(i) \in Int /\ g(i + 1) \in Int
      /\ n * g(i) <= t /\ t < n * g(i + 1)
      /\ InWindow(u, windows[i]) <=> n * g(i) <= u /\ u < n * g(i + 1)
  <2>1. PerWindow \in Int
    BY TypesAreSane DEF Sane
  <2> QED
    BY <1>1, <1>2, <2>1, SMTT(60) DEF Spans
<1>4. Bucket(u, n) = Bucket(t, n)
  OBVIOUS
<1> HIDE DEF n, g
<1>5. /\ n * g(i) <= Bucket(u, n) /\ Bucket(u, n) < n * g(i + 1)
  BY <1>1, <1>3, <1>4, BucketOf, BucketOfEdge
<1>6. n * g(i) <= u /\ u < n * g(i + 1)
  <2>1. Bucket(u, n) \in Int /\ Bucket(u, n) <= u
    BY <1>1, BucketOf
  <2>2. n * g(i) <= u
    BY <1>1, <1>3, <1>5, <2>1
  <2>3. ~(n * g(i + 1) <= u)
    BY <1>1, <1>3, <1>5, <2>1, BucketOfEdge
  <2> QED
    BY <1>1, <1>3, <2>2, <2>3
<1> QED
  BY <1>3, <1>6

\* What the records of the range say of a group and a bucket, as a function
\* of the request and of the documents alone.
ValueOf(req, found, r) ==
  BucketValue({d \in {d \in found[r.collector] : /\ req.from <= d[1]
                                                 /\ d[1] <= req.to} :
                 (IF req.grouped THEN d[2] ELSE Ungrouped) = r.group},
              req.interval, r.bucket)
ValuesOK == \A k \in DOMAIN out : out[k].value = ValueOf(request, docs, out[k])

\* RightValue says so of a record.
LEMMA ValueMeant ==
  ASSUME NEW r
  PROVE  RightValue(r) <=> r.value = ValueOf(request, docs, r)
BY Zenon DEF RightValue, ValueOf, InRange, Label

\* The place of each collector, as a function of the two loops.
PlaceOf(where, w, asked, c) == IF where = "collector" /\ c < asked THEN w + 1
                                                                   ELSE w
BehindOK ==
  \A k \in DOMAIN out :
    LET i == PlaceOf(pc, window, collector, out[k].collector)
    IN Working /\ i <= Len(windows) => out[k].bucket < Edge(i)

\* OutOK says both.
LEMMA OutMeant == OutOK <=> ValuesOK /\ BehindOK
<1>1. ASSUME NEW k \in DOMAIN out
      PROVE  /\ RightValue(out[k]) <=> out[k].value = ValueOf(request, docs, out[k])
             /\ NextFor(out[k].collector)
                  = PlaceOf(pc, window, collector, out[k].collector)
  <2>1. RightValue(out[k]) <=> out[k].value = ValueOf(request, docs, out[k])
    BY ValueMeant
  <2> QED
    BY <2>1 DEF NextFor, PlaceOf
<1> QED
  BY <1>1 DEF OutOK, ValuesOK, BehindOK, Edge

\* The values of an answer are those of the range: a bucket of a window has
\* all its documents there.
LEMMA AnswerIsRight ==
  ASSUME TypeOK, IInv, pc = "collector", NEW r \in Answer
  PROVE  /\ r.collector = collector /\ r.bucket \in Int
         /\ Edge(window) <= r.bucket
         /\ window < Len(windows) => r.bucket < Edge(window + 1)
         /\ r.value = ValueOf(request, docs, r)
<1> DEFINE n == request.interval
           w == windows[window]
<1>1. /\ WindowsSpan /\ window \in 1..Len(windows)
      /\ \A t \in Int : t \in Lo..Hi <=> InWindow(t, w)
      /\ IsAnswer(Answer, collector, Asked, Lo, Hi, n, request.grouped)
      /\ Lo \in Int /\ Hi \in Int
  BY AnswerInTurn
<1>2. /\ r.collector = collector /\ r.group \in Labels(Asked, request.grouped)
      /\ r.value = BucketValue(Labelled(Asked, r.group, request.grouped), n,
                               r.bucket)
      /\ \E t \in Lo..Hi : r.bucket = Bucket(t, n)
  BY <1>1 DEF IsAnswer
<1>3. PICK t \in Lo..Hi : r.bucket = Bucket(t, n)
  BY <1>2
<1>4. t \in Int /\ InWindow(t, w)
  BY <1>1, <1>3
<1>5. /\ r.bucket \in Int /\ Edge(window) <= r.bucket
      /\ window < Len(windows) => r.bucket < Edge(window + 1)
  BY <1>1, <1>3, <1>4, BucketInWindow
<1> DEFINE A == Labelled(Asked, r.group, request.grouped)
           B == {d \in {d \in docs[collector] : /\ request.from <= d[1]
                                                /\ d[1] <= request.to} :
                   (IF request.grouped THEN d[2] ELSE Ungrouped) = r.group}
<1>6. IsDocs(docs[collector])
  BY TypesAreSane DEF TypeOK, Sane
<1>7. ASSUME NEW d \in docs[collector], Bucket(d[1], n) = r.bucket
      PROVE  InWindow(d[1], w) <=> request.from <= d[1] /\ d[1] <= request.to
  <2>1. d[1] \in Int
    BY <1>6 DEF IsDocs
  <2>2. Spans(w, window, request.from, request.to, n, PerWindow)
    BY <1>1 DEF WindowsSpan
  <2>3. InWindow(d[1], w) => request.from <= d[1] /\ d[1] <= request.to
    BY <2>1, <2>2 DEF Spans
  <2>4. ASSUME request.from <= d[1], d[1] <= request.to
        PROVE  InWindow(d[1], w)
    <3>1. d[1] \in request.from..request.to
      BY <2>1, <2>4, TypesAreSane DEF Sane
    <3> QED
      BY <1>1, <1>3, <1>4, <1>7, <3>1, BucketWhole
  <2> QED
    BY <2>3, <2>4
<1>8. r.group \in Labels(Asked, request.grouped)
  BY <1>2
<1>9. {d \in A : Bucket(d[1], n) = r.bucket} = {d \in B : Bucket(d[1], n) = r.bucket}
  <2>1. Asked = {d \in docs[collector] : InWindow(d[1], w)}
    BY DEF Asked, Found
  <2>2. A = IF request.grouped THEN {d \in Asked : d[2] = r.group} ELSE Asked
    BY DEF Labelled, Of
  <2>3. ~request.grouped => r.group = Ungrouped
    BY <1>8 DEF Labels
  <2> HIDE DEF A, w, n
  <2>4. ASSUME NEW d
        PROVE  d \in A <=> /\ d \in docs[collector] /\ InWindow(d[1], w)
                           /\ (IF request.grouped THEN d[2] ELSE Ungrouped) = r.group
    BY <2>1, <2>2, <2>3
  <2>5. ASSUME NEW d
        PROVE  d \in B <=> /\ d \in docs[collector]
                           /\ request.from <= d[1] /\ d[1] <= request.to
                           /\ (IF request.grouped THEN d[2] ELSE Ungrouped) = r.group
    OBVIOUS
  <2> HIDE DEF B
  <2> QED
    BY <1>7, <2>4, <2>5
<1>10. BucketValue(A, n, r.bucket) = BucketValue(B, n, r.bucket)
  <2> HIDE DEF A, B
  <2> QED
    BY <1>9 DEF BucketValue
<1>11. ValueOf(request, docs, r) = BucketValue(B, n, r.bucket)
  BY <1>2 DEF ValueOf
<1> HIDE DEF A, B
<1> QED
  BY <1>2, <1>5, <1>10, <1>11 DEF A

\* Going on to the next collector or window moves one collector by one window.
Moved ==
  /\ pc' \in {"window", "collector"}
  /\ pc' = "collector" => window' = window
  /\ \A c \in 1..Collectors :
       PlaceOf(pc', window', collector', c)
         = IF c = collector THEN window + 1
                            ELSE PlaceOf(pc, window, collector, c)

\* Skip moves the collector so.
LEMMA SkipMoves ==
  ASSUME TypeOK, pc = "collector", Skip
  PROVE  Moved
<1>1. collector \in 1..Collectors /\ window \in Nat /\ Collectors \in Nat
  BY ParametersAssumption DEF TypeOK
<1>2. CASE collector = Collectors
  BY <1>1, <1>2 DEF Skip, Moved, PlaceOf
<1>3. CASE collector # Collectors
  BY <1>1, <1>3 DEF Skip, Moved, PlaceOf
<1> QED
  BY <1>2, <1>3

\* An answer was taken: either the budget is spent and the loops end, or they
\* go on as if nothing had been found, and the answer was taken whole.
LEMMA TakingMoves ==
  ASSUME TypeOK, IInv, Taking
  PROVE  \/ /\ truncated' /\ pc' = "window" /\ window' = Len(windows) + 1
            /\ Len(out') = request.limit
         \/ /\ ~truncated' /\ Moved
            /\ Len(out') = Len(out) + Len(InTurn) /\ Len(out') <= request.limit
<1>1. /\ collector \in 1..Collectors /\ window \in Nat /\ Collectors \in Nat
      /\ window <= Len(windows) /\ Len(windows) \in Nat
  BY ParametersAssumption DEF TypeOK, Taking
<1>2. request.limit \in Nat
  BY TypesAreSane DEF Sane
<1> DEFINE m == Len(out)
           x == Len(out') - Len(out)
<1>3. /\ Room \in Nat /\ m \in Nat /\ x \in Nat /\ Len(InTurn) \in Nat
      /\ x = IF Len(InTurn) > Room THEN Room ELSE Len(InTurn)
      /\ out' \in Seq(RecordType)
  BY TakingAppends
<1>4. Len(out') = m + x /\ Room = request.limit - m
  <2>1. Len(out') \in Nat
    BY <1>3
  <2> QED
    BY <1>3, <2>1 DEF Room
<1> HIDE DEF x, m
<1>5. Len(out') <= request.limit /\ (Len(InTurn) > Room => Len(out') = request.limit)
  BY <1>2, <1>3, <1>4
<1>6. Advance(Len(out'), Len(InTurn) > Room)
  BY DEF Taking
<1>7. CASE truncated'
  <2>1. Len(out') >= request.limit
    BY <1>2, <1>3, <1>4, <1>5, <1>6, <1>7 DEF Advance
  <2>2. Len(out') = request.limit
    BY <1>2, <1>3, <1>4, <1>5, <2>1
  <2>3. pc' = "window" /\ window' = Len(windows) + 1
    BY <1>6, <1>7, <2>1 DEF Advance
  <2> QED
    BY <1>7, <2>2, <2>3
<1>8. CASE ~truncated'
  <2>1. ~(Len(InTurn) > Room)
    BY <1>6, <1>8 DEF Advance
  <2>2. Len(out') = m + Len(InTurn)
    BY <1>3, <1>4, <2>1
  <2>3. Len(out') >= request.limit => collector = Collectors
    <3>1. ~(Len(out') >= request.limit
            /\ (window < Len(windows) \/ collector < Collectors))
      BY <1>6, <1>8, Zenon DEF Advance
    <3> QED
      BY <1>1, <3>1
  <2>4. Skip
    BY <1>6, <1>8, <2>3 DEF Advance, Skip
  <2>5. Moved
    BY <2>4, SkipMoves DEF Taking
  <2> QED
    BY <1>5, <1>8, <2>2, <2>5 DEF m
<1> QED
  BY <1>7, <1>8

\* The invariant after a step that takes an answer or finds none: the place
\* of each collector moves on, or the stream is truncated, and the records
\* taken are those of the window asked for.
Adds(more) ==
  LET m == Len(out)
  IN /\ m \in Nat /\ more \in Nat /\ DOMAIN out = 1..m
     /\ DOMAIN out' = 1..(m + more)
     /\ \A k \in 1..m : out'[k] = out[k]
     /\ \A k \in 1..more : out'[m + k] = InTurn[k] /\ InTurn[k] \in Answer
     /\ more <= Len(InTurn)
Ends == truncated' /\ pc' = "window" /\ window' = Len(windows) + 1

\* The new records come behind those of the collector sent before.
LEMMA AddsKeepOrder ==
  ASSUME TypeOK, IInv, pc = "collector", NEW more, Adds(more)
  PROVE  BucketsOnce'
<1> DEFINE m == Len(out)
<1>1. SUFFICES ASSUME NEW k \in DOMAIN out', NEW l \in DOMAIN out', k < l,
                      out'[k].collector = out'[l].collector,
                      out'[k].group = out'[l].group
               PROVE  out'[k].bucket < out'[l].bucket
  BY DEF BucketsOnce
<1>2. /\ m \in Nat /\ more \in Nat /\ k \in 1..(m + more) /\ l \in 1..(m + more)
      /\ DOMAIN out = 1..m /\ more <= Len(InTurn)
  BY DEF Adds
<1>3. /\ \A i \in 1..m : out'[i] = out[i]
      /\ \A i \in 1..more : out'[m + i] = InTurn[i] /\ InTurn[i] \in Answer
  BY DEF Adds
<1>4. CASE l <= m
  <2>1. k \in 1..m /\ l \in 1..m
    BY <1>1, <1>2, <1>4
  <2>2. out'[k] = out[k] /\ out'[l] = out[l]
    BY <1>3, <2>1
  <2> QED
    BY <1>1, <1>2, <2>1, <2>2 DEF IInv, BucketsOnce
<1>5. CASE l > m
  <2> DEFINE j == l - m
  <2>1. j \in 1..more /\ l = m + j
    BY <1>2, <1>5
  <2> HIDE DEF j
  <2>2. out'[l] = InTurn[j] /\ InTurn[j] \in Answer
    BY <1>3, <2>1
  <2>3. /\ InTurn[j].collector = collector /\ InTurn[j].bucket \in Int
        /\ Edge(window) <= InTurn[j].bucket
    BY <2>2, AnswerIsRight
  <2>4. CASE k <= m
    <3>1. k \in 1..m
      BY <1>2, <2>4
    <3>2. out'[k] = out[k] /\ out[k] \in RecordType
      BY <1>2, <1>3, <3>1, ElementOfSeq DEF TypeOK
    <3>3. out[k].collector = collector /\ out[k].bucket \in Int
      BY <1>1, <2>2, <2>3, <3>2 DEF RecordType
    <3>4. PlaceOf(pc, window, collector, out[k].collector) = window
      <4>1. collector \in Nat
        BY DEF TypeOK
      <4> QED
        BY <3>3, <4>1 DEF PlaceOf
    <3>5. WindowsSpan /\ window \in 1..Len(windows) /\ window <= Len(windows)
      BY AnswerInTurn DEF IInv, PlaceOK
    <3>6. out[k].bucket < Edge(window)
      <4>1. BehindOK
        BY OutMeant DEF IInv
      <4> QED
        BY <1>2, <3>1, <3>4, <3>5, <4>1 DEF BehindOK, Working
    <3>7. Edge(window) \in Int
      BY <3>5, EdgesAscend
    <3> QED
      BY <2>2, <2>3, <3>2, <3>3, <3>6, <3>7
  <2>5. CASE k > m
    <3> DEFINE i == k - m
    <3>1. i \in 1..more /\ k = m + i
      BY <1>2, <2>5
    <3>2. i < j
      BY <1>1, <1>2, <2>1, <3>1
    <3> HIDE DEF i
    <3>3. out'[k] = InTurn[i]
      BY <1>3, <3>1
    <3>4. DOMAIN InTurn = 1..Len(InTurn) /\ Len(InTurn) \in Nat
      <4>1. InTurn \in Seq(Answer)
        BY AnswerInTurn
      <4> QED
        BY <4>1
    <3>5. i \in DOMAIN InTurn /\ j \in DOMAIN InTurn
      BY <1>2, <2>1, <3>1, <3>4
    <3>6. InTurn[i].bucket < InTurn[j].bucket
      BY <1>1, <2>2, <3>2, <3>3, <3>5, AnswerInTurn
    <3> QED
      BY <2>2, <3>3, <3>6
  <2> QED
    BY <1>2, <2>4, <2>5
<1> QED
  BY <1>2, <1>4, <1>5

\* The new records carry the right values, and the old ones still do.
LEMMA AddsKeepValues ==
  ASSUME TypeOK, IInv, pc = "collector", NEW more, Adds(more),
         UNCHANGED inputVars
  PROVE  ValuesOK'
<1> DEFINE m == Len(out)
<1>1. SUFFICES ASSUME NEW k \in DOMAIN out'
               PROVE  out'[k].value = ValueOf(request', docs', out'[k])
  BY DEF ValuesOK
<1>2. request' = request /\ docs' = docs
  BY DEF inputVars
<1>3. m \in Nat /\ more \in Nat /\ k \in 1..(m + more) /\ DOMAIN out = 1..m
  BY DEF Adds
<1>4. /\ \A i \in 1..m : out'[i] = out[i]
      /\ \A i \in 1..more : out'[m + i] = InTurn[i] /\ InTurn[i] \in Answer
  BY DEF Adds
<1>5. CASE k <= m
  <2>1. k \in 1..m
    BY <1>3, <1>5
  <2>2. out[k].value = ValueOf(request, docs, out[k])
    BY <1>3, <2>1, OutMeant DEF IInv, ValuesOK
  <2> QED
    BY <1>2, <1>4, <2>1, <2>2
<1>6. CASE k > m
  <2> DEFINE j == k - m
  <2>1. j \in 1..more /\ k = m + j
    BY <1>3, <1>6
  <2> HIDE DEF j
  <2>2. out'[k] = InTurn[j] /\ InTurn[j] \in Answer
    BY <1>4, <2>1
  <2>3. InTurn[j].value = ValueOf(request, docs, InTurn[j])
    BY <2>2, AnswerIsRight
  <2> QED
    BY <1>2, <2>2, <2>3
<1> QED
  BY <1>3, <1>5, <1>6

\* What has been sent of a collector lies before its next window.
LEMMA AddsStayBehind ==
  ASSUME TypeOK, IInv, pc = "collector", NEW more, Adds(more), Moved \/ Ends,
         UNCHANGED <<inputVars, windows>>
  PROVE  BehindOK'
<1> DEFINE m == Len(out)
           p(c) == PlaceOf(pc, window, collector, c)
           q(c) == PlaceOf(pc', window', collector', c)
<1>1. request' = request /\ windows' = windows
  BY DEF inputVars
<1>2. /\ WindowsSpan /\ window \in 1..Len(windows) /\ Len(windows) \in Nat
      /\ collector \in Nat
  <2>1. WindowsSpan /\ window \in 1..Len(windows)
    BY AnswerInTurn
  <2> QED
    BY <2>1 DEF WindowsSpan, TypeOK
<1>3. SUFFICES ASSUME NEW k \in DOMAIN out', q(out'[k].collector) <= Len(windows)
               PROVE  out'[k].bucket < Edge(q(out'[k].collector))
  BY <1>1 DEF BehindOK, Edge
<1>4. m \in Nat /\ more \in Nat /\ k \in 1..(m + more) /\ DOMAIN out = 1..m
  BY DEF Adds
<1>5. /\ \A i \in 1..m : out'[i] = out[i]
      /\ \A i \in 1..more : out'[m + i] = InTurn[i] /\ InTurn[i] \in Answer
  BY DEF Adds
<1>6. Moved
  <2>1. ASSUME Ends PROVE FALSE
    <3>1. q(out'[k].collector) = Len(windows) + 1
      BY <2>1 DEF Ends, PlaceOf
    <3> HIDE DEF q
    <3> QED
      BY <1>2, <1>3, <3>1
  <2> QED
    BY <2>1
<1>7. p(collector) = window /\ \A c \in 1..Collectors : p(c) \in {window, window + 1}
  BY <1>2 DEF PlaceOf
<1>8. /\ q(collector) = window + 1
      /\ \A c \in 1..Collectors : c # collector => q(c) = p(c)
  <2>1. collector \in 1..Collectors
    BY DEF TypeOK
  <2> QED
    BY <1>6, <2>1 DEF Moved
<1> HIDE DEF p, q
<1>9. CASE k <= m
  <2>1. k \in 1..m
    BY <1>4, <1>9
  <2>2. out'[k] = out[k] /\ out[k] \in RecordType
    BY <1>4, <1>5, <2>1, ElementOfSeq DEF TypeOK
  <2>3. out[k].collector \in 1..Collectors /\ out[k].bucket \in Int
    BY <2>2 DEF RecordType
  <2> DEFINE i == p(out[k].collector)
             j == q(out[k].collector)
  <2>4. i \in 1..Len(windows) /\ j \in 1..Len(windows) /\ i <= j
    BY <1>2, <1>3, <1>7, <1>8, <2>2, <2>3
  <2>5. Edge(i) \in Int /\ Edge(j) \in Int /\ Edge(i) <= Edge(j)
    BY <1>2, <2>4, EdgesAscend
  <2>6. out[k].bucket < Edge(i)
    <3>1. i <= Len(windows)
      BY <1>2, <2>4
    <3> QED
      BY <1>4, <2>1, <3>1, OutMeant DEF IInv, BehindOK, Working, p
  <2> QED
    BY <2>2, <2>3, <2>5, <2>6
<1>10. CASE k > m
  <2> DEFINE j == k - m
  <2>1. j \in 1..more /\ k = m + j
    BY <1>4, <1>10
  <2> HIDE DEF j
  <2>2. out'[k] = InTurn[j] /\ InTurn[j] \in Answer
    BY <1>5, <2>1
  <2>3. /\ InTurn[j].collector = collector
        /\ window < Len(windows) => InTurn[j].bucket < Edge(window + 1)
    BY <2>2, AnswerIsRight
  <2>4. window + 1 <= Len(windows)
    BY <1>3, <1>8, <2>2, <2>3
  <2> QED
    BY <1>2, <1>8, <2>2, <2>3, <2>4
<1> QED
  BY <1>4, <1>9, <1>10

\* A document of the range that is asked about is in the answer, unless the
\* answer has too many groups.
LEMMA AnswerHasAll ==
  ASSUME TypeOK, IInv, pc = "collector", ~TooManyGroups(Asked),
         NEW d \in docs[collector], InWindow(d[1], windows[window])
  PROVE  \E k \in DOMAIN InTurn : IsRecordOf(InTurn[k], collector, d)
<1> DEFINE g == Label(d)
<1>1. /\ IsAnswer(Answer, collector, Asked, Lo, Hi, request.interval,
                  request.grouped)
      /\ \A t \in Int : t \in Lo..Hi <=> InWindow(t, windows[window])
      /\ \A r \in Answer : \E k \in DOMAIN InTurn : InTurn[k] = r
  BY AnswerInTurn
<1>2. d \in Asked
  BY DEF Asked, Found
<1>3. d[1] \in Lo..Hi
  <2>1. IsDocs(docs[collector])
    BY TypesAreSane DEF TypeOK, Sane
  <2> QED
    BY <1>1, <2>1 DEF IsDocs
<1>4. g \in Labels(Asked, request.grouped)
  <2>1. CASE request.grouped
    <3>1. TopGroups(Asked) = GroupsOf(Asked)
      BY <2>1 DEF TooManyGroups, Overflows
    <3> QED
      BY <1>2, <2>1, <3>1 DEF Labels, Label, GroupsOf
  <2>2. CASE ~request.grouped
    BY <2>2 DEF Labels, Label
  <2> QED
    BY <2>1, <2>2
<1> HIDE DEF g
<1>5. PICK r \in Answer : r.group = g /\ r.bucket = Bucket(d[1], request.interval)
  BY <1>1, <1>3, <1>4 DEF IsAnswer
<1>6. r.collector = collector
  BY <1>1 DEF IsAnswer
<1>7. PICK k \in DOMAIN InTurn : InTurn[k] = r
  BY <1>1
<1> QED
  BY <1>5, <1>6, <1>7 DEF IsRecordOf, g

\* The sent documents after such a step: those of before, and all the
\* collector has in this window.
LEMMA AddsSend ==
  ASSUME TypeOK, IInv, pc = "collector", NEW more, Adds(more), Moved,
         more = Len(InTurn), ~TooManyGroups(Asked), ~truncated,
         UNCHANGED <<inputVars, windows>>
  PROVE  SentOK'
<1> DEFINE m == Len(out)
           p(c) == PlaceOf(pc, window, collector, c)
           q(c) == PlaceOf(pc', window', collector', c)
<1>1. request' = request /\ windows' = windows /\ docs' = docs
  BY DEF inputVars
<1>2. SUFFICES ASSUME NEW c \in 1..Collectors, NEW d \in docs[c],
                      NEW i \in DOMAIN windows, i < q(c),
                      InWindow(d[1], windows[i])
               PROVE  \E k \in DOMAIN out' : IsRecordOf(out'[k], c, d)
  <2>1. ASSUME NEW r, NEW c, NEW d, IsRecordOf(r, c, d)
        PROVE  /\ r.collector = c
               /\ r.group = IF request'.grouped THEN d[2] ELSE Ungrouped
               /\ r.bucket = Bucket(d[1], request'.interval)
    BY <1>1, <2>1 DEF IsRecordOf, Label
  <2> HIDE DEF q
  <2>2. \A c \in 1..Collectors : \A d \in docs[c] : \A i \in DOMAIN windows :
          i < q(c) /\ InWindow(d[1], windows[i]) =>
            \E k \in DOMAIN out' : IsRecordOf(out'[k], c, d)
    BY <1>2
  <2> QED
    BY <1>1, <2>1, <2>2 DEF SentOK, NextFor, PlaceOf, q, IsRecordOf, Label
<1>3. /\ m \in Nat /\ DOMAIN out = 1..m /\ DOMAIN out' = 1..(m + Len(InTurn))
      /\ \A k \in 1..m : out'[k] = out[k]
      /\ \A k \in 1..Len(InTurn) : out'[m + k] = InTurn[k]
      /\ Len(InTurn) \in Nat
  BY DEF Adds
<1>4. window \in 1..Len(windows) /\ Len(windows) \in Nat /\ i \in Nat
      /\ collector \in 1..Collectors
  <2>1. WindowsSpan /\ window \in 1..Len(windows)
    BY AnswerInTurn
  <2> QED
    BY <2>1 DEF WindowsSpan, TypeOK
<1>5. p(collector) = window
  BY <1>4 DEF PlaceOf
<1>6. q(c) = IF c = collector THEN window + 1 ELSE p(c)
  BY DEF Moved
<1>7. CASE i < p(c)
  <2>1. i < NextFor(c)
    BY <1>7 DEF NextFor, PlaceOf
  <2>2. PICK k \in DOMAIN out : IsRecordOf(out[k], c, d)
    BY <1>2, <2>1 DEF IInv, SentOK, Working
  <2>3. k \in DOMAIN out' /\ out'[k] = out[k]
    BY <1>3
  <2> QED
    BY <2>2, <2>3
<1>8. CASE ~(i < p(c))
  <2>1. c = collector /\ i = window
    <3> HIDE DEF p, q
    <3> QED
      BY <1>2, <1>4, <1>5, <1>6, <1>8
  <2>2. d \in Asked
    BY <1>2, <2>1 DEF Asked, Found
  <2>3. PICK k \in DOMAIN InTurn : IsRecordOf(InTurn[k], c, d)
    BY <1>2, <2>1, <2>2, AnswerHasAll
  <2>4. DOMAIN InTurn = 1..Len(InTurn)
    <3>1. InTurn \in Seq(Answer)
      BY AnswerInTurn
    <3> QED
      BY <3>1
  <2>5. m + k \in DOMAIN out' /\ out'[m + k] = InTurn[k]
    BY <1>3, <2>4
  <2> QED
    BY <2>3, <2>5
<1> QED
  BY <1>7, <1>8

\* A window that is passed over has no document of the collector.
LEMMA PassingSends ==
  ASSUME TypeOK, IInv, Passing
  PROVE  SentOK'
<1> DEFINE p(c) == PlaceOf(pc, window, collector, c)
           q(c) == PlaceOf(pc', window', collector', c)
<1>1. request' = request /\ windows' = windows /\ docs' = docs /\ out' = out
      /\ ~truncated /\ pc = "collector" /\ Asked = {} /\ Moved
  BY SkipMoves DEF Passing, inputVars, IInv, PlaceOK
<1>2. window \in 1..Len(windows) /\ Len(windows) \in Nat
      /\ collector \in 1..Collectors /\ DOMAIN windows = 1..Len(windows)
  <2>1. WindowsSpan /\ window \in 1..Len(windows)
    BY <1>1, AnswerInTurn
  <2> QED
    BY <2>1 DEF WindowsSpan, TypeOK
<1>3. ASSUME NEW c \in 1..Collectors, NEW d \in docs[c],
             NEW i \in DOMAIN windows, i < q(c), InWindow(d[1], windows[i])
      PROVE  \E k \in DOMAIN out : IsRecordOf(out[k], c, d)
  <2>1. p(collector) = window
    BY <1>2 DEF PlaceOf
  <2>2. q(c) = IF c = collector THEN window + 1 ELSE p(c)
    BY <1>1 DEF Moved
  <2>3. CASE i < p(c)
    <3>1. i < NextFor(c)
      BY <2>3 DEF NextFor, PlaceOf
    <3> QED
      BY <1>1, <1>3, <3>1 DEF IInv, SentOK, Working
  <2>4. CASE ~(i < p(c))
    <3>1. c = collector /\ i = window
      <4> HIDE DEF p, q
      <4> QED
        BY <1>2, <1>3, <2>1, <2>2, <2>4
    <3>2. d \in Asked
      BY <1>3, <3>1 DEF Asked, Found
    <3> QED
      BY <1>1, <3>2
  <2> QED
    BY <2>3, <2>4
<1> HIDE DEF q
<1> QED
  BY <1>1, <1>3 DEF SentOK, NextFor, PlaceOf, q, IsRecordOf, Label

\* The parts about the plan and the loops, in every step.
LEMMA PlaceStep ==
  ASSUME TypeOK, IInv, Next
  PROVE  PlanOK' /\ PlaceOK' /\ BudgetOK'
<1> USE DEF IInv
<1>1. CASE Plan
  <2>1. request' = request /\ UNCHANGED <<window, out, truncated>>
        /\ pc = "plan" /\ pc' \in {"error", "meta"}
    BY <1>1 DEF Plan, inputVars
  <2>2. PerWindow' = PerWindow
    BY <2>1 DEF PerWindow
  <2>3. CASE pc' = "error"
    <3>1. windows' = windows
      BY <1>1, <2>3 DEF Plan
    <3> QED
      BY <2>1, <2>2, <2>3, <3>1 DEF PlanOK, PlaceOK, BudgetOK
  <2>4. CASE pc' = "meta"
    <3> DEFINE w == planTimeWindows(request.from, request.to, request.interval,
                                    PerWindow)
               count == windowCount(request.from, request.to, request.interval,
                                    PerWindow)
    <3>1. /\ windows' = w /\ ~(count > MaxWindows)
          /\ ~NoPlan(request.from, request.to, request.interval, PerWindow,
                     MaxWindows)
      BY <1>1, <2>4 DEF Plan
    <3> HIDE DEF w, count
    <3>2. IsPlan(w, count, request.from, request.to, request.interval, PerWindow)
      BY <3>1, PlannedWindows, TypesAreSane DEF Sane, NoPlan, w, count
    <3>3. DOMAIN w = 1..count /\ count \in Nat \ {0} /\ MaxWindows \in Nat
      BY <3>2, ParametersAssumption DEF IsPlan
    <3>4. w \in Seq([from : Int, to : Int, inclusive : BOOLEAN])
      BY <1>1, <3>1, PlanType
    <3>5. Len(w) = count
      BY <3>3, <3>4
    <3>6. w # <<>> /\ Len(w) <= MaxWindows
      BY <3>1, <3>3, <3>4, <3>5
    <3>7. PlanOK'
      BY <2>1, <2>2, <3>1, <3>6 DEF PlanOK, w
    <3> QED
      BY <2>1, <3>7 DEF PlaceOK, BudgetOK
  <2> QED
    BY <2>1, <2>3, <2>4
<1>2. CASE EmitMeta \/ StartWindow \/ Done \/ Fail \/ Terminated \/ Refusing
  <2>1. UNCHANGED <<request, windows, window, out, truncated>>
    BY <1>2 DEF EmitMeta, StartWindow, Done, Fail, Terminated, Refusing, vars,
                inputVars
  <2>2. PerWindow' = PerWindow
    BY <2>1 DEF PerWindow
  <2>3. /\ pc' \in {"meta", "window", "collector", "done"} =>
             pc \in {"meta", "window", "collector", "done"}
        /\ pc' \notin {"plan", "meta"}
        /\ pc' = "collector" => window <= Len(windows)
    BY <1>2 DEF EmitMeta, StartWindow, Done, Fail, Terminated, Refusing, vars
  <2>4. truncated => pc' \in {"window", "done", "error"}
    <3>1. CASE EmitMeta \/ StartWindow \/ Refusing \/ Fail
      <4>1. /\ pc \in {"plan", "meta"} => ~truncated
            /\ truncated => /\ pc \in {"window", "done", "error"}
                            /\ Len(windows) < window
        BY DEF PlaceOK
      <4>2. ~(Len(windows) < window /\ window <= Len(windows))
        BY DEF TypeOK
      <4>3. CASE EmitMeta
        BY <4>1, <4>3 DEF EmitMeta
      <4>4. CASE StartWindow
        BY <4>1, <4>2, <4>4 DEF StartWindow
      <4>5. CASE Refusing \/ Fail
        BY <4>5 DEF Fail, Refusing
      <4> QED
        BY <3>1, <4>3, <4>4, <4>5
    <3>2. CASE Done \/ Terminated
      BY <3>2 DEF Done, Terminated, vars
    <3> QED
      BY <1>2, <3>1, <3>2
  <2>5. PlanOK'
    BY <2>1, <2>2, <2>3 DEF PlanOK
  <2>6. PlaceOK'
    BY <2>1, <2>3, <2>4 DEF PlaceOK
  <2> QED
    BY <2>1, <2>5, <2>6 DEF BudgetOK
<1>3. CASE Passing
  <2>1. /\ UNCHANGED <<request, windows, out, truncated>> /\ Moved
        /\ pc = "collector" /\ window <= Len(windows)
    BY <1>3, SkipMoves DEF Passing, inputVars
  <2>2. PerWindow' = PerWindow
    BY <2>1 DEF PerWindow
  <2> QED
    BY <2>1, <2>2 DEF PlanOK, PlaceOK, BudgetOK, Moved
<1>4. CASE Taking
  <2>1. /\ UNCHANGED <<request, windows>>
        /\ pc = "collector" /\ window <= Len(windows)
    BY <1>4 DEF Taking, inputVars
  <2>2. PerWindow' = PerWindow
    BY <2>1 DEF PerWindow
  <2>3. request.limit \in Nat /\ Len(windows) \in Nat
    BY TypesAreSane DEF Sane, TypeOK
  <2>4. CASE Ends /\ Len(out') = request.limit
    BY <2>1, <2>2, <2>3, <2>4 DEF PlanOK, PlaceOK, BudgetOK, Ends
  <2>5. CASE ~truncated' /\ Moved /\ Len(out') <= request.limit
    BY <2>1, <2>2, <2>5 DEF PlanOK, PlaceOK, BudgetOK, Moved
  <2> QED
    BY <1>4, <2>4, <2>5, TakingMoves DEF Ends
<1> QED
  BY <1>1, <1>2, <1>3, <1>4, CollectKinds DEF Next

\* The same of the next state.
LEMMA PrimedOutMeant == (OutOK <=> ValuesOK /\ BehindOK)'
BY OutMeant, PTL

\* What a collector has been sent, and in which order, in every step.
LEMMA RecordsStep ==
  ASSUME TypeOK, IInv, Next
  PROVE  OutOK' /\ SentOK' /\ BucketsOnce'
<1>1. CASE Taking
  <2> DEFINE more == Len(out') - Len(out)
  <2>1. /\ pc = "collector" /\ UNCHANGED <<inputVars, windows>>
        /\ ~TooManyGroups(Asked) /\ ~truncated
    BY <1>1 DEF Taking, IInv, PlaceOK
  <2>2. Adds(more)
    BY <1>1, TakingAppends DEF Adds
  <2>3. Moved \/ Ends
    BY <1>1, TakingMoves DEF Ends
  <2>4. BucketsOnce' /\ ValuesOK' /\ BehindOK'
    <3> HIDE DEF more
    <3> QED
      BY <2>1, <2>2, <2>3, AddsKeepOrder, AddsKeepValues, AddsStayBehind
  <2>5. CASE truncated'
    BY <2>4, <2>5, PrimedOutMeant DEF SentOK
  <2>6. CASE ~truncated'
    <3>1. Moved /\ more = Len(InTurn)
      <4>1. Moved /\ Len(out') = Len(out) + Len(InTurn)
        BY <1>1, <2>6, TakingMoves
      <4>2. Len(out) \in Nat /\ Len(InTurn) \in Nat
        BY <1>1, TakingAppends
      <4> QED
        BY <4>1, <4>2
    <3> HIDE DEF more
    <3>2. SentOK'
      BY <2>1, <2>2, <3>1, AddsSend
    <3> QED
      BY <2>4, <3>2, PrimedOutMeant
  <2> QED
    BY <2>5, <2>6
<1>2. CASE Passing
  <2>1. /\ pc = "collector" /\ UNCHANGED <<inputVars, windows>> /\ out' = out
        /\ Moved
    BY <1>2, SkipMoves DEF Passing
  <2>2. Adds(0)
    <3>1. InTurn \in Seq(Answer)
      BY <2>1, AnswerInTurn
    <3> QED
      BY <2>1, <3>1 DEF Adds, TypeOK
  <2>3. BucketsOnce' /\ ValuesOK' /\ BehindOK'
    BY <2>1, <2>2, AddsKeepOrder, AddsKeepValues, AddsStayBehind
  <2> QED
    BY <1>2, <2>3, PassingSends, PrimedOutMeant
<1>3. CASE Plan \/ EmitMeta \/ StartWindow \/ Done \/ Fail \/ Terminated
           \/ Refusing
  <2>1. UNCHANGED <<request, docs, window, out, truncated>>
    BY <1>3 DEF Plan, EmitMeta, StartWindow, Done, Fail, Terminated, Refusing,
                vars, inputVars
  <2>2. BucketsOnce'
    BY <2>1 DEF IInv, BucketsOnce
  <2>3. ValuesOK'
    BY <2>1, OutMeant DEF IInv, ValuesOK
  <2>4. CASE pc' \notin {"window", "collector"}
    <3>1. ~Working'
      BY <2>4 DEF Working
    <3> QED
      BY <2>2, <2>3, <3>1, PrimedOutMeant DEF SentOK, BehindOK
  <2>5. CASE EmitMeta
    <3>1. /\ windows' = windows /\ pc' = "window" /\ window' = 1 /\ out' = <<>>
          /\ DOMAIN windows = 1..Len(windows)
      BY <2>1, <2>5 DEF EmitMeta, IInv, PlaceOK, TypeOK
    <3>2. SentOK'
      BY <3>1 DEF SentOK, NextFor
    <3>3. BehindOK'
      BY <3>1 DEF BehindOK
    <3> QED
      BY <2>2, <2>3, <3>2, <3>3, PrimedOutMeant
  <2>6. CASE (StartWindow \/ Terminated) /\ pc' \in {"window", "collector"}
    <3>1. /\ StartWindow /\ windows' = windows /\ pc = "window"
          /\ pc' = "collector" /\ collector' = 1
      BY <2>6 DEF StartWindow, Terminated, vars
    <3>2. \A c \in 1..Collectors :
            /\ PlaceOf(pc', window', collector', c) = window
            /\ PlaceOf(pc, window, collector, c) = window
      BY <2>1, <3>1 DEF PlaceOf
    <3>3. \A k \in DOMAIN out : out[k].collector \in 1..Collectors
      <4> TAKE k \in DOMAIN out
      <4>1. DOMAIN out = 1..Len(out) /\ out \in Seq(RecordType)
        BY DEF TypeOK
      <4>2. out[k] \in RecordType
        BY <4>1, ElementOfSeq
      <4> QED
        BY <4>2 DEF RecordType
    <3>4. BehindOK
      BY OutMeant DEF IInv
    <3>5. BehindOK'
      BY <2>1, <3>1, <3>2, <3>3, <3>4 DEF BehindOK, Working, Edge
    <3>6. SentOK'
      BY <2>1, <3>1, <3>2
         DEF IInv, SentOK, Working, NextFor, PlaceOf, IsRecordOf, Label
    <3> QED
      BY <2>2, <2>3, <3>5, <3>6, PrimedOutMeant
  <2>7. pc' \in {"window", "collector"} => EmitMeta \/ StartWindow \/ Terminated
    BY <1>3 DEF Plan, Done, Fail, Refusing
  <2> QED
    BY <2>4, <2>5, <2>6, <2>7
<1> QED
  BY <1>1, <1>2, <1>3, CollectKinds DEF Next

\* A stream that ends has gone through all windows, which hold all times of
\* the range.
LEMMA NothingLostStep ==
  ASSUME TypeOK, IInv, Next
  PROVE  NothingLost'
<1>1. CASE Done
  <2>1. /\ pc = "window" /\ window > Len(windows) /\ pc' = "done"
        /\ UNCHANGED <<request, docs, out, truncated>>
    BY <1>1 DEF Done, inputVars
  <2>2. CASE truncated
    BY <2>1, <2>2 DEF IInv, BudgetOK, NothingLost
  <2>3. CASE ~truncated
    <3>1. ASSUME NEW c \in 1..Collectors, NEW d \in InRange(c)
          PROVE  \E k \in DOMAIN out : IsRecordOf(out[k], c, d)
      <4>1. WindowsSpan /\ windows = planTimeWindows(request.from, request.to,
                                       request.interval, PerWindow)
        BY <2>1, WindowsArePlanned DEF IInv, PlanOK
      <4>2. d \in docs[c] /\ d[1] \in request.from..request.to
        <5>1. IsDocs(docs[c])
          BY TypesAreSane DEF Sane
        <5> QED
          BY <3>1, <5>1, TypesAreSane DEF InRange, IsDocs, Sane
      <4>3. PICK i \in DOMAIN windows : InWindow(d[1], windows[i])
        BY <4>1, <4>2, WindowsCover, TypesAreSane DEF Sane
      <4>4. i < NextFor(c)
        <5>1. i \in 1..Len(windows) /\ Len(windows) \in Nat /\ window \in Nat
          BY <4>1, <4>3 DEF WindowsSpan, TypeOK
        <5> QED
          BY <2>1, <5>1 DEF NextFor
      <4> QED
        BY <2>1, <2>3, <4>2, <4>3, <4>4 DEF IInv, SentOK, Working
    <3> QED
      BY <2>1, <2>3, <3>1 DEF NothingLost, InRange, IsRecordOf, Label
  <2> QED
    BY <2>2, <2>3
<1>2. CASE ~Done
  <2>1. pc' # "done" \/ UNCHANGED vars
    BY <1>2, CollectKinds, SkipMoves, TakingMoves
       DEF Next, Plan, EmitMeta, StartWindow, Fail, Terminated, Passing,
           Refusing, Moved
  <2>2. CASE pc' # "done"
    BY <2>2 DEF NothingLost
  <2>3. CASE UNCHANGED vars
    BY <2>3 DEF vars, NothingLost, IInv, InRange, IsRecordOf, Label
  <2> QED
    BY <2>1, <2>2, <2>3
<1> QED
  BY <1>1, <1>2

\* Together: the invariant of the stream is kept by its steps, and by steps
\* that leave it alone.
LEMMA StreamStep ==
  ASSUME TypeOK, IInv, Next
  PROVE  TypeOK' /\ IInv'
BY StreamTypeStep, PlaceStep, RecordsStep, NothingLostStep DEF IInv

\* A step that leaves the stream alone keeps its invariant.
LEMMA StreamStutter ==
  ASSUME TypeOK, IInv, UNCHANGED vars
  PROVE  TypeOK' /\ IInv'
<1>1. UNCHANGED <<request, docs, pc, windows, window, collector, acc, out,
                  truncated, stats>>
  BY DEF vars
<1>2. TypeOK'
  BY <1>1 DEF TypeOK
<1>3. PlanOK' /\ PlaceOK' /\ BudgetOK'
  BY <1>1 DEF IInv, PlanOK, PlaceOK, BudgetOK, PerWindow
<1>4. BucketsOnce' /\ NothingLost' /\ SentOK'
  BY <1>1 DEF IInv, BucketsOnce, NothingLost, SentOK, Working, NextFor, InRange,
              IsRecordOf, Label
<1>5. ValuesOK' /\ BehindOK'
  BY <1>1, OutMeant DEF IInv, ValuesOK, BehindOK, Working, Edge
<1> QED
  BY <1>2, <1>3, <1>4, <1>5, PrimedOutMeant DEF IInv

\* The invariant holds before anything was planned.
LEMMA StreamStart == Init => TypeOK /\ IInv
<1> SUFFICES ASSUME Init PROVE TypeOK /\ IInv
  OBVIOUS
<1>1. 1 \in 1..Collectors
  BY ParametersAssumption
<1>2. TypeOK
  <2>1. request \in [from : Froms, to : Tos, interval : Intervals,
                    limit : Budgets, grouped : BOOLEAN]
    BY DEF Init
  <2>2. <<>> \in Seq([from : Int, to : Int, inclusive : BOOLEAN])
        /\ <<>> \in Seq(RecordType)
    OBVIOUS
  <2>3. /\ docs \in [1..Collectors -> Documents] /\ pc = "plan"
        /\ windows = <<>> /\ window = 1 /\ collector = 1 /\ out = <<>>
        /\ truncated = FALSE /\ DOMAIN acc = 1..Collectors
    BY DEF Init
  <2>4. /\ window \in Nat \ {0} /\ collector \in 1..Collectors
        /\ out \in Seq(RecordType)
        /\ windows \in Seq([from : Int, to : Int, inclusive : BOOLEAN])
    BY <1>1, <2>2, <2>3
  <2> QED
    BY <2>1, <2>3, <2>4 DEF TypeOK
<1>3. PlanOK /\ PlaceOK /\ BudgetOK
  <2>1. request.limit \in Nat
    BY <1>2, TypesAreSane DEF Sane
  <2> QED
    BY <2>1 DEF Init, PlanOK, PlaceOK, BudgetOK
<1>4. OutOK /\ SentOK /\ BucketsOnce /\ NothingLost
  BY DEF Init, OutOK, SentOK, Working, BucketsOnce, NothingLost
<1> QED
  BY <1>2, <1>3, <1>4 DEF IInv

-----------------------------------------------------------------------------
(* The query beside the stream.                                            *)

\* The whole second a time is in begins at most at that time.
LEMMA WholeSeconds ==
  ASSUME NEW t \in Int
  PROVE  RFC3339(t) \in Int /\ RFC3339(t) <= t /\ RFC3339(t) = Bucket(t, Second)
<1>1. RFC3339(t) = Bucket(t, Second)
  BY DEF RFC3339, Bucket
<1>2. /\ Bucket(t, Second) = Second * (t \div Second)
      /\ Bucket(t, Second) <= t /\ t \div Second \in Int
  BY SecondAssumption, BucketOf, Division
<1>3. Second * (t \div Second) \in Int
  BY SecondAssumption, <1>2
<1> QED
  BY <1>1, <1>2, <1>3

\* The bounds of the query are times, and earlier by the cut.
LEMMA QueryBounds ==
  ASSUME Sane
  PROVE  /\ From \in Int /\ To \in Int
         /\ From <= request.from /\ To <= request.to
         /\ request.from <= request.to => From <= To
<1>1. request.from \in Int /\ request.to \in Int
  BY DEF Sane
<1>2. /\ From \in Int /\ From <= request.from /\ From = Bucket(request.from, Second)
      /\ To \in Int /\ To <= request.to /\ To = Bucket(request.to, Second)
  BY <1>1, WholeSeconds DEF From, To
<1> QED
  BY <1>1, <1>2, SecondAssumption, BucketMonotone

\* The value of a record of the query, as a function of the request and of the
\* documents, where ValueOf is that of the stream's.
MatchedOf(req, found, r) ==
  BucketValue({d \in {d \in found[r.collector] :
                         RFC3339(req.from) <= d[1] /\ d[1] <= RFC3339(req.to)} :
                 (IF req.grouped THEN d[2] ELSE Ungrouped) = r.group},
              req.interval, r.bucket)

\* MatchedValue says so.
LEMMA MatchMeant ==
  ASSUME NEW r
  PROVE  MatchedValue(r) <=> r.value = MatchedOf(request, docs, r)
BY DEF MatchedValue, MatchedOf, Matched, From, To, Label

\* What AnswersOK says, as functions of the request and of the documents.
AnswersMeant ==
  /\ \A r \in records : r.value = MatchedOf(request, docs, r)
  /\ \A c \in (1..Collectors) \ left : \A d \in Matched(c) :
       Missing(c) \/ \E r \in records : IsRecordOf(r, c, d)

\* AnswersOK says so.
LEMMA AnswerMeant == AnswersOK <=> AnswersMeant
<1>1. \A r \in records : MatchedValue(r) <=> r.value = MatchedOf(request, docs, r)
  BY MatchMeant
<1> QED
  BY <1>1 DEF AnswersOK, AnswersMeant

\* The same of the next state.
LEMMA PrimedAnswerMeant == (AnswersOK <=> AnswersMeant)'
BY AnswerMeant, PTL

\* One answer to the query: records of the matching documents, or of those of
\* the shards that answered.
LEMMA SearchAnswer ==
  ASSUME TypeOK, NEW c \in 1..Collectors, NEW ds \in SUBSET Matched(c), NEW rs,
         rs = Records(c, ds, From, To, request.interval, request.grouped)
  PROVE  /\ rs \subseteq RecordType
         /\ ds = Matched(c) =>
              /\ \A r \in rs : r.value = MatchedOf(request, docs, r)
              /\ \A d \in Matched(c) :
                   Missing(c) \/ \E r \in rs : IsRecordOf(r, c, d)
<1> DEFINE n == request.interval
<1>1. Sane /\ IsDocs(docs[c])
  BY TypesAreSane DEF Sane
<1>2. ds \in SUBSET docs[c] /\ IsDocs(ds)
  <2>1. ds \in SUBSET docs[c]
    BY DEF Matched
  <2> QED
    BY <1>1, <2>1, PartOfDocs
<1>3. IsAnswer(rs, c, ds, From, To, n, request.grouped)
  BY <1>1, <1>2, QueryBounds, RecordsAnswer DEF Sane
<1>4. ASSUME ds = Matched(c), NEW r \in rs
      PROVE  r.value = MatchedOf(request, docs, r)
  <2> DEFINE A == Labelled(ds, r.group, request.grouped)
             B == {d \in {d \in docs[c] : From <= d[1] /\ d[1] <= To} :
                     (IF request.grouped THEN d[2] ELSE Ungrouped) = r.group}
  <2>1. /\ r.collector = c /\ r.group \in Labels(ds, request.grouped)
        /\ r.value = BucketValue(A, n, r.bucket)
    BY <1>3 DEF IsAnswer
  <2>2. A = B
    <3>1. A = IF request.grouped THEN {d \in ds : d[2] = r.group} ELSE ds
      BY DEF Labelled, Of
    <3>2. ~request.grouped => r.group = Ungrouped
      BY <2>1 DEF Labels
    <3>3. ds = {d \in docs[c] : From <= d[1] /\ d[1] <= To}
      BY <1>4 DEF Matched
    <3> HIDE DEF A
    <3> QED
      BY <3>1, <3>2, <3>3
  <2>3. MatchedOf(request, docs, r) = BucketValue(B, n, r.bucket)
    BY <2>1 DEF MatchedOf, From, To
  <2> HIDE DEF A, B
  <2> QED
    BY <2>1, <2>2, <2>3
<1>5. ASSUME ds = Matched(c), NEW d \in Matched(c), ~Missing(c)
      PROVE  \E r \in rs : IsRecordOf(r, c, d)
  <2>1. d[1] \in From..To
    <3>1. d \in docs[c] /\ From <= d[1] /\ d[1] <= To
      BY DEF Matched
    <3> QED
      BY <1>1, <3>1, QueryBounds DEF Sane, IsDocs
  <2>2. Label(d) \in Labels(ds, request.grouped)
    <3>1. CASE request.grouped
      <4>1. TopGroups(ds) = GroupsOf(ds)
        BY <1>5, <3>1 DEF Missing, Overflows
      <4> QED
        BY <1>5, <3>1, <4>1 DEF Labels, Label, GroupsOf
    <3>2. CASE ~request.grouped
      BY <3>2 DEF Labels, Label
    <3> QED
      BY <3>1, <3>2
  <2>3. PICK r \in rs : r.group = Label(d) /\ r.bucket = Bucket(d[1], n)
    BY <1>3, <2>1, <2>2 DEF IsAnswer
  <2>4. r.collector = c
    BY <1>3 DEF IsAnswer
  <2> QED
    BY <2>3, <2>4 DEF IsRecordOf
<1>6. rs \subseteq RecordType
  BY <1>3 DEF IsAnswer
<1> QED
  BY <1>4, <1>5, <1>6

\* The invariant of the query is kept by its own steps.
LEMMA QueryKeeps ==
  ASSUME TypeOK, QueryTypeOK, QueryInv, QueryStep
  PROVE  QueryTypeOK' /\ QueryInv'
<1>1. UNCHANGED <<request, docs>>
  BY DEF QueryStep, vars
<1>2. /\ (InvalidRange \/ TooManyBuckets)' <=> InvalidRange \/ TooManyBuckets
      /\ \A c \in 1..Collectors : Matched(c)' = Matched(c)
      /\ \A c \in 1..Collectors : Missing(c)' <=> Missing(c)
  <2>1. \A c \in 1..Collectors : Matched(c)' = Matched(c)
    BY <1>1 DEF Matched, From, To, RFC3339
  <2> QED
    BY <1>1, <2>1 DEF InvalidRange, TooManyBuckets, DateBuckets, Missing
<1>3. CASE Validate
  <2>1. UNCHANGED <<left, partial, records, qstats>> /\ qpc = "validate"
    BY <1>3 DEF Validate
  <2>2. qpc' = IF InvalidRange \/ TooManyBuckets THEN "error" ELSE "search"
    BY <1>3 DEF Validate
  <2>3. AnswersMeant => AnswersMeant'
    BY <1>1, <1>2, <2>1 DEF AnswersMeant, IsRecordOf, Label
  <2>4. QueryInv'
    BY <1>2, <2>1, <2>2, <2>3, AnswerMeant, PrimedAnswerMeant DEF QueryInv
  <2> QED
    BY <2>1, <2>2, <2>4 DEF QueryTypeOK
<1>4. CASE SearchFails
  BY <1>4 DEF SearchFails, QueryTypeOK, QueryInv
<1>5. ASSUME NEW c \in 1..Collectors, Search(c)
      PROVE  QueryTypeOK' /\ QueryInv'
  <2> DEFINE Rs(ds) == Records(c, ds, From, To, request.interval, request.grouped)
  <2> HIDE DEF Rs
  <2>1. PICK ds \in SUBSET Matched(c) :
          /\ partial' = (partial \/ ds # Matched(c))
          /\ \/ /\ records' = records \cup Rs(ds)
                /\ DOMAIN qstats' = DOMAIN qstats \cup {c}
             \/ ds = {} /\ UNCHANGED <<records, qstats>>
    BY <1>5 DEF Search, Rs
  <2>2. /\ qpc = "search" /\ c \in left /\ left' = left \ {c}
        /\ qpc' = IF left' = {} THEN "answered" ELSE "search"
    BY <1>5 DEF Search
  <2>3. /\ Rs(ds) \subseteq RecordType
        /\ ds = Matched(c) =>
             /\ \A r \in Rs(ds) : r.value = MatchedOf(request, docs, r)
             /\ \A d \in Matched(c) :
                  Missing(c) \/ \E r \in Rs(ds) : IsRecordOf(r, c, d)
    BY SearchAnswer DEF Rs
  <2>4. DOMAIN qstats' \subseteq 1..Collectors
    BY <2>1 DEF QueryTypeOK
  <2>5. partial' \in BOOLEAN /\ (~partial' => ~partial /\ ds = Matched(c))
    BY <2>1, Zenon
  <2>6. QueryTypeOK'
    BY <2>1, <2>2, <2>3, <2>4, <2>5 DEF QueryTypeOK
  <2>7. ASSUME ~partial'
        PROVE  AnswersMeant'
    <3>1. AnswersMeant /\ ds = Matched(c)
      BY <2>2, <2>5, <2>7, AnswerMeant DEF QueryInv
    <3>2. records \subseteq records'
      BY <2>1
    <3>3. \A r \in records' : r.value = MatchedOf(request, docs, r)
      BY <2>1, <2>3, <3>1 DEF AnswersMeant
    <3>4. ASSUME NEW e \in (1..Collectors) \ left', NEW d \in Matched(e),
                 ~Missing(e)
          PROVE  \E r \in records' : IsRecordOf(r, e, d)
      <4>1. CASE e \in left
        <5>1. e = c
          BY <2>2, <4>1
        <5>2. \E r \in Rs(ds) : IsRecordOf(r, e, d)
          BY <2>3, <3>1, <3>4, <5>1
        <5>3. records' = records \cup Rs(ds)
          BY <2>1, <3>1, <3>4, <5>1
        <5> QED
          BY <5>2, <5>3
      <4>2. CASE e \notin left
        <5>1. \E r \in records : IsRecordOf(r, e, d)
          BY <3>1, <3>4, <4>2 DEF AnswersMeant
        <5> QED
          BY <3>2, <5>1
      <4> QED
        BY <4>1, <4>2
    <3> QED
      BY <1>1, <1>2, <3>3, <3>4 DEF AnswersMeant, IsRecordOf, Label
  <2>8. QueryInv'
    BY <1>2, <2>2, <2>7, PrimedAnswerMeant DEF QueryInv
  <2> QED
    BY <2>6, <2>8
<1> QED
  BY <1>3, <1>4, <1>5 DEF QueryStep

\* Nor do the stream's steps disturb it, which leave the query, the request
\* and the documents alone.
LEMMA QueryStutter ==
  ASSUME TypeOK, QueryTypeOK, QueryInv, UNCHANGED <<inputVars, queryVars>>
  PROVE  QueryTypeOK' /\ QueryInv'
<1>1. UNCHANGED <<request, docs, qpc, left, partial, records, qstats>>
  BY DEF inputVars, queryVars
<1>2. /\ (InvalidRange \/ TooManyBuckets)' <=> InvalidRange \/ TooManyBuckets
      /\ \A c \in 1..Collectors : Matched(c)' = Matched(c)
      /\ \A c \in 1..Collectors : Missing(c)' <=> Missing(c)
  <2>1. \A c \in 1..Collectors : Matched(c)' = Matched(c)
    BY <1>1 DEF Matched, From, To, RFC3339
  <2> QED
    BY <1>1, <2>1 DEF InvalidRange, TooManyBuckets, DateBuckets, Missing
<1>3. AnswersMeant => AnswersMeant'
  BY <1>1, <1>2 DEF AnswersMeant, IsRecordOf, Label
<1>4. QueryInv'
  BY <1>1, <1>2, <1>3, AnswerMeant, PrimedAnswerMeant DEF QueryInv
<1> QED
  BY <1>1, <1>4 DEF QueryTypeOK

\* The request and the documents stay what they are.
LEMMA StreamLeavesInputs == Next => UNCHANGED inputVars
BY DEF Next, Plan, EmitMeta, StartWindow, Collect, Done, Fail, Terminated, vars,
       inputVars

AllInv == TypeOK /\ QueryTypeOK /\ IInv /\ QueryInv

\* The types and both invariants hold whatever the two endpoints do.
THEOREM BothInvariant == BothSpec => []AllInv
<1>1. BothInit => AllInv
  <2> SUFFICES ASSUME BothInit PROVE AllInv
    OBVIOUS
  <2>1. TypeOK /\ IInv
    BY StreamStart DEF BothInit
  <2>2. QueryTypeOK /\ QueryInv
    <3>1. DOMAIN <<>> = {}
      OBVIOUS
    <3>2. QueryTypeOK
      BY <3>1 DEF BothInit, QueryInit, QueryTypeOK
    <3> QED
      BY <3>2 DEF BothInit, QueryInit, QueryInv, AnswersOK
  <2> QED
    BY <2>1, <2>2 DEF AllInv
<1>2. AllInv /\ [BothNext]_bothVars => AllInv'
  <2> SUFFICES ASSUME AllInv, [BothNext]_bothVars PROVE AllInv'
    OBVIOUS
  <2> USE DEF AllInv
  <2>1. CASE Next /\ UNCHANGED queryVars
    <3>1. TypeOK' /\ IInv'
      BY <2>1, StreamStep
    <3>2. QueryTypeOK' /\ QueryInv'
      BY <2>1, StreamLeavesInputs, QueryStutter
    <3> QED
      BY <3>1, <3>2
  <2>2. CASE QueryStep
    <3>1. UNCHANGED vars
      BY <2>2 DEF QueryStep
    <3> QED
      BY <2>2, <3>1, StreamStutter, QueryKeeps
  <2>3. CASE UNCHANGED bothVars
    <3>1. UNCHANGED vars /\ UNCHANGED <<inputVars, queryVars>>
      BY <2>3 DEF bothVars, vars, inputVars
    <3> QED
      BY <3>1, StreamStutter, QueryStutter
  <2> QED
    BY <2>1, <2>2, <2>3 DEF BothNext, QueryOver, Next
<1> QED
  BY <1>1, <1>2, PTL DEF BothSpec

\* Every value is of its type: windows are intervals of whole times, and the
\* records of both endpoints have a group, a bucket and a value.
THEOREM TypeCorrect == BothSpec => [](TypeOK /\ QueryTypeOK)
<1>1. AllInv => TypeOK /\ QueryTypeOK
  BY DEF AllInv
<1> QED
  BY <1>1, BothInvariant, PTL

\* No bucket is split between windows or emitted twice, for any alignment of
\* the range, any interval and any number of buckets per window.
THEOREM AlwaysBucketsOnce == BothSpec => []BucketsOnce
<1>1. AllInv => BucketsOnce
  BY DEF AllInv, IInv
<1> QED
  BY <1>1, BothInvariant, PTL

\* A stream that is not truncated has emitted the record of every document.
THEOREM AlwaysNothingLost == BothSpec => []NothingLost
<1>1. AllInv => NothingLost
  BY DEF AllInv, IInv
<1> QED
  BY <1>1, BothInvariant, PTL

\* The buckets of the times from u to v, counted from the bucket of u.
LEMMA BucketsOfTimes ==
  ASSUME NEW n \in Nat \ {0}, NEW q \in Int, NEW m \in Nat, NEW T \in SUBSET Int,
         \A t \in T : n * q <= t /\ t < n * (q + m)
  PROVE  LET asked == Cardinality({Bucket(t, n) : t \in T})
         IN asked \in Nat /\ asked <= m
<1> DEFINE B == {Bucket(t, n) : t \in T}
<1>1. ASSUME NEW x \in B
      PROVE  \E p \in Int : x = n * p /\ q <= p /\ p < q + m
  <2>1. PICK t \in T : x = Bucket(t, n)
    OBVIOUS
  <2> DEFINE p == t \div n
  <2>2. p \in Int /\ x = n * p /\ n * p <= t /\ t < n * p + n
    BY <2>1, BucketOf, Division
  <2> HIDE DEF p
  <2>3. n * q <= t /\ t < n * (q + m) /\ t \in Int
    OBVIOUS
  <2>4. n * p + n = n * (p + 1) /\ n * p \in Int
    BY <2>2
  <2>5. n * q < n * (p + 1) /\ n * p < n * (q + m)
    BY <2>2, <2>3, <2>4
  <2>6. q < p + 1 /\ p < q + m
    <3>1. \A a, b \in Int : n * a < n * b => a < b
      OBVIOUS
    <3>2. p + 1 \in Int /\ q + m \in Int
      BY <2>2
    <3> QED
      BY <2>2, <2>5, <3>1, <3>2
  <2> QED
    BY <2>2, <2>6
<1> HIDE DEF B
<1>2. Cardinality(B) \in Nat /\ Cardinality(B) <= m
  BY <1>1, BucketsBetween
<1> QED
  BY <1>2 DEF B

\* What a number of date buckets costs: that many times the cost of one.
LEMMA EstimateOf ==
  ASSUME NEW x \in Nat, NEW grouped \in BOOLEAN
  PROVE  estimateBuckets(x, Collectors, grouped)
           = x * estimateBuckets(1, Collectors, grouped)
<1> DEFINE g == IF grouped THEN GroupSize ELSE 1
<1>1. g \in Nat /\ Collectors \in Nat
  BY GroupSizeAssumption, ParametersAssumption
<1>2. \A y, z \in Nat : x * y * (1 + z) = x * (1 * y * (1 + z))
  OBVIOUS
<1> HIDE DEF g
<1>3. x * g * (1 + Collectors) = x * (1 * g * (1 + Collectors))
  BY <1>1, <1>2
<1> QED
  BY <1>3 DEF estimateBuckets, g

\* No search of a stream asks Elasticsearch for more buckets than it allows,
\* unless for a single one, and the plan has no more windows than allowed:
\* for every limit, number of collectors and size of the terms aggregation.
THEOREM AlwaysWithinESLimit == BothSpec => []WithinESLimit
<1>1. AllInv => WithinESLimit
  <2> SUFFICES ASSUME AllInv PROVE WithinESLimit
    OBVIOUS
  <2>1. TypeOK /\ PlanOK
    BY DEF AllInv, IInv
  <2>2. CASE windows = <<>>
    BY <2>2, ParametersAssumption DEF WithinESLimit
  <2>3. CASE windows # <<>>
    <3>1. WindowsSpan /\ Len(windows) <= MaxWindows
      BY <2>1, <2>3, WindowsArePlanned DEF PlanOK
    <3>2. Sane
      BY <2>1, TypesAreSane
    <3> DEFINE n == request.interval
               unit == estimateBuckets(1, Collectors, request.grouped)
    <3>3. unit \in Nat \ {0} /\ PerWindow \in Nat \ {0}
          /\ (PerWindow = 1 \/ PerWindow * unit <= MaxESBuckets)
          /\ MaxESBuckets \in Nat
      BY <3>2, UnitType, PerWindowFits, ParametersAssumption
         DEF Sane, PerWindow
    <3>4. ASSUME NEW i \in DOMAIN windows, NEW asked,
                 asked = Cardinality({Bucket(t, n) : t \in
                           {x \in windows[i].from..windows[i].to :
                              InWindow(x, windows[i])}})
          PROVE  \/ estimateBuckets(asked, Collectors, request.grouped)
                      <= MaxESBuckets
                 \/ asked <= 1
      <4> DEFINE w == windows[i]
                 q == Grid(request.from, n, PerWindow, i)
                 T == {x \in w.from..w.to : InWindow(x, w)}
      <4>1. Spans(w, i, request.from, request.to, n, PerWindow)
        BY <3>1 DEF WindowsSpan
      <4>2. q \in Int /\ T \in SUBSET Int
            /\ \A t \in T : n * q <= t /\ t < n * (q + PerWindow)
        <5>1. q \in Int /\ Grid(request.from, n, PerWindow, i + 1) = q + PerWindow
          BY <4>1 DEF Spans
        <5>2. \A t \in Int : InWindow(t, w) =>
                n * q <= t /\ t < n * Grid(request.from, n, PerWindow, i + 1)
          BY <4>1 DEF Spans
        <5>3. T \in SUBSET Int /\ \A t \in T : t \in Int /\ InWindow(t, w)
          OBVIOUS
        <5> HIDE DEF T, q
        <5> QED
          BY <5>1, <5>2, <5>3
      <4> HIDE DEF q, w
      <4>3. asked = Cardinality({Bucket(t, n) : t \in T})
        BY <3>4 DEF w
      <4> HIDE DEF T
      <4>4. asked \in Nat /\ asked <= PerWindow
        BY <3>2, <3>3, <4>2, <4>3, BucketsOfTimes DEF Sane
      <4>5. estimateBuckets(asked, Collectors, request.grouped) = asked * unit
        BY <3>2, <4>4, EstimateOf DEF Sane
      <4> HIDE DEF unit
      <4>6. asked * unit <= PerWindow * unit /\ asked * unit \in Int
            /\ PerWindow * unit \in Int
        BY <3>3, <4>4
      <4> QED
        BY <3>3, <4>4, <4>5, <4>6
    <3> QED
      BY <3>1, <3>4 DEF WithinESLimit
  <2> QED
    BY <2>2, <2>3
<1> QED
  BY <1>1, BothInvariant, PTL

\* The query's guard counts at most one date bucket too few, and none when
\* the range begins on a bucket's edge, but for those that begin in the part
\* of a second by which the query starts early: for every length of a second,
\* interval and number of collectors.
THEOREM AlwaysEstimateNearlyBounds == BothSpec => []EstimateNearlyBounds
<1>1. AllInv => EstimateNearlyBounds
  <2> DEFINE n == request.interval
             from == request.from
             to == request.to
             T == From..To
             asked == Cardinality({Bucket(t, n) : t \in T})
             early == (Bucket(from, n) - Bucket(From, n)) \div n
             Estimated(x) == estimateBuckets(x, Collectors, request.grouped)
  <2> SUFFICES ASSUME AllInv, qpc \in {"search", "answered"}
               PROVE  /\ Estimated(asked) <= MaxESBuckets + Estimated(1 + early)
                      /\ from % n = 0 /\ from < to =>
                           Estimated(asked) <= MaxESBuckets + Estimated(early)
    BY DEF EstimateNearlyBounds
  <2>1. Sane
    BY TypesAreSane DEF AllInv
  <2>2. from \in Int /\ to \in Int /\ n \in Nat \ {0} /\ from <= to
        /\ From \in Int /\ To \in Int /\ From <= from /\ To <= to
    <3>1. from \in Int /\ to \in Int /\ n \in Nat \ {0} /\ from <= to
      BY <2>1 DEF Sane, AllInv, QueryInv, InvalidRange
    <3> QED
      BY <2>1, <3>1, QueryBounds
  <2>3. ~(Estimated(DateBuckets) > MaxESBuckets) /\ MaxESBuckets \in Nat
    BY ParametersAssumption DEF AllInv, QueryInv, TooManyBuckets
  <2> DEFINE q == from \div n
             p == to \div n
             q0 == From \div n
             m == p - q0 + 1
  <2>4. /\ q \in Int /\ p \in Int /\ q <= p /\ n * q <= from
        /\ from < n * (q + 1) /\ n * p <= to /\ to < n * (p + 1)
        /\ from = n * q + (from % n) /\ from % n \in Int
    <3>1. q \in Int /\ p \in Int /\ q <= p
      BY <2>2, Division, DivisionMonotone
    <3>2. /\ n * q <= from /\ from < n * q + n /\ n * p <= to /\ to < n * p + n
          /\ from = n * q + (from % n) /\ from % n \in Int
      BY <2>2, BucketOf, Division
    <3> HIDE DEF q, p, n, from, to
    <3>3. n * (q + 1) = n * q + n /\ n * (p + 1) = n * p + n
      BY <2>2, <3>1
    <3> QED
      BY <3>1, <3>2, <3>3
  <2>5. /\ q0 \in Int /\ q0 <= q /\ n * q0 <= From /\ From < n * q0 + n
        /\ early = q - q0
    <3>1. q0 \in Int /\ q0 <= q
      BY <2>2, Division, DivisionMonotone
    <3>2. /\ Bucket(From, n) = n * q0 /\ Bucket(from, n) = n * q
          /\ n * q0 <= From /\ From < n * q0 + n
      BY <2>2, BucketOf
    <3> HIDE DEF q, q0, n, from, to
    <3>3. early = (n * q - n * q0) \div n
      BY <3>2
    <3>4. n * q - n * q0 = n * (q - q0) /\ q - q0 \in Int
      BY <2>2, <2>4, <3>1
    <3>5. \A x \in Int : (n * x) \div n = x
      BY <2>2
    <3>6. early = q - q0
      BY <3>3, <3>4, <3>5
    <3> QED
      BY <3>1, <3>2, <3>6
  <2> HIDE DEF q, p, q0, early
  <2>6. asked \in Nat /\ asked <= m
    <3>1. m \in Nat /\ q0 + m = p + 1
      BY <2>4, <2>5
    <3>2. T \in SUBSET Int
      BY <2>2
    <3>3. \A t \in T : n * q0 <= t /\ t < n * (q0 + m)
      <4> TAKE t \in T
      <4>1. t \in Int /\ From <= t /\ t <= to
        BY <2>2
      <4>2. n * q0 \in Int /\ n * (p + 1) \in Int
        BY <2>2, <2>4, <2>5
      <4>3. n * q0 <= t /\ t < n * (p + 1)
        <5> HIDE DEF n, from, to
        <5> QED
          BY <2>2, <2>4, <2>5, <4>1, <4>2
      <4> QED
        BY <3>1, <4>3
    <3> HIDE DEF T, m, n
    <3>4. {Bucket(t, n) : t \in T} = {Bucket(t, n) : t \in T}
      OBVIOUS
    <3> QED
      BY <2>2, <2>5, <3>1, <3>2, <3>3, BucketsOfTimes
  <2>7. /\ DateBuckets \in Nat /\ early \in Nat
        /\ asked <= DateBuckets + (1 + early)
        /\ (from % n = 0 /\ from < to => asked <= DateBuckets + early)
    <3> DEFINE e == to - from
               k == e \div n
    <3>1. e \in Nat /\ k \in Int /\ n * k <= e /\ e < n * (k + 1)
      <4>1. e \in Nat
        BY <2>2
      <4> HIDE DEF e, n
      <4>2. k \in Int /\ n * k <= e /\ e < n * k + n
        BY <2>2, <4>1, BucketOf, Division
      <4> HIDE DEF k
      <4>3. n * (k + 1) = n * k + n
        BY <2>2, <4>2
      <4> QED
        BY <4>1, <4>2, <4>3
    <3> HIDE DEF k
    <3>2. DateBuckets = IF to <= from THEN 0 ELSE k + 1
      BY <2>2 DEF DateBuckets, dateBucketCount, k
    <3> HIDE DEF n, from, to, asked
    <3>3. \A a, b \in Int : n * a < n * b => a < b
      BY <2>2
    <3>4. \A a, b \in Int : n * (a + b) = n * a + n * b /\ n * a \in Int
      BY <2>2
    <3>5. 0 <= k
      <4>1. n * 0 = 0 /\ k + 1 \in Int
        BY <2>2, <3>1
      <4>2. n * 0 < n * (k + 1)
        BY <2>2, <3>1, <3>4, <4>1
      <4> QED
        BY <3>1, <3>3, <4>1, <4>2
    <3>6. n * p < n * (q + k + 2)
      <4>1. n * p <= to /\ to < n * (q + 1) + n * (k + 1)
        <5>1. n * (q + 1) \in Int /\ n * (k + 1) \in Int /\ n * p \in Int
          BY <2>4, <3>1, <3>4
        <5> QED
          BY <2>2, <2>4, <3>1, <5>1
      <4>2. n * (q + 1) + n * (k + 1) = n * (q + k + 2)
        <5>1. (q + 1) + (k + 1) = q + k + 2 /\ q + 1 \in Int /\ k + 1 \in Int
          BY <2>4, <3>1
        <5> QED
          BY <3>4, <5>1
      <4>3. n * p \in Int /\ n * (q + k + 2) \in Int
        BY <2>4, <3>1, <3>4
      <4> QED
        BY <2>2, <4>1, <4>2, <4>3
    <3>7. p < q + k + 2
      <4>1. q + k + 2 \in Int
        BY <2>4, <3>1
      <4> QED
        BY <2>4, <3>3, <3>6, <4>1
    <3>8. ASSUME from % n = 0
          PROVE  p < q + k + 1
      <4>1. from = n * q
        <5>1. from = n * q + 0
          BY <2>4, <3>8, Zenon
        <5>2. n * q \in Int
          BY <2>4, <3>4
        <5> QED
          BY <5>1, <5>2
      <4>2. to < n * q + n * (k + 1)
        <5>1. n * q \in Int /\ n * (k + 1) \in Int
          BY <2>4, <3>1, <3>4
        <5> QED
          BY <2>2, <3>1, <4>1, <5>1
      <4>3. n * q + n * (k + 1) = n * (q + (k + 1)) /\ k + 1 \in Int
        BY <2>4, <3>1, <3>4
      <4>4. n * p < n * (q + (k + 1)) /\ q + (k + 1) \in Int
        <5>1. n * p \in Int /\ n * (q + (k + 1)) \in Int /\ q + (k + 1) \in Int
          BY <2>4, <3>1, <3>4
        <5> QED
          BY <2>2, <2>4, <4>2, <4>3, <5>1
      <4>5. p < q + (k + 1)
        BY <2>4, <3>3, <4>4
      <4> QED
        BY <2>4, <3>1, <4>5
    <3>9. to <= from => asked <= 1 + early
      <4>1. to <= from => p = q
        BY <2>2 DEF p, q
      <4> QED
        BY <2>4, <2>5, <2>6, <4>1
    <3>10. from < to => DateBuckets = k + 1
      BY <2>2, <3>2
    <3>11. to <= from => DateBuckets = 0
      BY <3>2
    <3> QED
      BY <2>2, <2>4, <2>5, <2>6, <3>1, <3>5, <3>7, <3>8, <3>9, <3>10, <3>11
  <2> DEFINE unit == Estimated(1)
  <2>8. /\ unit \in Nat /\ Estimated(asked) = asked * unit
        /\ Estimated(DateBuckets) = DateBuckets * unit
        /\ Estimated(early) = early * unit
        /\ Estimated(1 + early) = (1 + early) * unit
    <3>1. request.grouped \in BOOLEAN /\ 1 + early \in Nat
      BY <2>1, <2>7 DEF Sane
    <3> HIDE DEF asked
    <3> QED
      BY <2>6, <2>7, <3>1, UnitType, EstimateOf
  <2> HIDE DEF Estimated, asked, unit
  <2>9. ASSUME NEW x \in Nat, asked <= DateBuckets + x,
               Estimated(x) = x * unit
        PROVE  Estimated(asked) <= MaxESBuckets + Estimated(x)
    <3>1. /\ asked * unit \in Int /\ DateBuckets * unit \in Int /\ x * unit \in Int
          /\ (DateBuckets + x) * unit = DateBuckets * unit + x * unit
          /\ asked * unit <= (DateBuckets + x) * unit
      BY <2>6, <2>7, <2>8, <2>9
    <3> QED
      BY <2>3, <2>8, <2>9, <3>1
  <2> QED
    BY <2>7, <2>8, <2>9
<1> QED
  BY <1>1, BothInvariant, PTL

\* Both endpoints give a bucket the same value, and report the same buckets
\* that have documents, where neither reads an instant of the bucket that the
\* other does not: the stream, which is sent windows and stops at a budget,
\* and the query, which sends one search, cuts its range to whole seconds and
\* merges.  For every length of a second, range and interval.
THEOREM AlwaysSameAnswer == BothSpec => []SameAnswer
<1>1. AllInv => SameAnswer
  <2> DEFINE Real(rs) == {r \in rs : /\ Common(r.bucket)
                                     /\ \E d \in InRange(r.collector) \cup
                                                 Matched(r.collector) :
                                          IsRecordOf(r, r.collector, d)}
  <2> SUFFICES ASSUME AllInv, Whole, pc = "done", ~truncated
               PROVE  /\ Real(records) \subseteq {out[k] : k \in DOMAIN out}
                      /\ \A r \in Real({out[k] : k \in DOMAIN out}) :
                           r \in records \/ Missing(r.collector)
    BY DEF SameAnswer
  <2>1. /\ records \subseteq RecordType /\ out \in Seq(RecordType) /\ left = {}
        /\ AnswersMeant /\ ValuesOK /\ NothingLost
    BY AnswerMeant, OutMeant
       DEF AllInv, TypeOK, QueryTypeOK, QueryInv, IInv, Whole
  <2>2. \A k \in DOMAIN out : out[k] \in RecordType
    <3>1. DOMAIN out = 1..Len(out)
      BY <2>1
    <3> QED
      BY <2>1, <3>1, ElementOfSeq
  <2>3. Sane
    BY TypesAreSane DEF AllInv
  \* In a bucket that the cut does not reach both read the same documents.
  <2>4. ASSUME NEW c \in 1..Collectors, NEW d \in docs[c],
               Common(Bucket(d[1], request.interval))
        PROVE  d \in InRange(c) <=> d \in Matched(c)
    <3>1. /\ d[1] \in Int /\ From \in Int /\ To \in Int
          /\ request.from \in Int /\ request.to \in Int
          /\ From <= request.from /\ To <= request.to
      BY <2>3, QueryBounds DEF Sane, IsDocs
    <3>2. d[1] \notin From..(request.from - 1) /\ d[1] \notin (To + 1)..request.to
      BY <2>4 DEF Common
    <3>3. request.from <= d[1] /\ d[1] <= request.to <=> From <= d[1] /\ d[1] <= To
      BY <3>1, <3>2
    <3> QED
      BY <3>3 DEF InRange, Matched
  <2>5. ASSUME NEW r \in RecordType, Common(r.bucket)
        PROVE  ValueOf(request, docs, r) = MatchedOf(request, docs, r)
    <3> DEFINE OfGroup(ds) ==
                 {d \in ds :
                    (IF request.grouped THEN d[2] ELSE Ungrouped) = r.group}
               OfBucket(ds) ==
                 {d \in OfGroup(ds) : Bucket(d[1], request.interval) = r.bucket}
    <3>1. r.collector \in 1..Collectors
      BY DEF RecordType
    <3>2. OfBucket(InRange(r.collector)) = OfBucket(Matched(r.collector))
      <4>1. InRange(r.collector) \subseteq docs[r.collector]
            /\ Matched(r.collector) \subseteq docs[r.collector]
        BY DEF InRange, Matched
      <4>2. \A d \in docs[r.collector] :
              Bucket(d[1], request.interval) = r.bucket =>
                (d \in InRange(r.collector) <=> d \in Matched(r.collector))
        BY <2>4, <2>5, <3>1
      <4> QED
        BY <4>1, <4>2
    <3>3. /\ ValueOf(request, docs, r)
               = BucketValue(OfGroup(InRange(r.collector)), request.interval,
                             r.bucket)
          /\ MatchedOf(request, docs, r)
               = BucketValue(OfGroup(Matched(r.collector)), request.interval,
                             r.bucket)
      BY DEF ValueOf, MatchedOf, InRange, Matched, From, To
    <3>4. \A ds : BucketValue(OfGroup(ds), request.interval, r.bucket)
                   = IF OfBucket(ds) = {} THEN 0 ELSE MaxValue(OfBucket(ds))
      BY DEF BucketValue
    <3> HIDE DEF OfGroup, OfBucket
    <3> QED
      BY <3>2, <3>3, <3>4
  \* Two records of the same document with values as they should be are one.
  <2>6. ASSUME NEW r \in RecordType, NEW s \in RecordType, NEW c, NEW d,
               IsRecordOf(r, c, d), IsRecordOf(s, c, d), Common(r.bucket),
               r.value = MatchedOf(request, docs, r),
               s.value = ValueOf(request, docs, s)
        PROVE  r = s
    <3>1. r.collector = s.collector /\ r.group = s.group /\ r.bucket = s.bucket
      BY <2>6 DEF IsRecordOf
    <3>2. ValueOf(request, docs, r) = ValueOf(request, docs, s)
      BY <3>1 DEF ValueOf
    <3>3. r.value = s.value
      BY <2>5, <2>6, <3>2
    <3> QED
      BY <3>1, <3>3 DEF RecordType
  \* A document of such a record is in the range for both.
  <2>7. ASSUME NEW r \in RecordType, Common(r.bucket),
               NEW d \in InRange(r.collector) \cup Matched(r.collector),
               IsRecordOf(r, r.collector, d)
        PROVE  d \in InRange(r.collector) /\ d \in Matched(r.collector)
    <3>1. r.collector \in 1..Collectors /\ d \in docs[r.collector]
      BY DEF RecordType, InRange, Matched
    <3>2. Common(Bucket(d[1], request.interval))
      BY <2>7 DEF IsRecordOf
    <3> QED
      BY <2>4, <3>1, <3>2
  <2>8. ASSUME NEW r \in records, Common(r.bucket),
               NEW d \in InRange(r.collector) \cup Matched(r.collector),
               IsRecordOf(r, r.collector, d)
        PROVE  \E k \in DOMAIN out : out[k] = r
    <3>1. r \in RecordType /\ r.collector \in 1..Collectors
      BY <2>1 DEF RecordType
    <3>2. d \in InRange(r.collector)
      BY <2>7, <2>8, <3>1
    <3>3. PICK k \in DOMAIN out : IsRecordOf(out[k], r.collector, d)
      BY <2>1, <3>1, <3>2 DEF NothingLost
    <3>4. /\ out[k] \in RecordType /\ out[k].value = ValueOf(request, docs, out[k])
          /\ r.value = MatchedOf(request, docs, r)
      BY <2>1, <2>2 DEF AnswersMeant, ValuesOK
    <3> QED
      BY <2>6, <2>8, <3>1, <3>3, <3>4
  <2>9. ASSUME NEW k \in DOMAIN out, Common(out[k].bucket),
               NEW d \in InRange(out[k].collector) \cup Matched(out[k].collector),
               IsRecordOf(out[k], out[k].collector, d), ~Missing(out[k].collector)
        PROVE  out[k] \in records
    <3>1. out[k] \in RecordType /\ out[k].collector \in (1..Collectors) \ left
      BY <2>1, <2>2 DEF RecordType
    <3>2. d \in Matched(out[k].collector)
      BY <2>7, <2>9, <3>1
    <3>3. PICK r \in records : IsRecordOf(r, out[k].collector, d)
      BY <2>1, <2>9, <3>1, <3>2 DEF AnswersMeant
    <3>4. /\ r \in RecordType /\ r.value = MatchedOf(request, docs, r)
          /\ out[k].value = ValueOf(request, docs, out[k])
      BY <2>1 DEF AnswersMeant, ValuesOK
    <3>5. r.bucket = out[k].bucket
      BY <2>9, <3>3 DEF IsRecordOf
    <3>6. r = out[k]
      BY <2>6, <2>9, <3>1, <3>3, <3>4, <3>5
    <3> QED
      BY <3>6
  <2>10. Real(records) \subseteq {out[k] : k \in DOMAIN out}
    BY <2>8
  <2>11. \A r \in Real({out[k] : k \in DOMAIN out}) :
           r \in records \/ Missing(r.collector)
    BY <2>9
  <2> QED
    BY <2>10, <2>11
<1> QED
  BY <1>1, BothInvariant, PTL

-----------------------------------------------------------------------------
(* Sums over finite sets.                                                  *)

\* MapThenSumSet takes its elements in the order CHOOSE gives.
AnyOf(s) == CHOOSE x \in s : TRUE

\* g gives the sum of f over each set of D.
IsTotal(g, f, D) ==
  g = [s \in D |-> IF s = {} THEN 0 ELSE f[AnyOf(s)] + g[s \ {AnyOf(s)}]]

Total(f, S) == (CHOOSE g : IsTotal(g, f, SUBSET S))[S]

\* What an element of a non-empty set is good for.
LEMMA AnyOfIsIn ==
  ASSUME NEW s, s # {}
  PROVE  AnyOf(s) \in s
BY DEF AnyOf

\* One element less.
LEMMA OneLess ==
  ASSUME NEW s, IsFiniteSet(s), NEW x \in s
  PROVE  /\ IsFiniteSet(s \ {x}) /\ Cardinality(s) \in Nat
         /\ Cardinality(s \ {x}) = Cardinality(s) - 1
BY FS_RemoveElement, FS_CardinalityType

\* Among some subsets of a finite set one has no other below it.
LEMMA SmallestSubset ==
  ASSUME NEW S, IsFiniteSet(S), NEW Bad, Bad \subseteq SUBSET S, Bad # {}
  PROVE  \E T \in Bad : /\ IsFiniteSet(T)
                        /\ \A U \in Bad : U \subseteq T => U = T
<1>1. IsWellFoundedOn(StrictSubsetOrdering(S), FiniteSubsetsOf(S))
  BY FS_StrictSubsetOrderingWellFounded
<1>2. FiniteSubsetsOf(S) = SUBSET S
  BY FS_FiniteSubsetsOfFinite
<1>3. IsWellFoundedOn(StrictSubsetOrdering(S), SUBSET S)
  BY <1>1, <1>2
<1>4. PICK T \in Bad : \A U \in Bad : ~(<<U, T>> \in StrictSubsetOrdering(S))
  BY <1>3, WFMin
<1>5. ASSUME NEW U \in Bad, U \subseteq T
      PROVE  U = T
  BY <1>4, <1>5 DEF StrictSubsetOrdering
<1>6. IsFiniteSet(T)
  BY FS_Subset
<1> QED
  BY <1>5, <1>6

\* There are sums over all subsets of a finite set.
LEMMA TotalExists ==
  ASSUME NEW f, NEW S, IsFiniteSet(S)
  PROVE  \E g : IsTotal(g, f, SUBSET S)
<1> DEFINE D(n) == {s \in SUBSET S : Cardinality(s) <= n}
           Bad == {n \in Nat : ~\E g : IsTotal(g, f, D(n))}
<1>1. ASSUME NEW s \in SUBSET S
      PROVE  IsFiniteSet(s) /\ Cardinality(s) \in Nat
             /\ Cardinality(s) <= Cardinality(S)
  BY FS_Subset, FS_CardinalityType
<1>2. \E g : IsTotal(g, f, D(0))
  <2>1. \A s \in D(0) : s = {}
    BY <1>1, FS_EmptySet
  <2>2. IsTotal([s \in D(0) |-> 0], f, D(0))
    BY <2>1 DEF IsTotal
  <2> QED
    BY <2>2
<1>3. ASSUME NEW n \in Nat, NEW g, IsTotal(g, f, D(n))
      PROVE  \E h : IsTotal(h, f, D(n + 1))
  <2> DEFINE h == [s \in D(n + 1) |->
                     IF s = {} THEN 0 ELSE f[AnyOf(s)] + g[s \ {AnyOf(s)}]]
  <2>1. \A s \in D(n) : s \in D(n + 1)
    BY <1>1
  <2>2. \A s \in D(n) : h[s] = g[s]
    <3> TAKE s \in D(n)
    <3>1. h[s] = IF s = {} THEN 0 ELSE f[AnyOf(s)] + g[s \ {AnyOf(s)}]
      BY <2>1
    <3>2. g[s] = IF s = {} THEN 0 ELSE f[AnyOf(s)] + g[s \ {AnyOf(s)}]
      <4> DEFINE e(t) == IF t = {} THEN 0 ELSE f[AnyOf(t)] + g[t \ {AnyOf(t)}]
      <4>1. g = [t \in D(n) |-> e(t)]
        BY <1>3 DEF IsTotal
      <4> HIDE DEF e, D
      <4>2. g[s] = e(s)
        BY <4>1
      <4> QED
        BY <4>2 DEF e
    <3> QED
      BY <3>1, <3>2
  <2>3. \A s \in D(n + 1) : s # {} => s \ {AnyOf(s)} \in D(n)
    <3> TAKE s \in D(n + 1)
    <3> HAVE s # {}
    <3>1. AnyOf(s) \in s
      BY AnyOfIsIn
    <3>2. Cardinality(s \ {AnyOf(s)}) = Cardinality(s) - 1
      BY <1>1, <3>1, OneLess
    <3> QED
      BY <1>1, <3>2
  <2>4. \A s \in D(n + 1) :
          h[s] = IF s = {} THEN 0 ELSE f[AnyOf(s)] + h[s \ {AnyOf(s)}]
    <3> TAKE s \in D(n + 1)
    <3>1. h[s] = IF s = {} THEN 0 ELSE f[AnyOf(s)] + g[s \ {AnyOf(s)}]
      OBVIOUS
    <3>2. s # {} => h[s \ {AnyOf(s)}] = g[s \ {AnyOf(s)}]
      BY <2>2, <2>3
    <3> HIDE DEF h, D
    <3> QED
      BY <3>1, <3>2
  <2>5. h = [s \in D(n + 1) |-> h[s]]
    OBVIOUS
  <2> HIDE DEF h
  <2>6. IsTotal(h, f, D(n + 1))
    BY <2>4, <2>5 DEF IsTotal
  <2> QED
    BY <2>6
<1>4. Bad = {}
  <2> SUFFICES ASSUME Bad # {} PROVE FALSE
    OBVIOUS
  <2>1. PICK n \in Bad : \A m \in Bad : ~(<<m, n>> \in OpToRel(<, Nat))
    <3>1. Bad \subseteq Nat
      OBVIOUS
    <3> HIDE DEF Bad
    <3> QED
      BY <3>1, WFMin, NatLessThanWellFounded
  <2>2. n \in Nat /\ n # 0
    BY <1>2
  <2>3. n - 1 \in Nat /\ (n - 1) + 1 = n /\ <<n - 1, n>> \in OpToRel(<, Nat)
    BY <2>2 DEF OpToRel
  <2>4. n - 1 \notin Bad
    BY <2>1, <2>3
  <2>5. \E g : IsTotal(g, f, D(n - 1))
    BY <2>3, <2>4
  <2>6. \E g : IsTotal(g, f, D(n))
    BY <1>3, <2>3, <2>5
  <2> QED
    BY <2>2, <2>6
<1>5. Cardinality(S) \in Nat /\ D(Cardinality(S)) = SUBSET S
  BY <1>1
<1> QED
  BY <1>4, <1>5

\* What such a sum is.
LEMMA TotalUnfolds ==
  ASSUME NEW f, NEW D, NEW g, IsTotal(g, f, D), NEW s \in D
  PROVE  g[s] = IF s = {} THEN 0 ELSE f[AnyOf(s)] + g[s \ {AnyOf(s)}]
<1> DEFINE e(t) == IF t = {} THEN 0 ELSE f[AnyOf(t)] + g[t \ {AnyOf(t)}]
<1>1. g = [t \in D |-> e(t)]
  BY DEF IsTotal
<1> HIDE DEF e
<1>2. g[s] = e(s)
  BY <1>1
<1> QED
  BY <1>2 DEF e

\* Two sums agree, whatever else they are sums of.
LEMMA TotalUnique ==
  ASSUME NEW f, NEW S, NEW T, NEW g, NEW h, NEW U, IsFiniteSet(U),
         IsTotal(g, f, SUBSET S), IsTotal(h, f, SUBSET T),
         U \subseteq S, U \subseteq T
  PROVE  g[U] = h[U]
<1> DEFINE Bad == {V \in SUBSET U : g[V] # h[V]}
<1> SUFFICES ASSUME Bad # {} PROVE FALSE
  OBVIOUS
<1>1. PICK V \in Bad : IsFiniteSet(V) /\ \A W \in Bad : W \subseteq V => W = V
  <2>1. Bad \subseteq SUBSET U
    OBVIOUS
  <2> HIDE DEF Bad
  <2> QED
    BY <2>1, SmallestSubset
<1>2. V \in SUBSET S /\ V \in SUBSET T /\ V \in SUBSET U /\ g[V] # h[V]
  OBVIOUS
<1>3. /\ g[V] = IF V = {} THEN 0 ELSE f[AnyOf(V)] + g[V \ {AnyOf(V)}]
      /\ h[V] = IF V = {} THEN 0 ELSE f[AnyOf(V)] + h[V \ {AnyOf(V)}]
  BY <1>2, TotalUnfolds
<1>4. V # {} /\ g[V \ {AnyOf(V)}] # h[V \ {AnyOf(V)}]
  BY <1>2, <1>3
<1>5. V \ {AnyOf(V)} \in Bad /\ AnyOf(V) \in V
  BY <1>2, <1>4, AnyOfIsIn
<1> QED
  BY <1>1, <1>5

\* The sum of a set by the sum of the set without the element chosen.
LEMMA TotalOf ==
  ASSUME NEW f, NEW S, IsFiniteSet(S)
  PROVE  Total(f, S) =
           IF S = {} THEN 0 ELSE f[AnyOf(S)] + Total(f, S \ {AnyOf(S)})
<1> DEFINE R == S \ {AnyOf(S)}
           g == CHOOSE x : IsTotal(x, f, SUBSET S)
           h == CHOOSE x : IsTotal(x, f, SUBSET R)
<1>1. IsFiniteSet(R)
  BY FS_Subset
<1>2. IsTotal(g, f, SUBSET S) /\ IsTotal(h, f, SUBSET R)
  BY <1>1, TotalExists
<1>3. Total(f, S) = g[S] /\ Total(f, R) = h[R]
  BY DEF Total
<1> HIDE DEF g, h
<1>4. g[R] = h[R]
  <2>1. R \subseteq S /\ R \subseteq R
    OBVIOUS
  <2> HIDE DEF R
  <2> QED
    BY <1>1, <1>2, <2>1, TotalUnique
<1>5. g[S] = IF S = {} THEN 0 ELSE f[AnyOf(S)] + g[R]
  BY <1>2, TotalUnfolds
<1> QED
  BY <1>3, <1>4, <1>5

\* The sums of integers are integers.
LEMMA TotalType ==
  ASSUME NEW f, NEW S, IsFiniteSet(S), \A x \in S : f[x] \in Int
  PROVE  Total(f, S) \in Int
<1> DEFINE Bad == {V \in SUBSET S : Total(f, V) \notin Int}
<1> SUFFICES ASSUME Bad # {} PROVE FALSE
  OBVIOUS
<1>1. PICK V \in Bad : IsFiniteSet(V) /\ \A W \in Bad : W \subseteq V => W = V
  <2>1. Bad \subseteq SUBSET S
    OBVIOUS
  <2> HIDE DEF Bad
  <2> QED
    BY <2>1, SmallestSubset
<1>2. V \in SUBSET S /\ Total(f, V) \notin Int
  OBVIOUS
<1>3. Total(f, V) = IF V = {} THEN 0 ELSE f[AnyOf(V)] + Total(f, V \ {AnyOf(V)})
  BY <1>1, TotalOf
<1>4. V # {} /\ AnyOf(V) \in V
  BY <1>2, <1>3, AnyOfIsIn
<1>5. V \ {AnyOf(V)} \notin Bad
  BY <1>1, <1>4
<1>6. Total(f, V \ {AnyOf(V)}) \in Int /\ f[AnyOf(V)] \in Int
  BY <1>2, <1>4, <1>5
<1> QED
  BY <1>2, <1>3, <1>4, <1>6

\* Any element may be taken out first.
LEMMA TotalWithout ==
  ASSUME NEW f, NEW S, IsFiniteSet(S), \A x \in S : f[x] \in Int, NEW a \in S
  PROVE  Total(f, S) = f[a] + Total(f, S \ {a})
<1> DEFINE Bad == {V \in SUBSET S :
                     \E x \in V : Total(f, V) # f[x] + Total(f, V \ {x})}
<1> SUFFICES ASSUME Bad # {} PROVE FALSE
  OBVIOUS
<1>1. PICK V \in Bad : IsFiniteSet(V) /\ \A W \in Bad : W \subseteq V => W = V
  <2>1. Bad \subseteq SUBSET S
    OBVIOUS
  <2> HIDE DEF Bad
  <2> QED
    BY <2>1, SmallestSubset
<1>2. PICK x \in V : Total(f, V) # f[x] + Total(f, V \ {x})
  OBVIOUS
<1> DEFINE y == AnyOf(V)
           A == V \ {x}
           B == V \ {y}
           C == V \ {x, y}
<1>3. V \in SUBSET S /\ y \in V
  BY <1>2, AnyOfIsIn
<1>4. Total(f, V) = f[y] + Total(f, B)
  BY <1>1, <1>2, TotalOf
<1>5. x # y
  BY <1>2, <1>4
<1>6. A \notin Bad /\ B \notin Bad
  BY <1>1, <1>3, <1>2
<1>7. A \in SUBSET S /\ B \in SUBSET S /\ C \in SUBSET S
      /\ y \in A /\ x \in B /\ A \ {y} = C /\ B \ {x} = C
  BY <1>2, <1>3, <1>5
<1>8. Total(f, A) = f[y] + Total(f, C) /\ Total(f, B) = f[x] + Total(f, C)
  BY <1>6, <1>7
<1>9. Total(f, C) \in Int /\ f[x] \in Int /\ f[y] \in Int
  <2>1. IsFiniteSet(C)
    BY <1>7, FS_Subset
  <2> QED
    BY <1>2, <1>3, <1>7, <2>1, TotalType
<1> HIDE DEF y, A, B, C
<1>10. Total(f, V) = f[x] + Total(f, A)
  BY <1>4, <1>8, <1>9
<1> QED
  BY <1>2, <1>10 DEF A

\* Of two sets that have nothing in common.
LEMMA TotalUnion ==
  ASSUME NEW f, NEW S, NEW T, IsFiniteSet(S), IsFiniteSet(T), S \cap T = {},
         \A x \in S \cup T : f[x] \in Int
  PROVE  Total(f, S \cup T) = Total(f, S) + Total(f, T)
<1> DEFINE Bad == {V \in SUBSET T : Total(f, S \cup V) # Total(f, S) + Total(f, V)}
<1> SUFFICES ASSUME Bad # {} PROVE FALSE
  OBVIOUS
<1>1. PICK V \in Bad : IsFiniteSet(V) /\ \A W \in Bad : W \subseteq V => W = V
  <2>1. Bad \subseteq SUBSET T
    OBVIOUS
  <2> HIDE DEF Bad
  <2> QED
    BY <2>1, SmallestSubset
<1>2. V \in SUBSET T /\ Total(f, S \cup V) # Total(f, S) + Total(f, V)
  OBVIOUS
<1>3. Total(f, S) \in Int
  BY TotalType
<1>4. V # {}
  <2>1. Total(f, {}) = 0
    BY TotalOf, FS_EmptySet
  <2>2. S \cup {} = S
    OBVIOUS
  <2> QED
    BY <1>2, <1>3, <2>1, <2>2
<1>5. PICK x \in V : TRUE
  BY <1>4
<1> DEFINE R == V \ {x}
<1>6. Total(f, S \cup R) = Total(f, S) + Total(f, R)
  BY <1>1, <1>2, <1>5
<1>7. IsFiniteSet(S \cup V) /\ IsFiniteSet(R)
  BY <1>1, FS_Union, FS_Subset
<1>8. x \in S \cup V /\ (S \cup V) \ {x} = S \cup R /\ f[x] \in Int
  BY <1>2, <1>5
<1>9. Total(f, V) = f[x] + Total(f, R)
  BY <1>1, <1>2, <1>5, TotalWithout
<1>10. Total(f, S \cup V) = f[x] + Total(f, S \cup R)
  <2>1. \A z \in S \cup V : f[z] \in Int
    BY <1>2
  <2> QED
    BY <1>7, <1>8, <2>1, TotalWithout
<1>11. Total(f, R) \in Int
  BY <1>2, <1>7, TotalType
<1> QED
  BY <1>2, <1>3, <1>6, <1>8, <1>9, <1>10, <1>11

\* Nothing that is positive adds up to nothing that is positive.
LEMMA TotalNotPositive ==
  ASSUME NEW f, NEW S, IsFiniteSet(S), \A x \in S : f[x] \in Int /\ f[x] <= 0
  PROVE  /\ Total(f, S) \in Int /\ Total(f, S) <= 0
         /\ Total(f, S) = 0 <=> \A x \in S : f[x] = 0
<1> DEFINE Bad == {V \in SUBSET S :
                     ~ /\ Total(f, V) <= 0
                       /\ Total(f, V) = 0 <=> \A x \in V : f[x] = 0}
<1>0. Total(f, S) \in Int
  BY TotalType
<1> SUFFICES ASSUME Bad # {} PROVE FALSE
  BY <1>0
<1>1. PICK V \in Bad : IsFiniteSet(V) /\ \A W \in Bad : W \subseteq V => W = V
  <2>1. Bad \subseteq SUBSET S
    OBVIOUS
  <2> HIDE DEF Bad
  <2> QED
    BY <2>1, SmallestSubset
<1>2. V \in SUBSET S
  OBVIOUS
<1>3. V # {}
  <2>1. Total(f, {}) = 0
    BY TotalOf, FS_EmptySet
  <2> QED
    BY <2>1
<1>4. PICK x \in V : TRUE
  BY <1>3
<1> DEFINE R == V \ {x}
<1>5. R \notin Bad /\ R \in SUBSET S
  BY <1>1, <1>2, <1>4
<1>6. Total(f, R) <= 0 /\ (Total(f, R) = 0 <=> \A y \in R : f[y] = 0)
  BY <1>5
<1>7. Total(f, V) = f[x] + Total(f, R) /\ f[x] \in Int /\ f[x] <= 0
  BY <1>1, <1>2, <1>4, TotalWithout
<1>8. Total(f, R) \in Int
  <2>1. IsFiniteSet(R)
    BY <1>1, FS_Subset
  <2> QED
    BY <1>2, <2>1, TotalType
<1> DEFINE t == Total(f, R)
<1>9. /\ f[x] + t <= 0
      /\ f[x] + t = 0 <=> f[x] = 0 /\ t = 0
  <2> HIDE DEF t
  <2> QED
    BY <1>6, <1>7, <1>8 DEF t
<1>10. (f[x] = 0 /\ \A y \in R : f[y] = 0) <=> \A y \in V : f[y] = 0
  OBVIOUS
<1>11. V \notin Bad
  BY <1>6, <1>7, <1>9, <1>10
<1> QED
  BY <1>11

\* The sum of the values of some documents, as a sum over a function.
LEMMA SumIsTotal ==
  ASSUME NEW S, IsFiniteSet(S), NEW W, S \subseteq W
  PROVE  MapThenSumSet(Value, S) = Total([x \in W |-> Value(x)], S)
<1> DEFINE f == [x \in W |-> Value(x)]
           iter == CHOOSE g : g = [s \in SUBSET S |->
                     IF s = {} THEN 0
                     ELSE Value(AnyOf(s)) + g[s \ {AnyOf(s)}]]
<1>1. MapThenSumSet(Value, S) = iter[S]
  BY DEF MapThenSumSet, MapThenFoldSet, AnyOf
<1>2. ASSUME NEW g
      PROVE  IsTotal(g, f, SUBSET S) <=>
               g = [s \in SUBSET S |->
                     IF s = {} THEN 0
                     ELSE Value(AnyOf(s)) + g[s \ {AnyOf(s)}]]
  <2>1. \A s \in SUBSET S : s # {} => f[AnyOf(s)] = Value(AnyOf(s))
    BY AnyOfIsIn
  <2> HIDE DEF f
  <2>2. [s \in SUBSET S |-> IF s = {} THEN 0
                            ELSE f[AnyOf(s)] + g[s \ {AnyOf(s)}]]
        = [s \in SUBSET S |-> IF s = {} THEN 0
                              ELSE Value(AnyOf(s)) + g[s \ {AnyOf(s)}]]
    BY <2>1
  <2> QED
    BY <2>2 DEF IsTotal
<1>3. IsTotal(iter, f, SUBSET S)
  <2>1. PICK g : IsTotal(g, f, SUBSET S)
    BY TotalExists
  <2>2. iter = [s \in SUBSET S |->
                  IF s = {} THEN 0
                  ELSE Value(AnyOf(s)) + iter[s \ {AnyOf(s)}]]
    BY <1>2, <2>1
  <2> HIDE DEF f, iter
  <2> QED
    BY <1>2, <2>2
<1> DEFINE h == CHOOSE g : IsTotal(g, f, SUBSET S)
<1>4. IsTotal(h, f, SUBSET S)
  BY TotalExists
<1> HIDE DEF iter, f, h
<1>5. iter[S] = h[S]
  BY <1>3, <1>4, TotalUnique
<1> QED
  BY <1>1, <1>5 DEF Total, h, f

\* The sum of the values of some records, likewise.
LEMMA RecordSumIsTotal ==
  ASSUME NEW S, IsFiniteSet(S)
  PROVE  MapThenSumSet(LAMBDA r : r.value, S) = Total([r \in S |-> r.value], S)
<1> DEFINE f == [r \in S |-> r.value]
           iter == CHOOSE g : g = [s \in SUBSET S |->
                     IF s = {} THEN 0
                     ELSE (AnyOf(s)).value + g[s \ {AnyOf(s)}]]
<1>1. MapThenSumSet(LAMBDA r : r.value, S) = iter[S]
  BY DEF MapThenSumSet, MapThenFoldSet, AnyOf
<1>2. ASSUME NEW g
      PROVE  IsTotal(g, f, SUBSET S) <=>
               g = [s \in SUBSET S |->
                     IF s = {} THEN 0
                     ELSE (AnyOf(s)).value + g[s \ {AnyOf(s)}]]
  <2>1. \A s \in SUBSET S : s # {} => f[AnyOf(s)] = (AnyOf(s)).value
    BY AnyOfIsIn
  <2> HIDE DEF f
  <2>2. [s \in SUBSET S |-> IF s = {} THEN 0
                            ELSE f[AnyOf(s)] + g[s \ {AnyOf(s)}]]
        = [s \in SUBSET S |-> IF s = {} THEN 0
                              ELSE (AnyOf(s)).value + g[s \ {AnyOf(s)}]]
    BY <2>1
  <2> QED
    BY <2>2 DEF IsTotal
<1>3. IsTotal(iter, f, SUBSET S)
  <2>1. PICK g : IsTotal(g, f, SUBSET S)
    BY TotalExists
  <2>2. iter = [s \in SUBSET S |->
                  IF s = {} THEN 0
                  ELSE (AnyOf(s)).value + iter[s \ {AnyOf(s)}]]
    BY <1>2, <2>1
  <2> HIDE DEF f, iter
  <2> QED
    BY <1>2, <2>2
<1> DEFINE h == CHOOSE g : IsTotal(g, f, SUBSET S)
<1>4. IsTotal(h, f, SUBSET S)
  BY TotalExists
<1> HIDE DEF iter, f, h
<1>5. iter[S] = h[S]
  BY <1>3, <1>4, TotalUnique
<1> QED
  BY <1>1, <1>5 DEF Total, h, f

-----------------------------------------------------------------------------
(* The statistics of documents.                                            *)

ValuesOf(ds) == {Value(d) : d \in ds}

\* The values of some documents are integers, and finitely many.
LEMMA ValuesType ==
  ASSUME NEW ds, IsDocs(ds)
  PROVE  ValuesOf(ds) \in SUBSET Int /\ IsFiniteSet(ValuesOf(ds))
<1> DEFINE f == [d \in ds |-> Value(d)]
<1>1. DOMAIN f = ds /\ {f[d] : d \in ds} = ValuesOf(ds)
  BY DEF ValuesOf
<1> HIDE DEF f
<1>2. IsFiniteSet({f[d] : d \in ds})
  BY <1>1, ImageFinite DEF IsDocs
<1> QED
  BY <1>1, <1>2 DEF IsDocs, ValuesOf

\* The greatest value of some documents.
LEMMA Greatest ==
  ASSUME NEW ds, IsDocs(ds), ds # {}
  PROVE  /\ MaxValue(ds) \in Int
         /\ \E d \in ds : MaxValue(ds) = Value(d)
         /\ \A d \in ds : Value(d) <= MaxValue(ds)
<1>1. ValuesOf(ds) \in SUBSET Int /\ IsFiniteSet(ValuesOf(ds))
      /\ ValuesOf(ds) # {}
  BY ValuesType DEF ValuesOf
<1>2. MaxValue(ds) \in ValuesOf(ds) /\ \A y \in ValuesOf(ds) : y <= MaxValue(ds)
  BY <1>1, MaxOf DEF MaxValue, ValuesOf
<1> QED
  BY <1>1, <1>2 DEF ValuesOf

\* The sum of the values of some documents.
Sums(ds, es) == Total([d \in ds |-> Value(d)], es)

\* The statistics of a part of the documents ds.
LEMMA PartStats ==
  ASSUME NEW ds, IsDocs(ds), NEW es \in SUBSET ds
  PROVE  /\ IsDocs(es)
         /\ StatsOf(es).sum = Sums(ds, es) /\ Sums(ds, es) \in Int
         /\ StatsOf(es).count = Cardinality(es) /\ Cardinality(es) \in Nat
         /\ Cardinality(es) = 0 <=> es = {}
         /\ StatsOf(es).max = IF es = {} THEN 0 ELSE MaxValue(es)
<1>1. IsDocs(es) /\ IsFiniteSet(es) /\ es \subseteq ds
  BY PartOfDocs DEF IsDocs
<1> DEFINE f == [d \in ds |-> Value(d)]
<1>2. MapThenSumSet(Value, es) = Total(f, es)
  BY <1>1, SumIsTotal
<1>3. \A d \in es : f[d] \in Int
  BY DEF IsDocs
<1> HIDE DEF f
<1>4. Total(f, es) \in Int
  BY <1>1, <1>3, TotalType
<1> QED
  BY <1>1, <1>2, <1>4, FS_CardinalityType, FS_EmptySet DEF StatsOf, Sums, f

\* Merging the statistics of two sets of documents that have none in common
\* gives those of all of them.
LEMMA MergeAddsUp ==
  ASSUME NEW ds, IsDocs(ds), NEW A \in SUBSET ds, NEW B \in SUBSET ds,
         A \cap B = {}
  PROVE  merge(StatsOf(A), B) = StatsOf(A \cup B)
<1> DEFINE U == A \cup B
<1>1. U \in SUBSET ds
  OBVIOUS
<1> HIDE DEF U
<1>2. /\ StatsOf(A).sum = Sums(ds, A) /\ Sums(ds, A) \in Int
      /\ StatsOf(A).count = Cardinality(A) /\ Cardinality(A) \in Nat
      /\ Cardinality(A) = 0 <=> A = {}
      /\ StatsOf(A).max = IF A = {} THEN 0 ELSE MaxValue(A)
      /\ IsDocs(A)
  BY PartStats
<1>3. /\ StatsOf(B).sum = Sums(ds, B) /\ Sums(ds, B) \in Int
      /\ StatsOf(B).count = Cardinality(B) /\ Cardinality(B) \in Nat
      /\ Cardinality(B) = 0 <=> B = {}
      /\ StatsOf(B).max = IF B = {} THEN 0 ELSE MaxValue(B)
      /\ IsDocs(B)
  BY PartStats
<1>4. /\ StatsOf(U).sum = Sums(ds, U) /\ StatsOf(U).count = Cardinality(U)
      /\ StatsOf(U).max = IF U = {} THEN 0 ELSE MaxValue(U)
      /\ IsDocs(U)
  BY <1>1, PartStats
<1>5. StatsOf(U) = [sum |-> StatsOf(U).sum, count |-> StatsOf(U).count,
                    max |-> StatsOf(U).max]
  BY DEF StatsOf
<1>6. CASE B = {}
  <2>1. U = A
    BY <1>6 DEF U
  <2> QED
    BY <1>3, <1>6, <2>1 DEF merge, U
<1>7. CASE B # {}
  <2>1. merge(StatsOf(A), B) =
          [sum |-> StatsOf(A).sum + StatsOf(B).sum,
           count |-> StatsOf(A).count + StatsOf(B).count,
           max |-> IF StatsOf(A).count = 0 \/ StatsOf(B).max > StatsOf(A).max
                   THEN StatsOf(B).max ELSE StatsOf(A).max]
    BY <1>3, <1>7 DEF merge
  <2>2. Sums(ds, U) = Sums(ds, A) + Sums(ds, B)
    <3> DEFINE f == [d \in ds |-> Value(d)]
    <3>1. \A d \in A \cup B : f[d] \in Int
      BY DEF IsDocs
    <3> HIDE DEF f
    <3>2. IsFiniteSet(A) /\ IsFiniteSet(B)
      BY <1>2, <1>3 DEF IsDocs
    <3>3. Total(f, A \cup B) = Total(f, A) + Total(f, B)
      BY <3>1, <3>2, TotalUnion
    <3> QED
      BY <3>3 DEF Sums, f, U
  <2>3. Cardinality(U) = Cardinality(A) + Cardinality(B)
    <3>1. IsFiniteSet(A) /\ IsFiniteSet(B)
      BY <1>2, <1>3 DEF IsDocs
    <3>2. Cardinality(A \cup B)
            = Cardinality(A) + Cardinality(B) - Cardinality(A \cap B)
      BY <3>1, FS_Union
    <3>3. Cardinality(A \cap B) = 0
      BY FS_EmptySet
    <3> QED
      BY <1>2, <1>3, <3>2, <3>3 DEF U
  <2>4. /\ U # {} /\ MaxValue(U) \in Int
        /\ \E d \in U : MaxValue(U) = Value(d)
        /\ \A d \in U : Value(d) <= MaxValue(U)
    BY <1>4, <1>7, Greatest DEF U
  <2>5. /\ MaxValue(B) \in Int
        /\ \E d \in B : MaxValue(B) = Value(d)
        /\ \A d \in B : Value(d) <= MaxValue(B)
    BY <1>3, <1>7, Greatest
  <2>6. StatsOf(U).max =
          IF StatsOf(A).count = 0 \/ StatsOf(B).max > StatsOf(A).max
          THEN StatsOf(B).max ELSE StatsOf(A).max
    <3>1. CASE A = {}
      <4>1. U = B
        BY <3>1 DEF U
      <4> QED
        BY <1>2, <3>1, <4>1
    <3>2. CASE A # {}
      <4>1. /\ MaxValue(A) \in Int
            /\ \E d \in A : MaxValue(A) = Value(d)
            /\ \A d \in A : Value(d) <= MaxValue(A)
        BY <1>2, <3>2, Greatest
      <4>2. MaxValue(A) <= MaxValue(U) /\ MaxValue(B) <= MaxValue(U)
        BY <2>4, <2>5, <4>1 DEF U
      <4>3. MaxValue(U) <= MaxValue(A) \/ MaxValue(U) <= MaxValue(B)
        BY <2>4, <2>5, <4>1 DEF U
      <4>4. MaxValue(U) = IF MaxValue(B) > MaxValue(A) THEN MaxValue(B)
                                                      ELSE MaxValue(A)
        BY <2>4, <2>5, <4>1, <4>2, <4>3
      <4> QED
        BY <1>2, <1>3, <1>4, <1>7, <2>4, <3>2, <4>4
    <3> QED
      BY <3>1, <3>2
  <2> QED
    BY <1>2, <1>3, <1>4, <1>5, <2>1, <2>2, <2>3, <2>6 DEF U
<1> QED
  BY <1>6, <1>7

-----------------------------------------------------------------------------
(* The statistics merged window by window.                                 *)

\* The documents of ds in the windows before window i.
DocsBefore(ds, ws, i) ==
  {d \in ds : \E k \in DOMAIN ws : k < i /\ InWindow(d[1], ws[k])}

MergedMeant ==
  pc \notin {"done", "error"} /\ ~truncated =>
    \A c \in 1..Collectors :
      acc[c] = StatsOf(DocsBefore(docs[c], windows,
                               PlaceOf(pc, window, collector, c)))

\* MergedOK says so.
LEMMA MergedSays == MergedOK <=> MergedMeant
BY DEF MergedOK, MergedMeant, DoneWith, DocsBefore, NextFor, PlaceOf

\* The same of the next state.
LEMMA PrimedMergedSays == (MergedOK <=> MergedMeant)'
BY MergedSays, PTL

\* A document lies in one window only: those asked about are not among those
\* of earlier windows.
LEMMA AskedIsNew ==
  ASSUME TypeOK, IInv, pc = "collector"
  PROVE  LET D(i) == DocsBefore(docs[collector], windows, i)
         IN /\ D(window + 1) = D(window) \cup Asked
            /\ D(window) \cap Asked = {}
            /\ D(window) \in SUBSET docs[collector]
            /\ Asked \in SUBSET docs[collector] /\ IsDocs(docs[collector])
<1> DEFINE D(i) == DocsBefore(docs[collector], windows, i)
<1>1. /\ WindowsSpan /\ window \in 1..Len(windows)
      /\ DOMAIN windows = 1..Len(windows) /\ Len(windows) \in Nat
  BY AnswerInTurn DEF WindowsSpan
<1>2. IsDocs(docs[collector])
  BY TypesAreSane DEF TypeOK, Sane
<1>3. D(window) \in SUBSET docs[collector] /\ Asked \in SUBSET docs[collector]
  BY DEF DocsBefore, Asked, Found
<1>4. D(window + 1) = D(window) \cup Asked
  <2>1. \A k \in 1..Len(windows) : k < window + 1 <=> k < window \/ k = window
    BY <1>1
  <2> QED
    BY <1>1, <2>1 DEF DocsBefore, Asked, Found
<1>5. ASSUME NEW d \in D(window), d \in Asked
      PROVE  FALSE
  <2>1. PICK k \in 1..Len(windows) : k < window /\ InWindow(d[1], windows[k])
    BY <1>1 DEF DocsBefore
  <2>2. d[1] \in Int /\ InWindow(d[1], windows[window])
    BY <1>2, <1>5 DEF DocsBefore, IsDocs, Asked, Found
  <2>3. /\ Bucket(d[1], request.interval) \in Int
        /\ Bucket(d[1], request.interval) < Edge(k + 1)
    BY <1>1, <2>1, <2>2, BucketInWindow
  <2>4. Edge(window) <= Bucket(d[1], request.interval)
    BY <1>1, <2>2, BucketInWindow
  <2>5. Edge(k + 1) <= Edge(window) /\ Edge(k + 1) \in Int /\ Edge(window) \in Int
    BY <1>1, <2>1, EdgesAscend
  <2> QED
    BY <2>3, <2>4, <2>5
<1> QED
  BY <1>2, <1>3, <1>4, <1>5

\* The documents of all windows are those of the range.
LEMMA AllWindows ==
  ASSUME TypeOK, IInv, windows # <<>>, NEW c \in 1..Collectors
  PROVE  DocsBefore(docs[c], windows, Len(windows) + 1) = InRange(c)
<1>1. /\ WindowsSpan /\ DOMAIN windows = 1..Len(windows) /\ Len(windows) \in Nat
      /\ windows = planTimeWindows(request.from, request.to,
                                   request.interval, PerWindow)
  BY WindowsArePlanned DEF IInv, PlanOK, WindowsSpan
<1>2. ASSUME NEW d \in docs[c]
      PROVE  (\E k \in DOMAIN windows : InWindow(d[1], windows[k]))
               <=> request.from <= d[1] /\ d[1] <= request.to
  <2>1. d[1] \in Int
    BY TypesAreSane DEF Sane, IsDocs
  <2>2. ASSUME NEW k \in DOMAIN windows, InWindow(d[1], windows[k])
        PROVE  request.from <= d[1] /\ d[1] <= request.to
    <3>1. Spans(windows[k], k, request.from, request.to, request.interval,
                PerWindow)
      BY <1>1 DEF WindowsSpan
    <3> QED
      BY <2>1, <2>2, <3>1 DEF Spans
  <2>3. ASSUME request.from <= d[1], d[1] <= request.to
        PROVE  \E k \in DOMAIN windows : InWindow(d[1], windows[k])
    <3>1. d[1] \in request.from..request.to
      BY <2>1, <2>3, TypesAreSane DEF Sane
    <3> QED
      BY <1>1, <3>1, WindowsCover, TypesAreSane DEF Sane
  <2> QED
    BY <2>2, <2>3
<1>3. \A k \in DOMAIN windows : k < Len(windows) + 1
  BY <1>1
<1> QED
  BY <1>2, <1>3 DEF DocsBefore, InRange

\* Every step keeps the statistics those of the documents asked about.
LEMMA MergedStep ==
  ASSUME TypeOK, IInv, MergedMeant, Next
  PROVE  MergedMeant'
<1> DEFINE p(c) == PlaceOf(pc, window, collector, c)
           q(c) == PlaceOf(pc', window', collector', c)
           D(c, i) == DocsBefore(docs[c], windows, i)
<1>1. CASE Plan
  <2>1. /\ pc = "plan" /\ window = 1 /\ ~truncated
        /\ UNCHANGED <<docs, acc, window, truncated>>
        /\ pc' \in {"meta", "error"}
    BY <1>1 DEF Plan, inputVars, IInv, PlaceOK
  <2>2. \A k \in DOMAIN windows : ~(k < 1)
    BY DEF TypeOK
  <2>3. \A k \in DOMAIN windows' : ~(k < 1)
    <3>1. TypeOK'
      BY StreamTypeStep
    <3> QED
      BY <3>1 DEF TypeOK
  <2>4. \A c \in 1..Collectors : DocsBefore(docs[c], windows, 1) = {}
          /\ DocsBefore(docs[c], windows', 1) = {}
    BY <2>2, <2>3 DEF DocsBefore
  <2> QED
    BY <2>1, <2>4 DEF MergedMeant, PlaceOf
<1>2. CASE EmitMeta \/ StartWindow
  <2>1. /\ UNCHANGED <<docs, acc, window, windows, truncated>>
        /\ pc \in {"meta", "window"}
        /\ pc' = "window" \/ (pc' = "collector" /\ collector' = 1)
    BY <1>2 DEF EmitMeta, StartWindow, inputVars
  <2>2. ASSUME NEW c \in 1..Collectors
        PROVE  p(c) = window /\ q(c) = window
    BY <2>1 DEF PlaceOf
  <2> HIDE DEF p, q
  <2> QED
    BY <2>1, <2>2 DEF MergedMeant, p, q
<1>3. CASE Done \/ Fail \/ Refusing
  BY <1>3 DEF Done, Fail, Refusing, MergedMeant
<1>4. CASE Terminated
  BY <1>4 DEF Terminated, vars, MergedMeant
<1>5. ASSUME pc = "collector", ~truncated, UNCHANGED <<docs, windows>>, Moved,
             \A c \in 1..Collectors :
               acc'[c] = IF c = collector THEN merge(acc[c], Asked) ELSE acc[c]
      PROVE  MergedMeant'
  <2>1. \A c \in 1..Collectors : acc[c] = StatsOf(D(c, p(c)))
    BY <1>5 DEF MergedMeant
  <2>2. \A c \in 1..Collectors :
          q(c) = IF c = collector THEN window + 1 ELSE p(c)
    BY <1>5 DEF Moved
  <2>3. p(collector) = window
    BY DEF PlaceOf, TypeOK
  <2> HIDE DEF p, q
  <2>4. acc'[collector] = StatsOf(D(collector, q(collector)))
    <3>1. collector \in 1..Collectors
      BY DEF TypeOK
    <3>2. /\ D(collector, window + 1) = D(collector, window) \cup Asked
          /\ D(collector, window) \cap Asked = {}
          /\ D(collector, window) \in SUBSET docs[collector]
          /\ Asked \in SUBSET docs[collector] /\ IsDocs(docs[collector])
      BY <1>5, AskedIsNew
    <3> HIDE DEF D
    <3>3. merge(StatsOf(D(collector, window)), Asked)
            = StatsOf(D(collector, window + 1))
      BY <3>2, MergeAddsUp
    <3> QED
      BY <1>5, <2>1, <2>2, <2>3, <3>1, <3>3
  <2>5. \A c \in 1..Collectors : acc'[c] = StatsOf(D(c, q(c)))
    BY <1>5, <2>1, <2>2, <2>4
  <2> QED
    BY <1>5, <2>5 DEF MergedMeant, q
<1>6. CASE Passing
  <2>1. /\ pc = "collector" /\ Moved /\ Asked = {}
        /\ UNCHANGED <<docs, windows, acc, truncated>> /\ ~truncated
    BY <1>6, SkipMoves DEF Passing, inputVars, IInv, PlaceOK
  <2>2. \A a : merge(a, {}) = a
    <3>1. StatsOf({}).count = 0
      BY FS_EmptySet DEF StatsOf
    <3> QED
      BY <3>1 DEF merge
  <2> QED
    BY <1>5, <2>1, <2>2
<1>7. CASE Taking
  <2>1. /\ pc = "collector" /\ ~truncated /\ UNCHANGED <<docs, windows>>
        /\ acc' = [acc EXCEPT ![collector] = merge(@, Asked)]
    BY <1>7 DEF Taking, inputVars, IInv, PlaceOK
  <2>2. \A c \in 1..Collectors :
          acc'[c] = IF c = collector THEN merge(acc[c], Asked) ELSE acc[c]
    BY <2>1 DEF TypeOK
  <2>3. CASE truncated'
    BY <2>3 DEF MergedMeant
  <2>4. CASE ~truncated'
    <3>1. Moved
      BY <1>7, <2>4, TakingMoves
    <3> QED
      BY <1>5, <2>1, <2>2, <3>1
  <2> QED
    BY <2>3, <2>4
<1> QED
  BY <1>1, <1>2, <1>3, <1>4, <1>6, <1>7, CollectKinds DEF Next

\* And what StreamDone reports, those of the whole range.
LEMMA GlobalStep ==
  ASSUME TypeOK, IInv, MergedMeant, StatsAreGlobal, Next
  PROVE  StatsAreGlobal'
<1>1. UNCHANGED <<request, docs>>
  BY StreamLeavesInputs DEF inputVars
<1>2. \A c \in 1..Collectors : InRange(c)' = InRange(c)
  BY <1>1 DEF InRange
<1>3. CASE Done
  <2>1. /\ pc = "window" /\ window > Len(windows)
        /\ stats' = IF truncated THEN NoStats ELSE acc
    BY <1>3 DEF Done
  <2>2. CASE truncated
    BY <2>1, <2>2 DEF StatsAreGlobal
  <2>3. CASE ~truncated
    <3>1. \A c \in 1..Collectors :
            acc[c] = StatsOf(DocsBefore(docs[c], windows, window))
      BY <2>1, <2>3 DEF MergedMeant, PlaceOf
    <3>2. \A c \in 1..Collectors :
            DocsBefore(docs[c], windows, window) = InRange(c)
      <4>1. windows # <<>> /\ window \in Nat /\ Len(windows) \in Nat
            /\ DOMAIN windows = 1..Len(windows)
        BY <2>1 DEF IInv, PlanOK, TypeOK
      <4>2. \A k \in DOMAIN windows : k < window /\ k < Len(windows) + 1
        BY <2>1, <4>1
      <4>3. \A c \in 1..Collectors :
              DocsBefore(docs[c], windows, window)
                = DocsBefore(docs[c], windows, Len(windows) + 1)
        BY <4>2 DEF DocsBefore
      <4> QED
        BY <4>1, <4>3, AllWindows
    <3> QED
      BY <1>2, <2>1, <2>3, <3>1, <3>2 DEF StatsAreGlobal
  <2> QED
    BY <2>2, <2>3
<1>4. CASE ~Done
  <2>1. stats' = stats
    BY <1>4 DEF Next, Plan, EmitMeta, StartWindow, Collect, Fail, Terminated, vars
  <2> QED
    BY <1>2, <2>1 DEF StatsAreGlobal
<1> QED
  BY <1>3, <1>4

\* The statistics of a stream that was not truncated are those of all
\* documents of the range, each counted once, for any plan of windows.
THEOREM AlwaysStatsAreGlobal == BothSpec => []StatsAreGlobal
<1>1. BothInit => StatsInv
  <2> SUFFICES ASSUME BothInit PROVE StatsInv
    OBVIOUS
  <2>1. /\ stats = NoStats /\ windows = <<>>
        /\ acc = [c \in 1..Collectors |-> Zero]
    BY DEF BothInit, Init
  <2>2. StatsOf({}) = Zero
    <3>1. MapThenSumSet(Value, {}) = 0
      <4>1. MapThenSumSet(Value, {}) = Total([x \in {} |-> Value(x)], {})
        BY SumIsTotal, FS_EmptySet
      <4> QED
        BY <4>1, TotalOf, FS_EmptySet
    <3> QED
      BY <3>1, FS_EmptySet DEF StatsOf, Zero
  <2>3. \A c \in 1..Collectors : DoneWith(c) = {}
    BY <2>1 DEF DoneWith
  <2> QED
    BY <2>1, <2>2, <2>3 DEF StatsInv, MergedOK, StatsAreGlobal
<1>2. AllInv /\ StatsInv /\ [BothNext]_bothVars => StatsInv'
  <2> SUFFICES ASSUME AllInv, StatsInv, [BothNext]_bothVars PROVE StatsInv'
    OBVIOUS
  <2> USE DEF AllInv
  <2>1. CASE Next
    BY <2>1, MergedStep, GlobalStep, MergedSays, PrimedMergedSays DEF StatsInv
  <2>2. CASE UNCHANGED vars
    BY <2>2 DEF vars, StatsInv, MergedOK, StatsAreGlobal, DoneWith, NextFor,
                InRange
  <2> QED
    BY <2>1, <2>2 DEF BothNext, QueryStep, QueryOver, bothVars, Next
<1>3. StatsInv => StatsAreGlobal
  BY DEF StatsInv
<1> QED
  BY <1>1, <1>2, <1>3, BothInvariant, PTL DEF BothSpec

-----------------------------------------------------------------------------
(* The statistics the query reports.                                       *)

\* Statistics of zeros alone are those of documents of value zero.
LEMMA NothingButZeros ==
  ASSUME NEW ds, IsDocs(ds), Unknown(StatsOf(ds)), NEW d \in ds
  PROVE  Value(d) = 0
<1> DEFINE f == [x \in ds |-> Value(x)]
<1>1. /\ StatsOf(ds).sum = Total(f, ds) /\ StatsOf(ds).max = MaxValue(ds)
      /\ Total(f, ds) = 0 /\ MaxValue(ds) = 0
  BY PartStats DEF Sums, Unknown
<1>2. \A x \in ds : f[x] \in Int /\ f[x] <= 0 /\ f[x] = Value(x)
  BY <1>1, Greatest DEF IsDocs
<1> HIDE DEF f
<1>3. IsFiniteSet(ds)
  BY DEF IsDocs
<1>4. \A x \in ds : f[x] = 0
  BY <1>1, <1>2, <1>3, TotalNotPositive
<1> QED
  BY <1>2, <1>4

\* Records of such documents, and of buckets without any, bring zeros too.
LEMMA RecordsOfZeros ==
  ASSUME NEW rs, IsFiniteSet(rs), \A r \in rs : r.value = 0
  PROVE  /\ calculateStatsFromRecords(rs).sum = 0
         /\ calculateStatsFromRecords(rs).max = 0
<1> DEFINE f == [r \in rs |-> r.value]
<1>1. MapThenSumSet(LAMBDA r : r.value, rs) = Total(f, rs)
  BY RecordSumIsTotal
<1>2. \A r \in rs : f[r] = 0 /\ f[r] \in Int /\ f[r] <= 0
  OBVIOUS
<1> HIDE DEF f
<1>3. Total(f, rs) = 0
  BY <1>2, TotalNotPositive
<1>4. {0} \cup {r.value : r \in rs} = {0}
  OBVIOUS
<1>5. Max({0}) = 0
  <2>1. IsFiniteSet({0})
    BY FS_Singleton
  <2>2. {0} \in SUBSET Int /\ {0} # {}
    OBVIOUS
  <2>3. Max({0}) \in {0}
    BY <2>1, <2>2, MaxOf
  <2> QED
    BY <2>3
<1>6. calculateStatsFromRecords(rs).sum = MapThenSumSet(LAMBDA r : r.value, rs)
  BY DEF calculateStatsFromRecords
<1>7. calculateStatsFromRecords(rs).max = 0
  BY <1>4, <1>5 DEF calculateStatsFromRecords
<1> QED
  BY <1>1, <1>3, <1>6, <1>7

\* Zeros taken for "unknown" are replaced by what comes to the same.
LEMMA ReportedSurvives ==
  ASSUME TypeOK, ~request.grouped, NEW c \in 1..Collectors, NEW rs, NEW q,
         rs = Records(c, Matched(c), From, To, request.interval, request.grouped),
         q = Reported(Matched(c), rs)
  PROVE  LET s == StatsOf(Matched(c))
         IN q.max = s.max /\ q.sum * s.count = s.sum * q.count
<1> DEFINE ds == Matched(c)
           n == request.interval
<1>1. Sane /\ IsDocs(ds)
  <2>1. Sane /\ IsDocs(docs[c])
    BY TypesAreSane DEF Sane
  <2>2. ds \in SUBSET docs[c]
    BY DEF Matched
  <2> QED
    BY <2>1, <2>2, PartOfDocs
<1>2. /\ StatsOf(ds).sum \in Int /\ StatsOf(ds).count \in Nat
  BY <1>1, PartStats
<1>3. CASE ~Unknown(StatsOf(ds))
  <2>1. q = StatsOf(ds)
    BY <1>3 DEF Reported
  <2> QED
    BY <1>2, <2>1
<1>4. CASE Unknown(StatsOf(ds))
  <2>1. q = calculateStatsFromRecords(rs)
    BY <1>4 DEF Reported
  <2>2. IsAnswer(rs, c, ds, From, To, n, request.grouped)
    <3> HIDE DEF ds
    <3>1. /\ From \in Int /\ To \in Int /\ n \in Nat \ {0}
          /\ request.grouped \in BOOLEAN
      BY <1>1, QueryBounds DEF Sane
    <3> QED
      BY <1>1, <3>1, RecordsAnswer DEF ds
  <2> HIDE DEF ds
  <2>3. IsFiniteSet(rs)
    BY <2>2 DEF IsAnswer
  <2>4. ASSUME NEW r \in rs
        PROVE  r.value = 0
    <3> DEFINE in == {d \in ds : Bucket(d[1], n) = r.bucket}
    <3>1. r.value = IF in = {} THEN 0 ELSE MaxValue(in)
      BY <2>2 DEF IsAnswer, Labelled, BucketValue
    <3>2. in \in SUBSET ds
      OBVIOUS
    <3> HIDE DEF in
    <3>3. IsDocs(in)
      BY <1>1, <3>2, PartOfDocs
    <3>4. \A d \in in : Value(d) = 0
      BY <1>1, <1>4, <3>2, NothingButZeros
    <3> QED
      BY <3>1, <3>3, <3>4, Greatest
  <2>5. q.sum = 0 /\ q.max = 0
    BY <2>1, <2>3, <2>4, RecordsOfZeros
  <2>6. StatsOf(ds).sum = 0 /\ StatsOf(ds).max = 0
    BY <1>4 DEF Unknown
  <2>7. q.count \in Nat
    BY <2>1, <2>3, FS_CardinalityType DEF calculateStatsFromRecords
  <2> QED
    BY <1>2, <2>5, <2>6, <2>7 DEF ds
<1> QED
  BY <1>3, <1>4

\* Every answer reports its own collector's statistics and leaves the others'
\* alone.
LEMMA ReportedStep ==
  ASSUME ReportedOK, QueryStep
  PROVE  ReportedOK'
<1> DEFINE Right(c) == Reported(Matched(c),
                         Records(c, Matched(c), From, To, request.interval,
                                 request.grouped))
<1>1. UNCHANGED <<request, docs>>
  BY DEF QueryStep, vars
<1>2. \A c : Right(c)' = Right(c)
  BY <1>1 DEF Matched, From, To, RFC3339, Reported
<1> HIDE DEF Right
<1>3. CASE Validate
  BY <1>2, <1>3 DEF Validate, ReportedOK, Right
<1>4. CASE SearchFails
  <2>1. DOMAIN <<>> = {}
    OBVIOUS
  <2> QED
    BY <1>4, <2>1 DEF SearchFails, ReportedOK
<1>5. ASSUME NEW c \in 1..Collectors, Search(c)
      PROVE  ReportedOK'
  <2> SUFFICES ASSUME ~partial', NEW b \in DOMAIN qstats'
               PROVE  qstats'[b] = Right(b)
    BY <1>2 DEF ReportedOK, Right
  <2> DEFINE Answered(ds) == Reported(ds, Records(c, ds, From, To, request.interval,
                                             request.grouped))
  <2>1. PICK ds \in SUBSET Matched(c) :
          /\ partial' = (partial \/ ds # Matched(c))
          /\ \/ qstats' = [e \in DOMAIN qstats \cup {c} |->
                             IF e = c THEN Answered(ds) ELSE qstats[e]]
             \/ UNCHANGED qstats
    BY <1>5 DEF Search
  <2>2. ~partial /\ Answered(ds) = Right(c)
    <3>1. ~partial /\ ds = Matched(c)
      BY <2>1
    <3> QED
      BY <3>1 DEF Right
  <2> HIDE DEF Answered
  <2>3. \A e \in DOMAIN qstats : qstats[e] = Right(e)
    BY <2>2 DEF ReportedOK, Right
  <2> QED
    BY <2>1, <2>2, <2>3
<1> QED
  BY <1>3, <1>4, <1>5 DEF QueryStep

\* What the query reports is right for the collectors asked so far.
LEMMA AlwaysReportedOK == BothSpec => []ReportedOK
<1>1. BothInit => ReportedOK
  <2>1. DOMAIN <<>> = {}
    OBVIOUS
  <2> QED
    BY <2>1 DEF BothInit, QueryInit, ReportedOK
<1>2. ReportedOK /\ [BothNext]_bothVars => ReportedOK'
  <2> SUFFICES ASSUME ReportedOK, [BothNext]_bothVars PROVE ReportedOK'
    OBVIOUS
  <2>1. CASE QueryStep
    BY <2>1, ReportedStep
  <2>2. CASE ~QueryStep
    <3>1. UNCHANGED <<request, docs, partial, qstats>>
      BY <2>2, StreamLeavesInputs
         DEF BothNext, QueryOver, bothVars, queryVars, vars, inputVars, Next
    <3> QED
      BY <3>1 DEF ReportedOK, Matched, From, To, RFC3339, Reported
  <2> QED
    BY <2>1, <2>2
<1> QED
  BY <1>1, <1>2, PTL DEF BothSpec

\* Without groups the query reports the statistics of all documents that match,
\* although zeros are taken for "unknown", for any values of the documents,
\* negative ones included.
THEOREM AlwaysStatsSurviveFallback == BothSpec => []StatsSurviveFallback
<1>1. AllInv /\ ReportedOK => StatsSurviveFallback
  <2> SUFFICES ASSUME AllInv, ReportedOK, Whole, ~request.grouped,
                      NEW c \in DOMAIN qstats
               PROVE  LET s == StatsOf(Matched(c))
                      IN /\ qstats[c].max = s.max
                         /\ qstats[c].sum * s.count = s.sum * qstats[c].count
    BY DEF StatsSurviveFallback
  <2>1. TypeOK /\ c \in 1..Collectors
    BY DEF AllInv, QueryTypeOK
  <2>2. qstats[c] = Reported(Matched(c),
                      Records(c, Matched(c), From, To, request.interval,
                              request.grouped))
    BY DEF ReportedOK, Whole
  <2> QED
    BY <2>1, <2>2, ReportedSurvives
<1> QED
  BY <1>1, BothInvariant, AlwaysReportedOK, PTL
=============================================================================
