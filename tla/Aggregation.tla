----------------------------- MODULE Aggregation ------------------------------
(***************************************************************************)
(* One aggregation search, as both time series endpoints send it: a date   *)
(* histogram over a time range, inside a terms aggregation when the        *)
(* request has a "by", and statistics of all documents; and what the code  *)
(* reads out of the answer.                                                *)
(*                                                                         *)
(* A document is a pair <<time, group>>.  The aggregation asked for is the *)
(* maximum, and Value gives a document's value.  Times are in milliseconds *)
(* (WindowPlan); what an endpoint writes of them is its own affair.        *)
(***************************************************************************)
EXTENDS WindowPlan, Sequences, FiniteSets, FiniteSetsExt, SequencesExt

CONSTANT Value(_)

Ungrouped == 0                              \* the empty label

MaxValue(ds) == Max({Value(d) : d \in ds})
GroupsOf(ds) == {d[2] : d \in ds}
Of(ds, g) == {d \in ds : d[2] = g}

\* terms: most documents first, equally many by key.
Rank(ds, g) ==
  Cardinality({h \in GroupsOf(ds) :
    \/ Cardinality(Of(ds, h)) > Cardinality(Of(ds, g))
    \/ Cardinality(Of(ds, h)) = Cardinality(Of(ds, g)) /\ h < g})
TopGroups(ds) == {g \in GroupsOf(ds) : Rank(ds, g) < GroupSize}
\* sum_other_doc_count > 0
Overflows(ds) == TopGroups(ds) # GroupsOf(ds)

\* extractMetricValue: an empty bucket has no value, which is read as 0.
BucketValue(ds, interval, b) ==
  LET in == {d \in ds : Bucket(d[1], interval) = b}
  IN IF in = {} THEN 0 ELSE MaxValue(in)

\* The records of an answer: every bucket from lo to hi (min_doc_count 0 and
\* extended_bounds), of every group that is returned.
Records(c, ds, lo, hi, interval, grouped) ==
  LET spanned == {Bucket(t, interval) : t \in lo..hi}
      In(g) == IF grouped THEN Of(ds, g) ELSE ds
  IN {[collector |-> c, group |-> g, bucket |-> b,
       value |-> BucketValue(In(g), interval, b)] :
        g \in IF grouped THEN TopGroups(ds) ELSE {Ungrouped}, b \in spanned}

\* In the order of the answer: group by group, bucket by bucket.
Before(r, s, ds) ==
  \/ r.group # s.group /\ Rank(ds, r.group) < Rank(ds, s.group)
  \/ r.group = s.group /\ r.bucket < s.bucket
InOrder(records, ds) ==
  [k \in 1..Cardinality(records) |->
     CHOOSE r \in records :
       Cardinality({s \in records : Before(s, r, ds)}) = k - 1]

\* extended_stats of all documents of the search.
StatsOf(ds) ==
  [sum |-> MapThenSumSet(Value, ds), count |-> Cardinality(ds),
   max |-> IF ds = {} THEN 0 ELSE MaxValue(ds)]
Zero == [sum |-> 0, count |-> 0, max |-> 0]
=============================================================================
