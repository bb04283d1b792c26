------------------------------ MODULE WindowPlan -----------------------------
(***************************************************************************)
(* The arithmetic of windowed aggregation: how many date buckets one       *)
(* request to Elasticsearch may ask for, and the windows into which a time *)
(* range is cut.  Times and intervals are in milliseconds, the unit        *)
(* planTimeWindows aligns to.                                              *)
(***************************************************************************)
EXTENDS Integers

CONSTANT GroupSize    \* groupByTermsSize, 100 in the code
ASSUME GroupSizeAssumption == GroupSize \in Nat \ {0}

\* MUTANT of dateBucketCount: the last bucket is not counted.
dateBucketCountShort(from, to, interval) ==
  IF interval <= 0 \/ to <= from THEN 0 ELSE (to - from) \div interval

\* The date buckets of a range, as the non-streaming guard counts them.
dateBucketCount(from, to, interval) ==
  IF interval <= 0 \/ to <= from THEN 0 ELSE ((to - from) \div interval) + 1

\* Date buckets, each with one bucket per metric and one of its own, of
\* every group.
estimateBuckets(dateBuckets, metricCount, grouped) ==
  dateBuckets * (IF grouped THEN GroupSize ELSE 1) * (1 + metricCount)

\* MUTANT of windowDateBuckets: Elasticsearch's limit is not looked at.
windowDateBucketsUnlimited(maxESBuckets, windowBuckets, metricCount, grouped) ==
  windowBuckets

\* The date buckets of one window: windowBuckets, unless Elasticsearch's
\* limit allows fewer, and never none.
windowDateBuckets(maxESBuckets, windowBuckets, metricCount, grouped) ==
  LET room == maxESBuckets \div estimateBuckets(1, metricCount, grouped)
      hard == IF room < 1 THEN 1 ELSE room
  IN IF hard < windowBuckets THEN hard ELSE windowBuckets

\* planTimeWindows refuses the plan.
NoPlan(from, to, interval, buckets, limit) ==
  interval < 1 \/ buckets < 1 \/ limit < 1 \/ to < from

\* MUTANT of Origin: the windows start where the range does.
OriginUnaligned(from, interval) == from

Origin(from, interval) == from - (from % interval)
windowCount(from, to, interval, buckets) ==
  ((to - Origin(from, interval)) \div (interval * buckets)) + 1

\* The windows: all but the last end on a bucket boundary and exclude their
\* end; the last one includes the end of the range.
planTimeWindows(from, to, interval, buckets) ==
  LET span == interval * buckets
      count == windowCount(from, to, interval, buckets)
      End(i) == IF i = count THEN to ELSE Origin(from, interval) + i * span
  IN [i \in 1..count |-> [from |-> IF i = 1 THEN from ELSE End(i - 1),
                          to |-> End(i),
                          inclusive |-> i = count]]

\* MUTANT of InWindow: every window includes its end.
InWindowClosed(t, w) == w.from <= t /\ t <= w.to
\* MUTANT of InWindow: no window does.
InWindowOpen(t, w) == w.from <= t /\ t < w.to

\* The time filter of a window's query.
InWindow(t, w) == w.from <= t /\ (t < w.to \/ (w.inclusive /\ t = w.to))
\* date_histogram with a fixed interval: the bucket of a time.
Bucket(t, interval) == t - (t % interval)
=============================================================================
