--------------------------- MODULE TimeSeriesQuery ---------------------------
(***************************************************************************)
(* GET /data/timeseries, the endpoint without a stream, put beside it: the *)
(* same request is answered from the same documents by                     *)
(* StreamTimeSeries and by ExecuteMultiMetricTimeSeriesQuery.  The two     *)
(* share nothing but the query builder and the parser of the answer, so    *)
(* the query may be taken to run when the stream has ended.                *)
(*                                                                         *)
(* The query sends one search per collector, in the random order of a map. *)
(* Unlike the stream it cuts the range to whole seconds, and takes an      *)
(* answer some of whose shards have failed, or that has timed out, for a   *)
(* whole one.                                                              *)
(***************************************************************************)
EXTENDS TimeSeriesStream

CONSTANT Second       \* milliseconds in a second, 1000 in the code
ASSUME SecondAssumption == Second \in Nat \ {0}

VARIABLES
  qpc,      \* "validate", "search", "answered" or "error"
  left,     \* the collectors not yet asked
  partial,  \* some answer lacked documents
  records,  \* response.Records, a set: their order means nothing
  qstats    \* response.Stats: what is reported of each collector's metric

queryVars == <<qpc, left, partial, records, qstats>>
bothVars == <<vars, queryVars>>

QueryTypeOK ==
  /\ qpc \in {"validate", "search", "answered", "error"}
  /\ left \subseteq 1..Collectors /\ partial \in BOOLEAN
  /\ records \subseteq RecordType
  /\ DOMAIN qstats \subseteq 1..Collectors

QueryInit ==
  /\ qpc = "validate" /\ left = 1..Collectors /\ partial = FALSE
  /\ records = {} /\ qstats = <<>>

\* Format(time.RFC3339) writes no fraction of a second.
RFC3339(t) == t - (t % Second)
\* The bounds in the query, where the windows' are replaced by others that
\* keep the fraction (RFC3339Nano), and the documents between them.
From == RFC3339(request.from)
To == RFC3339(request.to)
Matched(c) == {d \in docs[c] : From <= d[1] /\ d[1] <= To}

DateBuckets == dateBucketCount(request.from, request.to, request.interval)

\* too_many_buckets
TooManyBuckets ==
  estimateBuckets(DateBuckets, Collectors, request.grouped) > MaxESBuckets

Validate ==
  /\ qpc = "validate"
  /\ qpc' = IF InvalidRange \/ TooManyBuckets THEN "error" ELSE "search"
  /\ UNCHANGED <<left, partial, records, qstats>>

\* MUTANT of Unknown: a maximum of zero counts as none.
UnknownMax(s) == s.max = 0

\* No global statistics, or none but zeros (the average is zero with the sum).
Unknown(s) == s.max = 0 /\ s.sum = 0

\* calculateStatsFromRecords: the average is that of the records, and the
\* maximum at least zero.
calculateStatsFromRecords(rs) ==
  [sum |-> MapThenSumSet(LAMBDA r : r.value, rs), count |-> Cardinality(rs),
   max |-> Max({0} \cup {r.value : r \in rs})]

\* parseMultiMetricAggregation: a grouped search brings no global statistics.
Reported(ds, rs) ==
  IF request.grouped \/ Unknown(StatsOf(ds)) THEN calculateStatsFromRecords(rs)
                                             ELSE StatsOf(ds)

\* One collector's search: the documents that match, or those of them on the
\* shards that answered.  Without an index there is nothing to parse.
Search(c) ==
  /\ qpc = "search" /\ c \in left
  /\ left' = left \ {c}
  /\ qpc' = IF left' = {} THEN "answered" ELSE "search"
  /\ \E ds \in SUBSET Matched(c) :
       LET rs == Records(c, ds, From, To, request.interval, request.grouped)
       IN /\ partial' = (partial \/ ds # Matched(c))
          /\ \/ /\ records' = records \cup rs
                /\ qstats' = [b \in DOMAIN qstats \cup {c} |->
                               IF b = c THEN Reported(ds, rs) ELSE qstats[b]]
             \/ ds = {} /\ UNCHANGED <<records, qstats>>

\* A search fails: so does the request.
SearchFails ==
  /\ qpc = "search" /\ qpc' = "error"
  /\ records' = {} /\ qstats' = <<>> /\ UNCHANGED <<left, partial>>

QueryStep ==
  /\ pc \in {"done", "error"}
  /\ Validate \/ SearchFails \/ \E c \in 1..Collectors : Search(c)
  /\ UNCHANGED vars

QueryOver == qpc \in {"answered", "error"} /\ UNCHANGED bothVars

BothInit == Init /\ QueryInit
BothNext ==
  \/ /\ Plan \/ EmitMeta \/ StartWindow \/ Collect \/ Done \/ Fail
     /\ UNCHANGED queryVars
  \/ QueryStep
  \/ QueryOver
BothSpec == BothInit /\ [][BothNext]_bothVars

-----------------------------------------------------------------------------
(* What the query promises, alone and beside the stream.                   *)

Whole == qpc = "answered" /\ ~partial

\* A query that is let through asks for at most one date bucket more than the
\* guard counted, and for none more when the range begins on a bucket's edge:
\* dateBucketCount measures the range from its start, the histogram from the
\* edge before it.  With an interval that is no whole number of seconds there
\* are also the buckets that begin in the part of a second by which the query
\* starts early.
EstimateNearlyBounds ==
  qpc \in {"search", "answered"} =>
    LET asked == Cardinality({Bucket(t, request.interval) : t \in From..To})
        early == (Bucket(request.from, request.interval)
                    - Bucket(From, request.interval)) \div request.interval
        Estimated(n) == estimateBuckets(n, Collectors, request.grouped)
    IN /\ Estimated(asked) <= MaxESBuckets + Estimated(1 + early)
       /\ request.from % request.interval = 0 /\ request.from < request.to =>
            Estimated(asked) <= MaxESBuckets + Estimated(early)

\* Some groups of the answer about collector c are left out.
Missing(c) == request.grouped /\ Overflows(Matched(c))

\* A bucket that the cut does not reach: it has no instant of the part of a
\* second before the range, which only the query reads, and none of that at
\* its end, which only the stream reads.
Common(b) == \A t \in From..(request.from - 1) \cup (To + 1)..request.to :
               Bucket(t, request.interval) # b

\* Both endpoints give a bucket the same value: whatever has documents and is
\* in the query's answer is in the stream's, and the other way round, but for
\* the buckets at the ends of a range that is off a whole second (now-1h), and
\* unless there are more groups than a terms aggregation returns; of those the
\* query gives the largest and does not say so, where the stream is refused.
SameAnswer ==
  Whole /\ pc = "done" /\ ~truncated =>
    LET Streamed == {out[k] : k \in DOMAIN out}
        Real(rs) == {r \in rs : /\ Common(r.bucket)
                                /\ \E d \in InRange(r.collector) \cup
                                            Matched(r.collector) :
                                     IsRecordOf(r, r.collector, d)}
    IN /\ Real(records) \subseteq Streamed
       /\ \A r \in Real(Streamed) : r \in records \/ Missing(r.collector)

\* Without groups the query reports the statistics of all documents that
\* match, although zeros are taken for "unknown" and replaced by what the
\* buckets say.
StatsSurviveFallback ==
  Whole /\ ~request.grouped =>
    \A c \in DOMAIN qstats :
      LET s == StatsOf(Matched(c))
      IN qstats[c].max = s.max /\ qstats[c].sum * s.count = s.sum * qstats[c].count

-----------------------------------------------------------------------------
(* The inductive invariant behind these, beside the stream's: what the     *)
(* answers of the collectors asked so far have brought.                    *)

\* A record carries the value of all documents that match.
MatchedValue(r) ==
  r.value = BucketValue({d \in Matched(r.collector) : Label(d) = r.group},
                        request.interval, r.bucket)

AnswersOK ==
  /\ \A r \in records : MatchedValue(r)
  /\ \A c \in (1..Collectors) \ left : \A d \in Matched(c) :
       Missing(c) \/ \E r \in records : IsRecordOf(r, c, d)

QueryInv ==
  /\ qpc \in {"search", "answered"} => ~InvalidRange /\ ~TooManyBuckets
  /\ qpc = "answered" => left = {}
  /\ qpc # "error" /\ ~partial => AnswersOK

\* What is reported of a collector is computed from its own documents and
\* records, whatever the others' answers are.
ReportedOK ==
  ~partial =>
    \A c \in DOMAIN qstats :
      qstats[c] = Reported(Matched(c),
                    Records(c, Matched(c), From, To, request.interval,
                            request.grouped))
=============================================================================
