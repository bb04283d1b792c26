--------------------------- MODULE TimeSeriesStream --------------------------
(***************************************************************************)
(* The producer of GET /data/timeseries/stream: StreamTimeSeries plans     *)
(* windows, asks Elasticsearch for each window and collector in turn,      *)
(* merges the global statistics and emits one batch of records per answer, *)
(* up to a record budget.  One metric per collector.                       *)
(***************************************************************************)
EXTENDS Aggregation

CONSTANTS
  Collectors,    \* how many collectors the metrics belong to
  Froms, Tos, Intervals, \* the requests
  MaxRange,      \* TAP_MAX_TIME_RANGE_DAYS
  WindowBuckets, \* window_buckets, or TAP_STREAM_WINDOW_BUCKETS
  MaxESBuckets,  \* TAP_MAX_ES_BUCKETS
  MaxWindows,    \* TAP_STREAM_MAX_WINDOWS
  Budgets,       \* maxRecords, after clamping
  Documents      \* what a collector may have

ASSUME ParametersAssumption ==
  /\ Collectors \in Nat \ {0} /\ MaxWindows \in Nat \ {0}
  /\ Froms \cup Tos \subseteq Int /\ Intervals \cup Budgets \subseteq Nat \ {0}
  /\ WindowBuckets \in Nat \ {0} /\ MaxESBuckets \in Nat /\ MaxRange \in Nat
  /\ \A ds \in Documents :
       /\ ds \subseteq Int \X (Nat \ {Ungrouped}) /\ IsFiniteSet(ds)
       /\ \A d \in ds : Value(d) \in Int

VARIABLES
  request,   \* from, to, interval, limit (maxRecords) and grouped
  docs,      \* the documents of each collector
  pc, windows,
  window, collector, \* indices of the two loops
  acc,       \* the merged metricState of each collector's metrics
  out,       \* the records emitted, in order
  truncated,
  stats      \* StreamDone.Stats: those of acc, or none

vars == <<request, docs, pc, windows, window, collector, acc, out, truncated,
          stats>>
inputVars == <<request, docs>>

NoStats == <<>>
PerWindow == windowDateBuckets(MaxESBuckets, WindowBuckets, Collectors,
                               request.grouped)

RecordType ==
  [collector : 1..Collectors, group : Nat, bucket : Int, value : Int]

TypeOK ==
  /\ request \in [from : Froms, to : Tos, interval : Intervals,
                  limit : Budgets, grouped : BOOLEAN]
  /\ docs \in [1..Collectors -> Documents]
  /\ pc \in {"plan", "meta", "window", "collector", "done", "error"}
  /\ windows \in Seq([from : Int, to : Int, inclusive : BOOLEAN])
  /\ window \in Nat \ {0} /\ collector \in 1..Collectors
  /\ DOMAIN acc = 1..Collectors
  /\ out \in Seq(RecordType)
  /\ truncated \in BOOLEAN

Init ==
  /\ \E f \in Froms, t \in Tos, i \in Intervals, n \in Budgets, g \in BOOLEAN :
       request = [from |-> f, to |-> t, interval |-> i, limit |-> n,
                  grouped |-> g]
  /\ docs \in [1..Collectors -> Documents]
  /\ pc = "plan" /\ windows = <<>> /\ window = 1 /\ collector = 1
  /\ acc = [c \in 1..Collectors |-> Zero] /\ out = <<>>
  /\ truncated = FALSE /\ stats = NoStats

\* ValidateTimeRange
InvalidRange == \/ request.from > request.to
                \/ request.to - request.from > MaxRange

\* Validation, and the windows.
Plan ==
  /\ pc = "plan"
  /\ LET refused == \/ InvalidRange
                    \/ NoPlan(request.from, request.to, request.interval,
                              PerWindow, MaxWindows)
                    \/ windowCount(request.from, request.to, request.interval,
                                   PerWindow) > MaxWindows
     IN IF refused
        THEN pc' = "error" /\ UNCHANGED windows
        ELSE /\ windows' = planTimeWindows(request.from, request.to,
                                           request.interval, PerWindow)
             /\ pc' = "meta"
  /\ UNCHANGED <<inputVars, window, collector, acc, out, truncated, stats>>

\* emit or the context fails, or a search fails, times out or has lost a
\* shard: the stream ends with that error.
Fail ==
  /\ pc \in {"meta", "window", "collector"} /\ pc' = "error"
  /\ UNCHANGED <<inputVars, windows, window, collector, acc, out, truncated,
                 stats>>

EmitMeta ==
  /\ pc = "meta" /\ pc' = "window"
  /\ UNCHANGED <<inputVars, windows, window, collector, acc, out, truncated,
                 stats>>

StartWindow ==
  /\ pc = "window" /\ window <= Len(windows)
  /\ pc' = "collector" /\ collector' = 1
  /\ UNCHANGED <<inputVars, windows, window, acc, out, truncated, stats>>

\* metricState.merge of the statistics of the documents ds.
merge(a, ds) ==
  LET b == StatsOf(ds)
  IN IF b.count = 0 THEN a
     ELSE [sum |-> a.sum + b.sum, count |-> a.count + b.count,
           max |-> IF a.count = 0 \/ b.max > a.max THEN b.max ELSE a.max]

\* The documents of collector c in window w, and the records of the answer.
\* The histogram's bounds leave out an exclusive end.
Found(c, w) == {d \in docs[c] : InWindow(d[1], w)}
RecordsOf(c, w) ==
  InOrder(Records(c, Found(c, w), w.from,
                  IF w.inclusive THEN w.to ELSE w.to - 1,
                  request.interval, request.grouped),
          Found(c, w))

\* The next collector, the next window, or the end, after `sent` records.
Advance(sent, cut) ==
  LET full == sent >= request.limit
      more == window < Len(windows) \/ collector < Collectors
  IN /\ truncated' = (cut \/ (full /\ more))
     /\ IF full \/ collector = Collectors
        THEN /\ pc' = "window" /\ UNCHANGED collector
             /\ window' = IF truncated' THEN Len(windows) + 1 ELSE window + 1
        ELSE /\ pc' = "collector" /\ collector' = collector + 1
             /\ UNCHANGED window

\* Nothing was found: the next collector or window.
Skip ==
  IF collector = Collectors
  THEN pc' = "window" /\ window' = window + 1 /\ UNCHANGED collector
  ELSE pc' = "collector" /\ collector' = collector + 1 /\ UNCHANGED window

\* The records the budget has room for.
Cut(found, room) == SubSeq(found, 1, IF Len(found) > room THEN room
                                                         ELSE Len(found))

\* MUTANT of TooManyGroups: the groups beyond the limit are left out.
TooManyGroupsNever(ds) == FALSE

\* group_limit: the answer lacks groups.
TooManyGroups(ds) == request.grouped /\ Overflows(ds)

\* One answer: nothing for a window without records (no group, or no index
\* of these days), else the statistics, and the records the budget allows.
Collect ==
  /\ pc = "collector" /\ window <= Len(windows)
  /\ LET ds == Found(collector, windows[window])
         found == RecordsOf(collector, windows[window])
         room == request.limit - Len(out)
     IN \/ /\ TooManyGroups(ds) /\ pc' = "error"
           /\ UNCHANGED <<window, collector, acc, out, truncated>>
        \/ /\ ds = {} /\ Skip
           /\ UNCHANGED <<acc, out, truncated>>
        \/ /\ ~TooManyGroups(ds) /\ found # <<>>
           /\ acc' = [acc EXCEPT ![collector] = merge(@, ds)]
           /\ out' = out \o Cut(found, room)
           /\ Advance(Len(out'), Len(found) > room)
  /\ UNCHANGED <<inputVars, windows, stats>>

\* StreamDone; no statistics for a truncated stream.
Done ==
  /\ pc = "window" /\ window > Len(windows) /\ pc' = "done"
  /\ stats' = IF truncated THEN NoStats ELSE acc
  /\ UNCHANGED <<inputVars, windows, window, collector, acc, out, truncated>>

Terminated == pc \in {"done", "error"} /\ UNCHANGED vars

Next == Plan \/ EmitMeta \/ StartWindow \/ Collect \/ Done \/ Fail \/ Terminated

Spec == Init /\ [][Next]_vars

-----------------------------------------------------------------------------
(* What the stream promises.                                               *)

InRange(c) == {d \in docs[c] : request.from <= d[1] /\ d[1] <= request.to}

\* The record a document belongs to.
Label(d) == IF request.grouped THEN d[2] ELSE Ungrouped
IsRecordOf(r, c, d) ==
  /\ r.collector = c /\ r.group = Label(d)
  /\ r.bucket = Bucket(d[1], request.interval)

\* No bucket is split between two windows, so none is emitted twice, and a
\* collector's buckets come in ascending order in each group
\* (planTimeWindows cuts on bucket boundaries, whatever the start of the
\* range; the histogram's bounds exclude the end a window excludes).
BucketsOnce ==
  \A k, l \in DOMAIN out :
    /\ k < l /\ out[k].collector = out[l].collector
    /\ out[k].group = out[l].group
    => out[k].bucket < out[l].bucket

\* A stream that is not truncated has emitted the record of every document
\* of the range, and a truncated one is full: an instant on a window's edge
\* belongs to exactly one window, and an answer that lacks groups is refused.
NothingLost ==
  pc = "done" =>
    IF truncated THEN Len(out) = request.limit
    ELSE \A c \in 1..Collectors : \A d \in InRange(c) :
           \E k \in DOMAIN out : IsRecordOf(out[k], c, d)

\* The global statistics are those of all documents of the range, each
\* counted once, although they were merged window by window.
StatsAreGlobal ==
  stats # NoStats => \A c \in 1..Collectors : stats[c] = StatsOf(InRange(c))

\* No request asks Elasticsearch for more buckets than it allows, unless it
\* does not even allow a single one, and there are not too many requests.
WithinESLimit ==
  /\ Len(windows) <= MaxWindows
  /\ \A i \in DOMAIN windows :
       LET w == windows[i]
           asked == Cardinality({Bucket(t, request.interval) :
                      t \in {x \in w.from..w.to : InWindow(x, w)}})
       IN \/ estimateBuckets(asked, Collectors, request.grouped) <= MaxESBuckets
          \/ asked <= 1

-----------------------------------------------------------------------------
(* The inductive invariant behind the first two: how far each collector's  *)
(* windows have been worked off, and what has been sent of them.           *)

\* The first window that collector c has not been asked about.
NextFor(c) == IF pc = "collector" /\ c < collector THEN window + 1 ELSE window

Working == pc \in {"window", "collector"}

PlanOK ==
  /\ pc \in {"meta", "window", "collector", "done"} => windows # <<>>
  /\ windows # <<>> =>
       /\ ~NoPlan(request.from, request.to, request.interval, PerWindow,
                  MaxWindows)
       /\ windows = planTimeWindows(request.from, request.to,
                                    request.interval, PerWindow)
       /\ Len(windows) <= MaxWindows

PlaceOK ==
  /\ pc \in {"plan", "meta"} => window = 1 /\ out = <<>> /\ ~truncated
  /\ pc = "collector" => window <= Len(windows)
  /\ truncated => pc \in {"window", "done", "error"} /\ window > Len(windows)

BudgetOK ==
  /\ Len(out) <= request.limit
  /\ truncated => Len(out) = request.limit

\* A record carries the value of all its documents, those of other windows
\* included: there are none.
RightValue(r) ==
  r.value = BucketValue({d \in InRange(r.collector) : Label(d) = r.group},
                        request.interval, r.bucket)

\* What is still to come of a collector lies behind all it has sent.
OutOK ==
  \A k \in DOMAIN out :
    /\ RightValue(out[k])
    /\ Working /\ NextFor(out[k].collector) <= Len(windows) =>
         out[k].bucket < Bucket(windows[NextFor(out[k].collector)].from,
                                request.interval)

\* The documents of the windows that are done have been sent.
SentOK ==
  Working /\ ~truncated =>
    \A c \in 1..Collectors : \A d \in docs[c] : \A i \in DOMAIN windows :
      i < NextFor(c) /\ InWindow(d[1], windows[i]) =>
        \E k \in DOMAIN out : IsRecordOf(out[k], c, d)

IInv == PlanOK /\ PlaceOK /\ BudgetOK /\ OutOK /\ SentOK /\ BucketsOnce
        /\ NothingLost

\* The third needs the statistics merged so far: those of the documents in
\* the windows that are done.
DoneWith(c) ==
  {d \in docs[c] :
     \E i \in DOMAIN windows : i < NextFor(c) /\ InWindow(d[1], windows[i])}

MergedOK ==
  pc \notin {"done", "error"} /\ ~truncated =>
    \A c \in 1..Collectors : acc[c] = StatsOf(DoneWith(c))

StatsInv == MergedOK /\ StatsAreGlobal
=============================================================================
