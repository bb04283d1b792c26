------------------------------ MODULE RawStream ------------------------------
(***************************************************************************)
(* The producer of GET /data/raw/stream: StreamRaw opens one               *)
(* point-in-time snapshot (PIT) per cluster, reads it page by page with    *)
(* one asynchronous prefetch per cluster, merges the clusters by time with *)
(* a heap, and hands the records to its consumer in batches.               *)
(*                                                                         *)
(* A snapshot is the sequence of the times of its records in the order     *)
(* Elasticsearch returns them (@timestamp desc, then _shard_doc); a record *)
(* is a cluster and a position in its snapshot; a sort value               *)
(* (search_after) is the position of the record that carries it, 0 being   *)
(* "no search_after".                                                      *)
(***************************************************************************)
EXTENDS Integers, Sequences

CONSTANTS
  Clusters,    \* the iterators, one per entry of clusterIDs
  Views,       \* what a snapshot may contain
  PageSize,    \* req.Size, the records asked for in one page
  MaxRecords,  \* maxRecords, after clamping
  None         \* no iterator

\* resolveStreamPageSize and StreamRaw only let positive sizes through; a
\* snapshot is in descending order because the search sorts it.
ASSUME ClustersAssumption == Clusters # {} /\ None \notin Clusters
ASSUME SizesAssumption == PageSize \in Nat \ {0} /\ MaxRecords \in Nat \ {0}
ASSUME ViewsAssumption ==
  \A v \in Views : /\ v \in Seq(Nat)
                   /\ \A i, j \in DOMAIN v : i < j => v[i] >= v[j]

VARIABLES
  \* the producer
  pc,          \* where StreamRaw / mergeRawStream is
  opened,      \* clusters whose plan the opening loop has dealt with
  primed,      \* clusters ensured before the heap is used
  cur,         \* the iterator whose ensure() is in progress, or None
  heap,        \* clusters whose iterator is in the heap
  batch,       \* records appended and not emitted
  out,         \* records whose emission was acknowledged
  truncated,
  outcome,     \* what StreamRaw returns: "none" yet, "done" or "error"
  lastID,      \* position in the cursor of the last acknowledged batch
  doneCursor,  \* position in StreamDone.Cursor, 0 if it has none
  ctx,         \* the request context: "live" or "cancelled"
  \* one rawStreamIter per cluster
  view,        \* the frozen contents of the snapshot
  start,       \* the search_after the request resumes from
  pos,         \* absolute position of the last record read from the buffer
  applied,     \* searchAfter: position of the last record of the buffer
  exhausted,   \* the clusters with it.done
  committed,   \* committedAfter
  pit,         \* "none", "open" or "released"; and, at Elasticsearch until the
               \* lease runs out, "kept" for a cursor, "stray" (opened, but
               \* the answer was lost) or "left" (the close failed)
  prefetch,    \* the prefetch goroutine
  asked        \* the searchAfter it captured

iterVars == <<view, start, pos, applied, exhausted, committed, prefetch,
              asked>>
mergeVars == <<primed, cur, heap, batch, out, truncated, lastID>>
vars == <<pc, opened, ctx, outcome, doneCursor, pit, mergeVars, iterVars>>

Record == Clusters \X Nat
Time(r) == view[r[1]][r[2]]

hasHead(c) == pos[c] < applied[c]
resumable == \A c, d \in Clusters : c = d
\* A page holds the records after position a, PageSize of them if there are.
PageEnd(c, a) == IF a + PageSize <= Len(view[c]) THEN a + PageSize
                                                 ELSE Len(view[c])

\* heap.Less compares the times of the heads; the top is some newest head.
IsTop(c) == /\ c \in heap
            /\ \A d \in heap : view[c][pos[c] + 1] >= view[d][pos[d] + 1]

ControlType ==
  /\ pc \in {"open", "meta", "prime", "merge", "flush", "failflush",
             "finish", "close", "closed"}
  /\ opened \subseteq Clusters
  /\ outcome \in {"none", "done", "error"}
  /\ ctx \in {"live", "cancelled"}
  /\ doneCursor \in Nat
  /\ pit \in [Clusters -> {"none", "stray", "open", "kept", "released", "left"}]

MergeType ==
  /\ primed \subseteq Clusters /\ heap \subseteq Clusters
  /\ cur \in Clusters \cup {None}
  /\ batch \in Seq(Record) /\ out \in Seq(Record)
  /\ truncated \in BOOLEAN
  /\ lastID \in Nat

IterType ==
  /\ view \in [Clusters -> Seq(Nat)]
  /\ start \in [Clusters -> Nat] /\ pos \in [Clusters -> Nat]
  /\ applied \in [Clusters -> Nat] /\ committed \in [Clusters -> Nat]
  /\ exhausted \subseteq Clusters
  /\ prefetch \in [Clusters -> {"idle", "running", "page", "failed", "lost"}]
  /\ asked \in [Clusters -> Nat]

TypeOK == ControlType /\ MergeType /\ IterType

Init ==
  /\ pc = "open" /\ opened = {} /\ primed = {} /\ heap = {} /\ cur = None
  /\ batch = <<>> /\ out = <<>> /\ truncated = FALSE
  /\ outcome = "none" /\ ctx = "live" /\ lastID = 0 /\ doneCursor = 0
  /\ view = [c \in Clusters |-> <<>>]
  /\ start = [c \in Clusters |-> 0] /\ pos = [c \in Clusters |-> 0]
  /\ applied = [c \in Clusters |-> 0] /\ committed = [c \in Clusters |-> 0]
  /\ exhausted = {}
  /\ pit = [c \in Clusters |-> "none"]
  /\ prefetch = [c \in Clusters |-> "idle"]
  /\ asked = [c \in Clusters |-> 0]

-----------------------------------------------------------------------------
(* Opening the snapshots.                                                  *)

Fail == /\ outcome' = "error" /\ pc' = "close"
        /\ UNCHANGED doneCursor

\* Validation, a bad cursor, too many or no clusters: nothing is opened.
Reject ==
  /\ pc = "open" /\ opened = {} /\ Fail
  /\ UNCHANGED <<opened, ctx, pit, mergeVars, iterVars>>

\* The cursor of a completed stream is answered at once, without a meta.
ReplayDone ==
  /\ pc = "open" /\ opened = {} /\ resumable
  /\ outcome' = "done" /\ pc' = "close"
  /\ UNCHANGED <<opened, ctx, doneCursor, pit, mergeVars, iterVars>>

\* The plan has no index or no time range: an iterator with no records.
OpenEmpty(c) ==
  /\ pc = "open" /\ c \notin opened
  /\ opened' = opened \cup {c}
  /\ exhausted' = exhausted \cup {c}
  /\ UNCHANGED <<pc, ctx, outcome, doneCursor, pit, mergeVars,
                 view, start, pos, applied, committed, prefetch, asked>>

OpenPIT(c) ==
  /\ pc = "open" /\ c \notin opened /\ ctx = "live"
  /\ opened' = opened \cup {c}
  /\ \E v \in Views : view' = [view EXCEPT ![c] = v]
  /\ pit' = [pit EXCEPT ![c] = "open"]
  /\ UNCHANGED <<pc, ctx, outcome, doneCursor, mergeVars,
                 start, pos, applied, exhausted, committed, prefetch, asked>>

\* A resumed stream takes over the snapshot and the search_after of its
\* cursor, which was issued for some record of that snapshot.
OpenResumed(c) ==
  /\ pc = "open" /\ c \notin opened /\ resumable
  /\ opened' = opened \cup {c}
  /\ \E v \in Views : \E p \in DOMAIN v :
       /\ view' = [view EXCEPT ![c] = v]
       /\ start' = [start EXCEPT ![c] = p]
       /\ pos' = [pos EXCEPT ![c] = p]
       /\ applied' = [applied EXCEPT ![c] = p]
  /\ pit' = [pit EXCEPT ![c] = "open"]
  /\ UNCHANGED <<pc, ctx, outcome, doneCursor, mergeVars,
                 exhausted, committed, prefetch, asked>>

\* A failed plan or OpenPIT is remembered; the loop goes on with the others.
\* An OpenPIT may have opened a snapshot and not be heard: it has no iterator.
OpenFail(c) ==
  /\ pc = "open" /\ c \notin opened
  /\ opened' = opened \cup {c}
  /\ outcome' = "error"
  /\ pit' = pit \/ pit' = [pit EXCEPT ![c] = "stray"]
  /\ UNCHANGED <<pc, ctx, doneCursor, mergeVars, iterVars>>

\* Strict: one failed cluster fails the stream.
OpenEnd ==
  /\ pc = "open" /\ opened = Clusters
  /\ pc' = IF outcome = "error" THEN "close" ELSE "meta"
  /\ UNCHANGED <<opened, ctx, outcome, doneCursor, pit, mergeVars, iterVars>>

EmitMeta ==
  /\ pc = "meta"
  /\ \/ pc' = "prime" /\ UNCHANGED <<outcome, doneCursor>>
     \/ Fail
  /\ UNCHANGED <<opened, ctx, pit, mergeVars, iterVars>>

-----------------------------------------------------------------------------
(* Reading one iterator: ensure() and its prefetch goroutine.              *)

\* Start of the priming loop's next ensure(), and of the merge loop.
PrimeNext(c) ==
  /\ pc = "prime" /\ cur = None /\ c \notin primed
  /\ cur' = c
  /\ UNCHANGED <<pc, opened, ctx, outcome, doneCursor, pit, primed, heap,
                 batch, out, truncated, lastID, iterVars>>

PrimeEnd ==
  /\ pc = "prime" /\ cur = None /\ primed = Clusters
  /\ pc' = "merge"
  /\ UNCHANGED <<opened, ctx, outcome, doneCursor, pit, mergeVars, iterVars>>

\* MUTANT of ApplyPage: the prefetch captures the search_after before the
\* page has moved it, and reads the same page again.
ApplyPagePrefetchOld(c, a) ==
  LET end == PageEnd(c, a)
      short == end - a < PageSize
  IN /\ pos' = [pos EXCEPT ![c] = a]
     /\ applied' = [applied EXCEPT ![c] = end]
     /\ exhausted' = IF short THEN exhausted \cup {c} ELSE exhausted \ {c}
     /\ prefetch' = [prefetch EXCEPT ![c] = IF short THEN "idle" ELSE "running"]
     /\ asked' = [asked EXCEPT ![c] = a]

\* MUTANT of ApplyPage: an empty page is not taken for the last one.
ApplyPageEmptyGoesOn(c, a) ==
  LET end == PageEnd(c, a)
      short == end - a \in 1..(PageSize - 1)
  IN /\ pos' = [pos EXCEPT ![c] = a]
     /\ applied' = [applied EXCEPT ![c] = end]
     /\ exhausted' = IF short THEN exhausted \cup {c} ELSE exhausted \ {c}
     /\ prefetch' = [prefetch EXCEPT ![c] = IF short THEN "idle" ELSE "running"]
     /\ asked' = [asked EXCEPT ![c] = end]

\* applyPITPage of the page asked for after position a, then
\* startPITPrefetch with the new search_after unless the page was short.
ApplyPage(c, a) ==
  LET end == PageEnd(c, a)
      short == end - a < PageSize
  IN /\ pos' = [pos EXCEPT ![c] = a]
     /\ applied' = [applied EXCEPT ![c] = end]
     /\ exhausted' = IF short THEN exhausted \cup {c} ELSE exhausted \ {c}
     /\ prefetch' = [prefetch EXCEPT ![c] = IF short THEN "idle" ELSE "running"]
     /\ asked' = [asked EXCEPT ![c] = end]

\* A failed ensure() ends priming at once; in the merge the records already
\* appended are emitted first.
EnsureError ==
  IF pc = "prime" THEN outcome' = "error" /\ pc' = "close"
                  ELSE pc' = "failflush" /\ UNCHANGED outcome

Fetching(c) == prefetch[c] # "idle"

\* No goroutine was started: the page is fetched in line.
FetchInline(c) ==
  /\ cur = c /\ ~hasHead(c) /\ c \notin exhausted /\ ~Fetching(c)
  /\ \/ /\ ctx = "live" /\ ApplyPage(c, applied[c])
        /\ UNCHANGED <<pc, outcome, cur>>
     \/ /\ EnsureError /\ cur' = None
        /\ UNCHANGED <<pos, applied, exhausted, prefetch, asked>>
  /\ UNCHANGED <<opened, ctx, doneCursor, pit, primed, heap, batch, out,
                 truncated, lastID, view, start, committed>>

\* MUTANT of TakePrefetched: no ctx.Done case, only the channel is awaited.
TakePrefetchedDeaf(c) ==
  /\ cur = c /\ ~hasHead(c) /\ c \notin exhausted /\ Fetching(c)
  /\ \/ /\ prefetch[c] = "page"
        /\ ApplyPage(c, asked[c])
        /\ UNCHANGED <<pc, outcome, cur>>
     \/ /\ prefetch[c] = "failed"
        /\ EnsureError /\ cur' = None
        /\ prefetch' = [prefetch EXCEPT ![c] = "idle"]
        /\ UNCHANGED <<pos, applied, exhausted, asked>>
  /\ UNCHANGED <<opened, ctx, doneCursor, pit, primed, heap, batch, out,
                 truncated, lastID, view, start, committed>>

\* Waiting for the goroutine's page, or for the end of the context.
TakePrefetched(c) ==
  /\ cur = c /\ ~hasHead(c) /\ c \notin exhausted /\ Fetching(c)
  /\ \/ /\ prefetch[c] = "page"
        /\ ApplyPage(c, asked[c])
        /\ UNCHANGED <<pc, outcome, cur>>
     \/ /\ prefetch[c] = "failed"
        /\ EnsureError /\ cur' = None
        /\ prefetch' = [prefetch EXCEPT ![c] = "idle"]
        /\ UNCHANGED <<pos, applied, exhausted, asked>>
     \/ /\ ctx = "cancelled" /\ EnsureError /\ cur' = None
        /\ UNCHANGED <<pos, applied, exhausted, prefetch, asked>>
  /\ UNCHANGED <<opened, ctx, doneCursor, pit, primed, heap, batch, out,
                 truncated, lastID, view, start, committed>>

\* The batch is a full page, or its records use up the budget.
BatchDue == \/ Len(batch) >= PageSize
            \/ Len(out) + Len(batch) >= MaxRecords

\* ensure() returns: a head, or nothing more to read.  The merge then fixes
\* or pops the heap and decides whether the batch has to go out.
EnsureReturn(c) ==
  /\ cur = c /\ (hasHead(c) \/ c \in exhausted)
  /\ cur' = None
  /\ heap' = IF hasHead(c) THEN heap \cup {c} ELSE heap \ {c}
  /\ IF pc = "prime"
     THEN primed' = primed \cup {c} /\ UNCHANGED pc
     ELSE /\ pc' = IF BatchDue THEN "flush" ELSE "merge"
          /\ UNCHANGED primed
  /\ UNCHANGED <<opened, ctx, outcome, doneCursor, pit, batch, out,
                 truncated, lastID, iterVars>>

\* The goroutine: its search succeeds or not; when the context is gone the
\* page may also be dropped (the select has two ready cases).
PrefetchFetch(c) ==
  /\ prefetch[c] = "running"
  /\ \/ ctx = "live" /\ prefetch' = [prefetch EXCEPT ![c] = "page"]
     \/ prefetch' = [prefetch EXCEPT ![c] = "failed"]
     \/ ctx = "cancelled" /\ prefetch' = [prefetch EXCEPT ![c] = "lost"]
  /\ UNCHANGED <<pc, opened, ctx, outcome, doneCursor, pit, mergeVars,
                 view, start, pos, applied, exhausted, committed, asked>>

-----------------------------------------------------------------------------
(* mergeRawStream.                                                         *)

\* One turn of the loop: the newest head is appended and its iterator
\* advances, which commits the record's sort value.
MergeTake(c) ==
  /\ pc = "merge" /\ cur = None /\ ctx = "live" /\ IsTop(c)
  /\ batch' = Append(batch, <<c, pos[c] + 1>>)
  /\ pos' = [pos EXCEPT ![c] = @ + 1]
  /\ committed' = [committed EXCEPT ![c] = pos[c] + 1]
  /\ cur' = c
  /\ UNCHANGED <<pc, opened, ctx, outcome, doneCursor, pit, primed, heap,
                 out, truncated, lastID, view, start, applied, exhausted,
                 prefetch, asked>>

MergeCancelled ==
  /\ pc = "merge" /\ cur = None /\ ctx = "cancelled" /\ heap # {} /\ Fail
  /\ UNCHANGED <<opened, ctx, pit, mergeVars, iterVars>>

\* MUTANT of MergeDrained: no final flush.
MergeDrainedNoFlush ==
  /\ pc = "merge" /\ cur = None /\ heap = {}
  /\ pc' = "finish"
  /\ UNCHANGED <<opened, ctx, outcome, doneCursor, pit, mergeVars, iterVars>>

\* The heap is empty: what is left in the batch goes out.
MergeDrained ==
  /\ pc = "merge" /\ cur = None /\ heap = {}
  /\ pc' = IF batch = <<>> THEN "finish" ELSE "flush"
  /\ UNCHANGED <<opened, ctx, outcome, doneCursor, pit, mergeVars, iterVars>>

\* MUTANT of Emitted: the cursor carries searchAfter, the end of the page.
EmittedPageEnd ==
  /\ out' = out \o batch /\ batch' = <<>>
  /\ lastID' = IF resumable THEN applied[CHOOSE c \in Clusters : TRUE]
                            ELSE lastID

\* emit() of the batch succeeded.  A single cluster's message carries the
\* cursor of its committed sort value.
Emitted ==
  /\ out' = out \o batch /\ batch' = <<>>
  /\ lastID' = IF resumable THEN committed[CHOOSE c \in Clusters : TRUE]
                            ELSE lastID

\* MUTANT of Flush: reaching the budget always counts as truncation.
FlushAlwaysTruncated ==
  /\ pc = "flush"
  /\ \/ /\ Emitted
        /\ IF Len(out') >= MaxRecords
           THEN truncated' = TRUE /\ pc' = "finish"
           ELSE pc' = "merge" /\ UNCHANGED truncated
        /\ UNCHANGED <<outcome, doneCursor>>
     \/ Fail /\ UNCHANGED <<out, batch, lastID, truncated>>
  /\ UNCHANGED <<opened, ctx, pit, primed, cur, heap, iterVars>>

Flush ==
  /\ pc = "flush"
  /\ \/ /\ Emitted
        /\ IF Len(out') >= MaxRecords
           THEN truncated' = (heap # {}) /\ pc' = "finish"
           ELSE pc' = "merge" /\ UNCHANGED truncated
        /\ UNCHANGED <<outcome, doneCursor>>
     \/ Fail /\ UNCHANGED <<out, batch, lastID, truncated>>
  /\ UNCHANGED <<opened, ctx, pit, primed, cur, heap, iterVars>>

\* The flush of an ensure() failure; the stream fails either way.
FailFlush ==
  /\ pc = "failflush"
  /\ Emitted \/ UNCHANGED <<out, batch, lastID>>
  /\ Fail
  /\ UNCHANGED <<opened, ctx, pit, primed, cur, heap, truncated, iterVars>>

\* StreamDone: complete unless truncated, with a cursor for one cluster.
Finish ==
  /\ pc = "finish"
  /\ outcome' = "done" /\ pc' = "close"
  /\ doneCursor' = IF resumable THEN committed[CHOOSE c \in Clusters : TRUE]
                                ELSE 0
  /\ UNCHANGED <<opened, ctx, pit, mergeVars, iterVars>>

\* MUTANT of Keeps: searchAfter is tested instead of committedAfter.
KeepsSearched(c) == applied[c] # 0 /\ resumable
\* A single cluster that committed a record keeps its snapshot for the
\* cursor.
Keeps(c) == committed[c] # 0 /\ resumable

\* The deferred closePIT of every iterator.  A close may fail or not end in
\* time, which is only logged.
ClosePITs ==
  /\ pc = "close" /\ pc' = "closed"
  /\ \E failed \in SUBSET Clusters :
       pit' = [c \in Clusters |->
         IF pit[c] # "open" THEN pit[c]
         ELSE IF Keeps(c) THEN "kept"
         ELSE IF c \in failed THEN "left" ELSE "released"]
  /\ UNCHANGED <<opened, ctx, outcome, doneCursor, mergeVars, iterVars>>

\* The client goes away, the stream times out, or runStream is through.
Cancel ==
  /\ ctx = "live" /\ ctx' = "cancelled"
  /\ UNCHANGED <<pc, opened, outcome, doneCursor, pit, mergeVars, iterVars>>

Terminated ==
  /\ pc = "closed" /\ ctx = "cancelled"
  /\ \A c \in Clusters : prefetch[c] # "running"
  /\ UNCHANGED vars

Producer ==
  \/ Reject \/ ReplayDone \/ OpenEnd \/ EmitMeta \/ PrimeEnd
  \/ MergeCancelled \/ MergeDrained \/ Flush \/ FailFlush \/ Finish
  \/ ClosePITs
  \/ \E c \in Clusters :
       \/ OpenEmpty(c) \/ OpenPIT(c) \/ OpenResumed(c) \/ OpenFail(c)
       \/ PrimeNext(c) \/ FetchInline(c) \/ TakePrefetched(c)
       \/ EnsureReturn(c) \/ MergeTake(c)

Next == Producer \/ Cancel \/ Terminated
        \/ \E c \in Clusters : PrefetchFetch(c)

Spec == Init /\ [][Next]_vars

\* Every search and every emission ends (each has a deadline), the
\* goroutines are scheduled, and runStream cancels the context at the end.
Fairness == /\ WF_vars(Producer)
            /\ \A c \in Clusters : WF_vars(PrefetchFetch(c))
            /\ WF_vars(Cancel /\ pc = "closed")

FairSpec == Spec /\ Fairness

-----------------------------------------------------------------------------
(* What the stream promises.                                               *)

Taken == out \o batch
Remaining(c) == pos[c] < Len(view[c])

\* "Globally time-descending": over all clusters and all batches, no record
\* is older than one that is sent after it (heap order in mergeRawStream,
\* and no cluster left out of the heap while its next page is in flight).
Descending ==
  \A k, l \in DOMAIN out : k < l => Time(out[k]) >= Time(out[l])

\* Nothing lost and nothing sent twice: the records taken from a cluster are
\* those between the position it started from and the one it has read to,
\* each of them once and in snapshot order (advance, applyPITPage and the
\* search_after captured by the prefetch).
ExactlyOnce ==
  /\ \A k \in DOMAIN Taken : /\ Taken[k][2] > start[Taken[k][1]]
                             /\ Taken[k][2] <= pos[Taken[k][1]]
  /\ \A c \in Clusters : \A i \in (start[c] + 1)..pos[c] :
       \E k \in DOMAIN Taken : Taken[k] = <<c, i>>
  /\ \A k, l \in DOMAIN Taken :
       k < l /\ Taken[k][1] = Taken[l][1] => Taken[k][2] < Taken[l][2]

\* truncated tells the truth: a stream that ends without an error and is not
\* truncated has acknowledged every record of every snapshot, and a
\* truncated one has sent MaxRecords and left some (the h.Len() > 0 test).
HonestEnd ==
  outcome = "done" =>
    /\ ~truncated => batch = <<>> /\ \A c \in Clusters : ~Remaining(c)
    /\ truncated => Len(out) = MaxRecords /\ \E c \in Clusters : Remaining(c)

\* The cursor of the last acknowledged batch names the last record of that
\* batch, whatever page the iterator has moved on to: resuming from it skips
\* nothing and repeats nothing (resumeToken uses committedAfter, not
\* searchAfter).
CursorAtLastRecord ==
  /\ lastID # 0 => out # <<>> /\ out[Len(out)][2] = lastID
  /\ resumable /\ out # <<>> => lastID # 0
  /\ doneCursor # 0 => doneCursor = lastID

\* The stream never exceeds its record budget, even counting the batch.
WithinBudget == Len(out) + Len(batch) <= MaxRecords

\* A prefetched page is the one that follows the buffer: the search_after
\* its goroutine captured is still the iterator's when the page is taken.
PrefetchFresh ==
  \A c \in Clusters :
    prefetch[c] # "idle" => /\ asked[c] = applied[c]
                               /\ c \notin exhausted

\* Once StreamRaw has returned, whichever way, no snapshot it knows of is
\* forgotten.  A cursor whose batch was acknowledged still has its snapshot.
\* One is kept on purpose only for the single cluster, after a record was
\* taken, and by a stream that ended well only if it sent a cursor: whatever
\* else stays until its lease runs out is an open that was not heard, which
\* failed the stream, or a close that failed (closePIT, the opening loop).
SnapshotsAccounted ==
  pc = "closed" =>
    \A c \in Clusters :
      /\ pit[c] # "open"
      /\ lastID # 0 => pit[c] = "kept"
      /\ pit[c] = "kept" => /\ resumable /\ Taken # <<>>
                            /\ outcome = "error" \/ lastID # 0
      /\ pit[c] = "stray" => outcome = "error"

\* Refinement: with pages, buffers, heap and goroutines hidden, the stream is
\* a MergedFeed: what has been acknowledged is a prefix of a merge of the
\* snapshots, it only grows, and the end is reported truthfully.
Status ==
  CASE pc = "open" -> "opening"
    [] pc # "open" /\ outcome = "error" -> "failed"
    [] pc # "open" /\ outcome = "done" ->
         IF truncated THEN "truncated" ELSE "complete"
    [] pc # "open" /\ outcome = "none" -> "streaming"

Feed == INSTANCE MergedFeed WITH sent <- out, status <- Status
RefinesFeed == Feed!Spec

\* Every request ends and leaves no goroutine running (the buffered channel
\* and the ctx.Done cases).
Terminates ==
  <>[](pc = "closed" /\ \A c \in Clusters : prefetch[c] # "running")

\* What is behind that: no step is spent in vain.  A step takes the producer
\* to a later phase, or it takes something that is not given back and of
\* which there is no more than the snapshots hold (a cluster, a page, the end
\* of a snapshot, a record, a batch acknowledged), or it is one of the turns
\* taken once between two of those.  So no run of searches and empty pages
\* goes on for ever, whatever the pages and the budget.
Phase == CASE pc = "open" -> 0 [] pc = "meta" -> 1 [] pc = "prime" -> 2
           [] pc \in {"merge", "flush"} -> 3
           [] pc \in {"failflush", "finish"} -> 4
           [] pc = "close" -> 5 [] pc = "closed" -> 6
Gains == <<opened, primed, exhausted, pos, applied, Len(out), ctx>>
NothingBack ==
  /\ opened \subseteq opened' /\ primed \subseteq primed'
  /\ exhausted \subseteq exhausted'
  /\ \A c \in Clusters : pos[c] <= pos'[c] /\ applied[c] <= applied'[c]
  /\ Len(out) <= Len(out') /\ (ctx = "cancelled" => ctx' = "cancelled")
Turn ==
  \/ pc = "prime" /\ cur = None /\ cur' \notin primed \cup {None}
  \/ pc = "merge" /\ cur # None /\ cur' = None
  \/ pc = "merge" /\ cur = None /\ pc' = "flush"
  \/ \E c \in Clusters : prefetch[c] = "running" /\ prefetch'[c] # "running"
Forward ==
  \/ Phase' > Phase
  \/ /\ Phase' = Phase /\ NothingBack
     /\ Gains' # Gains \/ Turn
Progress == [][Forward]_vars

-----------------------------------------------------------------------------
(* The inductive invariant: why the promises above hold.                   *)

\* Buffers lie inside their snapshot, and only the last page exhausts it.
IterOK ==
  \A c \in Clusters :
    /\ start[c] <= pos[c] /\ pos[c] <= applied[c]
    /\ applied[c] <= Len(view[c])
    /\ c \in exhausted => applied[c] = Len(view[c])
    /\ \A i, j \in DOMAIN view[c] : i < j => view[c][i] >= view[c][j]

\* How far the producer is.
PhaseOK ==
  /\ cur # None => pc \in {"prime", "merge"}
  /\ pc \in {"open", "meta", "prime"} =>
       Taken = <<>> /\ \A c \in Clusters : pos[c] = start[c]
  /\ pc \in {"open", "meta"} => primed = {} /\ heap = {}
  /\ pc = "open" =>
       \A c \in Clusters \ opened : view[c] = <<>> /\ c \notin exhausted
  /\ pc \in {"open", "meta"} => \A c \in Clusters : prefetch[c] = "idle"
  /\ pc # "open" /\ outcome # "none" => pc \in {"close", "closed"}
  /\ pc \in {"close", "closed"} => outcome # "none"
  /\ outcome = "done" => pc # "open"
  /\ truncated => pc \in {"finish", "close", "closed"}
  /\ pc = "finish" =>
       /\ batch = <<>>
       /\ truncated => heap # {} /\ Len(out) = MaxRecords
       /\ ~truncated => heap = {}

\* The heap holds every cluster that still has records, each with a head:
\* its top is then the newest record of all that remain.
HeapOK ==
  /\ pc \in {"prime", "merge", "flush", "finish"} =>
       \A c \in heap : c # cur => hasHead(c)
  /\ pc = "prime" => /\ cur \notin primed /\ heap \subseteq primed
                     /\ \A c \in primed \ heap : ~Remaining(c)
  /\ pc \in {"merge", "flush", "finish"} =>
       \A c \in Clusters \ heap : c # cur => ~Remaining(c)

\* What is taken is ordered, and not older than anything that remains.
OrderOK ==
  /\ \A k, l \in DOMAIN Taken : k < l => Time(Taken[k]) >= Time(Taken[l])
  /\ \A k \in DOMAIN Taken : \A c \in Clusters :
       Remaining(c) => Time(Taken[k]) >= view[c][pos[c] + 1]

BudgetOK ==
  /\ WithinBudget
  /\ pc = "merge" /\ cur = None => Len(Taken) < MaxRecords

\* A single cluster's committed sort value is that of the last record taken.
CursorOK ==
  /\ resumable =>
       /\ \A c \in Clusters :
            committed[c] = IF Taken = <<>> THEN 0 ELSE Taken[Len(Taken)][2]
       /\ lastID = IF out = <<>> THEN 0 ELSE out[Len(out)][2]
  /\ ~resumable => lastID = 0 /\ doneCursor = 0
  /\ doneCursor # 0 => doneCursor = lastID /\ pc \in {"close", "closed"}

\* Until the end a snapshot is open or unknown; an unknown one is not read.
SnapshotOK ==
  /\ pc # "closed" => \A c \in Clusters : pit[c] \in {"none", "stray", "open"}
  /\ \A c \in Clusters : pit[c] \in {"none", "stray"} => view[c] = <<>>
  /\ pc = "open" => \A c \in Clusters \ opened : pit[c] = "none"
  /\ (\E c \in Clusters : pit[c] = "stray") => outcome = "error"

\* There is something to send when a batch is sent, or a head was just taken.
BatchOK ==
  pc = "flush" \/ (pc = "merge" /\ cur # None) => batch # <<>>

\* The inductive invariant.
IInv == /\ IterOK /\ PrefetchFresh /\ PhaseOK /\ HeapOK /\ ExactlyOnce
        /\ OrderOK /\ BudgetOK /\ CursorOK /\ SnapshotOK
        /\ HonestEnd /\ SnapshotsAccounted
=============================================================================
