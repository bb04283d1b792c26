--------------------------- MODULE RawStream_proofs ---------------------------
(***************************************************************************)
(* Proofs about RawStream, for every set of clusters, every snapshot and   *)
(* every page size and record limit.                                       *)
(***************************************************************************)
EXTENDS RawStream, SequenceTheorems, TLAPS

USE ClustersAssumption, SizesAssumption

-----------------------------------------------------------------------------
(* Type correctness.                                                       *)

\* A page read from any position keeps the iterator in its types.
LEMMA ApplyPageType ==
  ASSUME IterType, NEW c \in Clusters, NEW a \in Nat, ApplyPage(c, a),
         UNCHANGED <<view, start, committed>>
  PROVE  IterType'
<1>1. PageEnd(c, a) \in Nat
  BY DEF IterType, PageEnd
<1> QED
  BY <1>1 DEF ApplyPage, IterType

\* The record an iterator hands out next.
LEMMA NextRecord ==
  ASSUME IterType, NEW c \in Clusters
  PROVE  <<c, pos[c] + 1>> \in Record
<1>1. pos[c] + 1 \in Nat
  BY DEF IterType
<1> QED
  BY <1>1, Zenon DEF Record

LEMMA InitType == Init => TypeOK
<1> SUFFICES ASSUME Init PROVE TypeOK
  OBVIOUS
<1>1. ControlType
  BY DEF Init, ControlType
<1>2. MergeType
  <2>1. batch \in Seq(Record) /\ out \in Seq(Record)
    BY DEF Init
  <2>2. truncated \in BOOLEAN
    BY DEF Init
  <2>3. /\ primed \subseteq Clusters /\ heap \subseteq Clusters
        /\ cur \in Clusters \cup {None} /\ lastID \in Nat
    BY DEF Init
  <2> QED
    BY <2>1, <2>2, <2>3 DEF MergeType
<1>3. IterType
  <2>1. /\ view \in [Clusters -> Seq(Nat)]
        /\ prefetch \in [Clusters -> {"idle", "running", "page", "failed",
                                     "lost"}]
    BY DEF Init
  <2>2. /\ \A f \in {start, pos, applied, committed, asked} :
             f \in [Clusters -> Nat]
        /\ exhausted \subseteq Clusters
    BY DEF Init
  <2> QED
    BY <2>1, <2>2 DEF IterType
<1> QED
  BY <1>1, <1>2, <1>3 DEF TypeOK

\* The steps of the control flow and of the heap.
LEMMA ControlStep ==
  ASSUME TypeOK, [Next]_vars
  PROVE  ControlType'
<1> USE DEF TypeOK, ControlType, Fail
<1>1. CASE Reject \/ ReplayDone \/ OpenEnd \/ EmitMeta \/ PrimeEnd
           \/ MergeCancelled \/ MergeDrained \/ Cancel
  BY <1>1 DEF Reject, ReplayDone, OpenEnd, EmitMeta, PrimeEnd,
     MergeCancelled, MergeDrained, Cancel
<1>2. CASE Flush \/ FailFlush
  BY <1>2 DEF Flush, FailFlush
<1>3. CASE Finish
  <2>1. committed[CHOOSE c \in Clusters : TRUE] \in Nat
    BY DEF IterType
  <2> QED
    BY <1>3, <2>1 DEF Finish
<1>4. CASE ClosePITs
  BY <1>4 DEF ClosePITs, Keeps
<1>5. ASSUME NEW c \in Clusters,
             OpenEmpty(c) \/ OpenPIT(c) \/ OpenResumed(c) \/ OpenFail(c)
      PROVE  ControlType'
  BY <1>5 DEF OpenEmpty, OpenPIT, OpenResumed, OpenFail
<1>6. ASSUME NEW c \in Clusters,
             PrimeNext(c) \/ EnsureReturn(c) \/ MergeTake(c) \/ PrefetchFetch(c)
      PROVE  ControlType'
  BY <1>6 DEF PrimeNext, EnsureReturn, BatchDue, MergeTake, PrefetchFetch
<1>7. ASSUME NEW c \in Clusters, FetchInline(c) \/ TakePrefetched(c)
      PROVE  ControlType'
  <2>1. EnsureError \/ UNCHANGED <<pc, outcome>>
    BY <1>7 DEF FetchInline, TakePrefetched
  <2>2. UNCHANGED <<opened, ctx, doneCursor, pit>>
    BY <1>7 DEF FetchInline, TakePrefetched
  <2> QED
    BY <2>1, <2>2 DEF EnsureError
<1>8. CASE Terminated \/ UNCHANGED vars
  BY <1>8 DEF Terminated, vars
<1> QED
  BY <1>1, <1>2, <1>3, <1>4, <1>5, <1>6, <1>7, <1>8 DEF Next, Producer

LEMMA MergeStep ==
  ASSUME TypeOK, [Next]_vars
  PROVE  MergeType'
<1> USE DEF TypeOK, MergeType
<1>1. CASE UNCHANGED mergeVars
  BY <1>1 DEF mergeVars
<1>2. CASE Flush \/ FailFlush
  <2>1. committed[CHOOSE c \in Clusters : TRUE] \in Nat
    BY DEF IterType
  <2>2. out \o batch \in Seq(Record) /\ <<>> \in Seq(Record)
    OBVIOUS
  <2>3. Emitted \/ UNCHANGED <<out, batch, lastID>>
    BY <1>2 DEF Flush, FailFlush
  <2>4. out' \in Seq(Record) /\ batch' \in Seq(Record) /\ lastID' \in Nat
    BY <2>1, <2>2, <2>3 DEF Emitted
  <2>5. /\ UNCHANGED <<primed, cur, heap>>
        /\ truncated' \in {truncated, heap # {}}
    BY <1>2 DEF Flush, FailFlush
  <2> QED
    BY <2>4, <2>5
<1>3. ASSUME NEW c \in Clusters, PrimeNext(c) \/ EnsureReturn(c)
      PROVE  MergeType'
  BY <1>3 DEF PrimeNext, EnsureReturn, BatchDue
<1>4. ASSUME NEW c \in Clusters, FetchInline(c) \/ TakePrefetched(c)
      PROVE  MergeType'
  <2>1. /\ cur' = None \/ UNCHANGED cur
        /\ UNCHANGED <<primed, heap, batch, out, truncated, lastID>>
    BY <1>4 DEF FetchInline, TakePrefetched
  <2> QED
    BY <2>1
<1>5. ASSUME NEW c \in Clusters, MergeTake(c)
      PROVE  MergeType'
  <2>1. <<c, pos[c] + 1>> \in Record
    BY NextRecord
  <2> QED
    BY <1>5, <2>1 DEF MergeTake
<1> QED
  BY <1>1, <1>2, <1>3, <1>4, <1>5
     DEF Next, Producer, Reject, ReplayDone, OpenEnd, EmitMeta, PrimeEnd,
         MergeCancelled, MergeDrained, Finish, ClosePITs, Keeps, Cancel,
         Terminated, vars, OpenEmpty, OpenPIT, OpenResumed, OpenFail,
         PrefetchFetch

LEMMA IterStep ==
  ASSUME TypeOK, [Next]_vars
  PROVE  IterType'
<1> USE DEF TypeOK, IterType
<1>1. CASE UNCHANGED iterVars
  BY <1>1 DEF iterVars
<1>2. ASSUME NEW c \in Clusters, OpenEmpty(c)
      PROVE  IterType'
  BY <1>2 DEF OpenEmpty
<1>3. ASSUME NEW c \in Clusters, OpenPIT(c)
      PROVE  IterType'
  BY <1>3, ViewsAssumption DEF OpenPIT
<1>4. ASSUME NEW c \in Clusters, OpenResumed(c)
      PROVE  IterType'
  <2>1. PICK v \in Views : \E p \in DOMAIN v :
          /\ view' = [view EXCEPT ![c] = v]
          /\ start' = [start EXCEPT ![c] = p]
          /\ pos' = [pos EXCEPT ![c] = p]
          /\ applied' = [applied EXCEPT ![c] = p]
    BY <1>4 DEF OpenResumed
  <2>2. v \in Seq(Nat) /\ DOMAIN v \subseteq Nat
    BY ViewsAssumption, SMTT(60)
  <2>3. /\ view' \in [Clusters -> Seq(Nat)] /\ start' \in [Clusters -> Nat]
        /\ pos' \in [Clusters -> Nat] /\ applied' \in [Clusters -> Nat]
    BY <2>1, <2>2, SMTT(60)
  <2>4. UNCHANGED <<exhausted, committed, prefetch, asked>>
    BY <1>4 DEF OpenResumed
  <2> QED
    BY <2>3, <2>4
<1>5. ASSUME NEW c \in Clusters, FetchInline(c)
      PROVE  IterType'
  <2>1. applied[c] \in Nat
    OBVIOUS
  <2> QED
    BY <1>1, <1>5, <2>1, ApplyPageType DEF FetchInline, iterVars
<1>6. ASSUME NEW c \in Clusters, TakePrefetched(c)
      PROVE  IterType'
  <2>1. asked[c] \in Nat
    OBVIOUS
  <2>2. CASE ApplyPage(c, asked[c])
    BY <1>6, <2>1, <2>2, ApplyPageType DEF TakePrefetched
  <2>3. CASE /\ prefetch' = [prefetch EXCEPT ![c] = "idle"]
             /\ UNCHANGED <<pos, applied, exhausted, asked>>
    BY <1>6, <2>3 DEF TakePrefetched
  <2> QED
    BY <1>1, <1>6, <2>2, <2>3 DEF TakePrefetched, iterVars
<1>7. ASSUME NEW c \in Clusters, PrefetchFetch(c)
      PROVE  IterType'
  BY <1>7 DEF PrefetchFetch
<1>8. ASSUME NEW c \in Clusters, MergeTake(c)
      PROVE  IterType'
  <2>1. pos[c] \in Nat /\ pos[c] + 1 \in Nat
    OBVIOUS
  <2>2. /\ pos' = [pos EXCEPT ![c] = pos[c] + 1]
        /\ committed' = [committed EXCEPT ![c] = pos[c] + 1]
    BY <1>8 DEF MergeTake
  <2>3. pos' \in [Clusters -> Nat] /\ committed' \in [Clusters -> Nat]
    BY <2>1, <2>2
  <2>4. UNCHANGED <<view, start, applied, exhausted, prefetch, asked>>
    BY <1>8 DEF MergeTake
  <2> QED
    BY <2>3, <2>4
<1> QED
  BY <1>1, <1>2, <1>3, <1>4, <1>5, <1>6, <1>7, <1>8
     DEF Next, Producer, Reject, ReplayDone, OpenEnd, EmitMeta, PrimeEnd,
         MergeCancelled, MergeDrained, Flush, FailFlush, Finish, ClosePITs, Keeps,
         Cancel, Terminated, vars, OpenFail, PrimeNext, EnsureReturn, BatchDue

\* The variables keep their types in every behaviour.
THEOREM TypeCorrect == Spec => []TypeOK
<1>1. Init => TypeOK
  BY InitType
<1>2. TypeOK /\ [Next]_vars => TypeOK'
  BY ControlStep, MergeStep, IterStep DEF TypeOK
<1> QED
  BY <1>1, <1>2, PTL DEF Spec

-----------------------------------------------------------------------------
(* The merge invariant, by kind of step.                                   *)

\* ensure() reads on at the end of the buffer, so a new page continues it:
\* no position moves, and the page lies inside the snapshot.
LEMMA ReadStep ==
  ASSUME TypeOK, IInv, NEW c \in Clusters, FetchInline(c) \/ TakePrefetched(c)
  PROVE  UNCHANGED <<pos, view, start, out, batch, heap, primed>>
         /\ IterOK' /\ PrefetchFresh'
<1> USE DEF TypeOK, IterType
<1>1. /\ pos[c] \in Nat /\ applied[c] \in Nat /\ Len(view[c]) \in Nat
      /\ pos[c] = applied[c] /\ applied[c] <= Len(view[c])
  BY DEF IInv, IterOK, FetchInline, TakePrefetched, hasHead
<1>2. TakePrefetched(c) => asked[c] = applied[c]
  BY DEF IInv, PrefetchFresh, TakePrefetched, Fetching
<1>3. UNCHANGED <<view, start, out, batch, heap, primed>>
  BY DEF FetchInline, TakePrefetched
<1>4. CASE ApplyPage(c, applied[c])
  <2>1. /\ PageEnd(c, applied[c]) \in Nat
        /\ applied[c] <= PageEnd(c, applied[c])
        /\ PageEnd(c, applied[c]) <= Len(view[c])
        /\ PageEnd(c, applied[c]) - applied[c] < PageSize =>
             PageEnd(c, applied[c]) = Len(view[c])
    BY <1>1, SMTT(60) DEF PageEnd
  <2>2. pos' = pos
    BY <1>1, <1>4 DEF ApplyPage
  <2>3. IterOK'
    BY <1>1, <1>3, <1>4, <2>1, <2>2 DEF ApplyPage, IInv, IterOK
  <2>4. PrefetchFresh'
    BY <1>4, <2>1 DEF ApplyPage, IInv, PrefetchFresh
  <2> QED
    BY <1>3, <2>2, <2>3, <2>4
<1>5. CASE /\ UNCHANGED <<pos, applied, exhausted, asked>>
           /\ prefetch' \in {prefetch, [prefetch EXCEPT ![c] = "idle"]}
  <2>1. IterOK'
    BY <1>3, <1>5 DEF IInv, IterOK
  <2>2. PrefetchFresh'
    BY <1>5 DEF IInv, PrefetchFresh
  <2> QED
    BY <1>3, <1>5, <2>1, <2>2
<1> QED
  BY <1>2, <1>4, <1>5 DEF FetchInline, TakePrefetched

\* A step opens a snapshot before anything is taken, or takes the newest
\* head, or leaves what is taken and where it was taken from alone.
Quiet == Taken' = Taken /\ UNCHANGED <<pos, view, start>>

LEMMA StepKinds ==
  ASSUME TypeOK, IInv, [Next]_vars
  PROVE  \/ Quiet
         \/ \E c \in Clusters :
              OpenPIT(c) \/ OpenResumed(c) \/ MergeTake(c)
<1>1. CASE Flush \/ FailFlush
  <2>1. Emitted \/ UNCHANGED <<out, batch>>
    BY <1>1 DEF Flush, FailFlush
  <2>2. batch \in Seq(Record) /\ out \in Seq(Record)
        /\ out \o batch \in Seq(Record)
    BY DEF TypeOK, MergeType
  <2>3. Emitted => out' \o batch' = out \o batch
    BY <2>2, ConcatEmptySeq DEF Emitted
  <2>4. UNCHANGED <<pos, view, start>>
    BY <1>1 DEF Flush, FailFlush, iterVars
  <2> QED
    BY <2>1, <2>3, <2>4 DEF Quiet, Taken
<1>2. ASSUME NEW c \in Clusters, FetchInline(c) \/ TakePrefetched(c)
      PROVE  Quiet
  BY <1>2, ReadStep DEF Quiet, Taken
<1>3. CASE UNCHANGED <<out, batch, pos, view, start>>
  BY <1>3 DEF Quiet, Taken
<1> QED
  BY <1>1, <1>2, <1>3
     DEF Next, Producer, Reject, ReplayDone, OpenEnd, EmitMeta, PrimeEnd,
         MergeCancelled, MergeDrained, Finish, ClosePITs, Keeps, Cancel,
         Terminated, vars, mergeVars, iterVars, OpenEmpty, OpenFail,
         PrimeNext, EnsureReturn, BatchDue, PrefetchFetch

LEMMA OpenKind ==
  ASSUME TypeOK, IInv, NEW c \in Clusters, OpenPIT(c) \/ OpenResumed(c)
  PROVE  /\ Taken = <<>> /\ Taken' = <<>>
         /\ \A d \in Clusters : pos'[d] = start'[d]
<1>1. Taken = <<>> /\ \A d \in Clusters : pos[d] = start[d]
  BY DEF IInv, PhaseOK, OpenPIT, OpenResumed
<1>2. Taken' = Taken
  BY DEF Taken, OpenPIT, OpenResumed, mergeVars
<1>3. CASE OpenPIT(c)
  BY <1>1, <1>2, <1>3 DEF OpenPIT
<1>4. CASE OpenResumed(c)
  <2>1. \E p : /\ start' = [start EXCEPT ![c] = p]
              /\ pos' = [pos EXCEPT ![c] = p]
    BY <1>4 DEF OpenResumed
  <2> QED
    BY <1>1, <1>2, <2>1 DEF TypeOK, IterType
<1> QED
  BY <1>3, <1>4

\* What one turn of the merge loop adds.
LEMMA TakeKind ==
  ASSUME TypeOK, IInv, NEW c \in Clusters, MergeTake(c)
  PROVE  /\ Taken \in Seq(Record) /\ Taken' \in Seq(Record)
         /\ Len(Taken') = Len(Taken) + 1
         /\ \A k \in 1..Len(Taken) : Taken'[k] = Taken[k]
         /\ Taken'[Len(Taken) + 1] = <<c, pos[c] + 1>>
         /\ Taken'[Len(Taken) + 1][1] = c
         /\ Taken'[Len(Taken) + 1][2] = pos[c] + 1
         /\ pos' = [pos EXCEPT ![c] = pos[c] + 1]
         /\ UNCHANGED <<view, start>>
         /\ Remaining(c)
<1>1. <<c, pos[c] + 1>> \in Record
  BY NextRecord DEF TypeOK
<1>3. out \in Seq(Record) /\ batch \in Seq(Record)
  BY DEF TypeOK, MergeType
<1>4. batch' = Append(batch, <<c, pos[c] + 1>>) /\ out' = out
  BY DEF MergeTake
<1>5. UNCHANGED <<view, start>> /\ pos' = [pos EXCEPT ![c] = pos[c] + 1]
  BY DEF MergeTake
<1>6. Remaining(c)
  BY SMTT(60) DEF MergeTake, IsTop, IInv, HeapOK, hasHead, Remaining, IterOK,
     TypeOK, IterType
<1>7. /\ Taken \in Seq(Record) /\ Taken' \in Seq(Record)
      /\ Len(Taken') = Len(Taken) + 1
      /\ \A k \in 1..Len(Taken) : Taken'[k] = Taken[k]
      /\ Taken'[Len(Taken) + 1] = <<c, pos[c] + 1>>
  BY <1>1, <1>3, <1>4 DEF Taken
<1>8. <<c, pos[c] + 1>>[1] = c /\ <<c, pos[c] + 1>>[2] = pos[c] + 1
  OBVIOUS
<1>9. /\ Taken'[Len(Taken) + 1][1] = c
      /\ Taken'[Len(Taken) + 1][2] = pos[c] + 1
  BY <1>7, <1>8, Zenon
<1> QED
  BY <1>5, <1>6, <1>7, <1>9

LEMMA ExactlyOnceStep ==
  ASSUME TypeOK, IInv, [Next]_vars
  PROVE  ExactlyOnce'
<1>1. CASE Quiet
  BY <1>1 DEF IInv, ExactlyOnce, Quiet
<1>2. ASSUME NEW c \in Clusters, OpenPIT(c) \/ OpenResumed(c)
      PROVE  ExactlyOnce'
  <2>1. Taken' = <<>> /\ \A d \in Clusters : pos'[d] = start'[d]
    BY <1>2, OpenKind
  <2>2. \A d \in Clusters : start'[d] \in Nat
    BY IterStep DEF IterType
  <2> QED
    BY <2>1, <2>2 DEF ExactlyOnce
<1>3. ASSUME NEW c \in Clusters, MergeTake(c)
      PROVE  ExactlyOnce'
  <2> DEFINE n == Len(Taken)
  <2>1. /\ Taken \in Seq(Record) /\ Taken' \in Seq(Record)
        /\ Len(Taken') = n + 1 /\ n \in Nat
        /\ \A k \in 1..n : Taken'[k] = Taken[k] /\ Taken[k] \in Record
        /\ Taken'[n + 1] = <<c, pos[c] + 1>>
        /\ Taken'[n + 1][1] = c /\ Taken'[n + 1][2] = pos[c] + 1
        /\ DOMAIN Taken = 1..n /\ DOMAIN Taken' = 1..(n + 1)
    BY <1>3, TakeKind, LenProperties
  <2>2. /\ pos' = [pos EXCEPT ![c] = pos[c] + 1]
        /\ pos \in [Clusters -> Nat]
        /\ UNCHANGED start
        /\ \A d \in Clusters : pos[d] \in Nat /\ start[d] \in Nat
        /\ start[c] <= pos[c]
    BY <1>3, TakeKind DEF TypeOK, IterType, IInv, IterOK
  <2>3. \A k \in 1..n : /\ Taken[k][1] \in Clusters /\ Taken[k][2] \in Nat
                        /\ Taken[k][2] > start[Taken[k][1]]
                        /\ Taken[k][2] <= pos[Taken[k][1]]
    BY <2>1 DEF Record, IInv, ExactlyOnce
  <2>4. \A k \in DOMAIN Taken' :
          /\ Taken'[k][2] > start'[Taken'[k][1]]
          /\ Taken'[k][2] <= pos'[Taken'[k][1]]
    <3> SUFFICES ASSUME NEW k \in 1..(n + 1)
                 PROVE  /\ Taken'[k][2] > start[Taken'[k][1]]
                        /\ Taken'[k][2] <= pos'[Taken'[k][1]]
      BY <2>1, <2>2
    <3>1. CASE k = n + 1
      <4>1. Taken'[k][1] = c /\ Taken'[k][2] = pos[c] + 1
        BY <2>1, <3>1
      <4>2. pos'[c] = pos[c] + 1
        BY <2>2
      <4> QED
        BY <2>2, <4>1, <4>2
    <3>2. CASE k \in 1..n
      <4>1. pos[Taken[k][1]] <= pos'[Taken[k][1]]
        BY <2>2, <2>3, <3>2
      <4>2. pos'[Taken[k][1]] \in Nat
        BY <2>2, <2>3, <3>2
      <4> QED
        BY <2>1, <2>2, <2>3, <3>2, <4>1, <4>2, SMTT(60)
    <3> QED
      BY <2>1, <3>1, <3>2
  <2>5. \A d \in Clusters : \A i \in (start'[d] + 1)..pos'[d] :
          \E k \in DOMAIN Taken' : Taken'[k] = <<d, i>>
    <3> SUFFICES ASSUME NEW d \in Clusters, NEW i \in (start[d] + 1)..pos'[d]
                 PROVE  \E k \in DOMAIN Taken' : Taken'[k] = <<d, i>>
      BY <2>2
    <3>1. CASE d = c /\ i = pos[c] + 1
      BY <2>1, <3>1
    <3>2. CASE i \in (start[d] + 1)..pos[d]
      <4>1. \E k \in DOMAIN Taken : Taken[k] = <<d, i>>
        BY <3>2 DEF IInv, ExactlyOnce
      <4> QED
        BY <2>1, <4>1
    <3> QED
      BY <2>2, <3>1, <3>2
  <2>6. \A k, l \in DOMAIN Taken' :
          k < l /\ Taken'[k][1] = Taken'[l][1] => Taken'[k][2] < Taken'[l][2]
    <3> SUFFICES ASSUME NEW k \in DOMAIN Taken', NEW l \in DOMAIN Taken',
                        k < l, Taken'[k][1] = Taken'[l][1]
                 PROVE  Taken'[k][2] < Taken'[l][2]
      OBVIOUS
    <3>1. CASE l = n + 1
      BY <2>1, <2>2, <2>3, <3>1, SMTT(60)
    <3>2. CASE l # n + 1
      BY <2>1, <3>2 DEF IInv, ExactlyOnce
    <3> QED
      BY <3>1, <3>2
  <2> QED
    BY <2>4, <2>5, <2>6 DEF ExactlyOnce
<1> QED
  BY <1>1, <1>2, <1>3, StepKinds

LEMMA OrderStep ==
  ASSUME TypeOK, IInv, [Next]_vars
  PROVE  OrderOK'
<1>1. CASE Quiet
  BY <1>1 DEF IInv, OrderOK, Quiet, Time, Remaining
<1>2. ASSUME NEW c \in Clusters, OpenPIT(c) \/ OpenResumed(c)
      PROVE  OrderOK'
  BY <1>2, OpenKind DEF OrderOK
<1>3. ASSUME NEW c \in Clusters, MergeTake(c)
      PROVE  OrderOK'
  <2> DEFINE n == Len(Taken)
             newest == view[c][pos[c] + 1]
             T(k) == view[Taken'[k][1]][Taken'[k][2]]
  <2>1. /\ n \in Nat
        /\ \A k \in 1..n : Taken'[k] = Taken[k] /\ Taken[k] \in Record
        /\ Taken'[n + 1] = <<c, pos[c] + 1>>
        /\ Taken'[n + 1][1] = c /\ Taken'[n + 1][2] = pos[c] + 1
        /\ DOMAIN Taken = 1..n /\ DOMAIN Taken' = 1..(n + 1)
    BY <1>3, TakeKind, LenProperties
  <2>2. /\ UNCHANGED view /\ Remaining(c)
        /\ pos' = [pos EXCEPT ![c] = pos[c] + 1]
    BY <1>3, TakeKind
  <2>3. \A d \in Clusters : /\ pos[d] \in Nat /\ view[d] \in Seq(Nat)
                            /\ Len(view[d]) \in Nat
                            /\ DOMAIN view[d] = 1..Len(view[d])
                            /\ \A i \in DOMAIN view[d] : view[d][i] \in Nat
    BY LenProperties, ElementOfSeq DEF TypeOK, IterType
  <2>4. T(n + 1) = newest /\ newest \in Nat
    <3>1. T(n + 1) = newest
      BY <2>1
    <3>2. pos[c] + 1 \in 1..Len(view[c])
      BY <2>2, <2>3 DEF Remaining
    <3> QED
      BY <2>3, <3>1, <3>2
  <2>5. \A k \in 1..n : T(k) = Time(Taken[k]) /\ T(k) >= newest
    BY <2>1, <2>2 DEF Time, IInv, OrderOK
  <2>6. \A k \in 1..n : T(k) \in Nat
    <3>1. \A k \in 1..n : /\ Taken[k][1] \in Clusters
                          /\ Taken[k][2] \in 1..Len(view[Taken[k][1]])
      <4> TAKE k \in 1..n
      <4>1. Taken[k][1] \in Clusters /\ Taken[k][2] \in Nat
        BY <2>1 DEF Record
      <4>2. /\ Taken[k][2] > start[Taken[k][1]]
            /\ Taken[k][2] <= pos[Taken[k][1]]
        BY <2>1 DEF IInv, ExactlyOnce
      <4>3. /\ pos[Taken[k][1]] <= applied[Taken[k][1]]
            /\ applied[Taken[k][1]] <= Len(view[Taken[k][1]])
            /\ start[Taken[k][1]] \in Nat /\ applied[Taken[k][1]] \in Nat
        BY <4>1 DEF IInv, IterOK, TypeOK, IterType
      <4> QED
        BY <2>3, <4>1, <4>2, <4>3, SMTT(60)
    <3> QED
      BY <2>1, <2>3, <3>1
  <2>7. \A k, l \in DOMAIN Taken' : k < l => T(k) >= T(l)
    <3> SUFFICES ASSUME NEW k \in 1..(n + 1), NEW l \in 1..(n + 1), k < l
                 PROVE  T(k) >= T(l)
      BY <2>1
    <3>1. k \in 1..n
      BY <2>1
    <3>2. CASE l = n + 1
      BY <2>4, <2>5, <3>1, <3>2
    <3>3. CASE l \in 1..n
      <4>1. Time(Taken[k]) >= Time(Taken[l])
        BY <2>1, <3>1, <3>3 DEF IInv, OrderOK
      <4> QED
        BY <2>5, <3>1, <3>3, <4>1
    <3> QED
      BY <2>1, <3>2, <3>3
  \* The heap top is the newest of all that remain.
  <2>8. \A d \in Clusters :
          Remaining(d)' => newest >= view[d][pos'[d] + 1]
    <3> SUFFICES ASSUME NEW d \in Clusters, Remaining(d)'
                 PROVE  newest >= view[d][pos'[d] + 1]
      OBVIOUS
    <3>1. CASE d = c
      BY <2>2, <2>3, <3>1, SMTT(60) DEF Remaining, IInv, IterOK
    <3>2. CASE d # c
      <4>1. Remaining(d) /\ pos'[d] = pos[d]
        BY <2>2, <3>2 DEF Remaining, TypeOK, IterType
      <4>2. d \in heap
        BY <1>3, <4>1 DEF MergeTake, IInv, HeapOK
      <4> QED
        BY <1>3, <4>1, <4>2 DEF MergeTake, IsTop
    <3> QED
      BY <3>1, <3>2
  <2>9. \A k \in DOMAIN Taken' : \A d \in Clusters :
          Remaining(d)' => T(k) >= view[d][pos'[d] + 1]
    <3> SUFFICES ASSUME NEW k \in 1..(n + 1), NEW d \in Clusters,
                        Remaining(d)'
                 PROVE  T(k) >= view[d][pos'[d] + 1]
      BY <2>1
    <3>1. newest >= view[d][pos'[d] + 1]
      BY <2>8
    <3>2. view[d][pos'[d] + 1] \in Nat
      <4>1. pos'[d] \in Nat
        BY <2>2, <2>3
      <4>2. pos'[d] < Len(view[d])
        BY <2>2 DEF Remaining
      <4> QED
        BY <2>3, <4>1, <4>2
    <3>3. CASE k = n + 1
      BY <2>4, <3>1, <3>3
    <3>4. CASE k \in 1..n
      BY <2>4, <2>5, <2>6, <3>1, <3>2, <3>4
    <3> QED
      BY <2>1, <3>3, <3>4
  <2> QED
    BY <2>2, <2>7, <2>9 DEF OrderOK, Time
<1> QED
  BY <1>1, <1>2, <1>3, StepKinds

-----------------------------------------------------------------------------
(* The iterators.                                                          *)

LEMMA IterOKStep ==
  ASSUME TypeOK, IInv, [Next]_vars
  PROVE  IterOK'
<1> USE DEF TypeOK, IterType
<1>1. CASE UNCHANGED <<view, start, pos, applied, exhausted>>
  BY <1>1 DEF IInv, IterOK
<1>2. ASSUME NEW c \in Clusters, OpenEmpty(c)
      PROVE  IterOK'
  <2>1. view[c] = <<>> /\ applied[c] <= Len(view[c]) /\ applied[c] \in Nat
    BY <1>2 DEF OpenEmpty, IInv, PhaseOK, IterOK
  <2>2. applied[c] = Len(view[c])
    BY <2>1
  <2> QED
    BY <1>2, <2>2 DEF OpenEmpty, IInv, IterOK
<1>3. ASSUME NEW c \in Clusters, OpenPIT(c)
      PROVE  IterOK'
  <2>1. PICK v \in Views : view' = [view EXCEPT ![c] = v]
    BY <1>3 DEF OpenPIT
  <2>2. /\ v \in Seq(Nat) /\ Len(v) \in Nat
        /\ \A i, j \in DOMAIN v : i < j => v[i] >= v[j]
    BY ViewsAssumption
  <2>3. view[c] = <<>> /\ c \notin exhausted
    BY <1>3 DEF OpenPIT, IInv, PhaseOK
  <2>4. /\ start[c] <= pos[c] /\ pos[c] <= applied[c]
        /\ applied[c] \in Nat /\ applied[c] <= Len(view[c])
    BY DEF IInv, IterOK
  <2>5. applied[c] <= Len(v)
    BY <2>2, <2>3, <2>4
  <2>6. UNCHANGED <<start, pos, applied, exhausted>>
    BY <1>3 DEF OpenPIT
  <2> QED
    BY <2>1, <2>2, <2>3, <2>4, <2>5, <2>6 DEF IInv, IterOK
<1>4. ASSUME NEW c \in Clusters, OpenResumed(c)
      PROVE  IterOK'
  <2>1. PICK v \in Views : \E p \in DOMAIN v :
          /\ view' = [view EXCEPT ![c] = v]
          /\ start' = [start EXCEPT ![c] = p]
          /\ pos' = [pos EXCEPT ![c] = p]
          /\ applied' = [applied EXCEPT ![c] = p]
    BY <1>4 DEF OpenResumed
  <2>2. /\ v \in Seq(Nat) /\ Len(v) \in Nat /\ DOMAIN v = 1..Len(v)
        /\ \A i, j \in DOMAIN v : i < j => v[i] >= v[j]
    BY ViewsAssumption
  <2>3. c \notin exhausted /\ UNCHANGED exhausted
    BY <1>4 DEF OpenResumed, IInv, PhaseOK
  <2>4. PICK p \in 1..Len(v) :
          /\ start' = [start EXCEPT ![c] = p]
          /\ pos' = [pos EXCEPT ![c] = p]
          /\ applied' = [applied EXCEPT ![c] = p]
    BY <2>1, <2>2
  <2>5. \A d \in Clusters : d # c =>
          /\ view'[d] = view[d] /\ start'[d] = start[d] /\ pos'[d] = pos[d]
          /\ applied'[d] = applied[d]
    BY <2>1, <2>4
  <2>6. view'[c] = v /\ start'[c] = p /\ pos'[c] = p /\ applied'[c] = p
    BY <2>1, <2>4
  <2> QED
    <3> SUFFICES ASSUME NEW d \in Clusters
                 PROVE  /\ start'[d] <= pos'[d] /\ pos'[d] <= applied'[d]
                        /\ applied'[d] <= Len(view'[d])
                        /\ d \in exhausted' => applied'[d] = Len(view'[d])
                        /\ \A i, j \in DOMAIN view'[d] :
                             i < j => view'[d][i] >= view'[d][j]
      BY DEF IterOK
    <3>1. CASE d = c
      <4>1. p \in Nat /\ p <= Len(v)
        BY <2>2, <2>4
      <4>2. /\ start'[d] = p /\ pos'[d] = p /\ applied'[d] = p
            /\ view'[d] = v /\ d \notin exhausted'
        BY <2>3, <2>6, <3>1
      <4>3. \A i, j \in DOMAIN view'[d] : i < j => view'[d][i] >= view'[d][j]
        BY <2>2, <4>2, Zenon
      <4> QED
        BY <4>1, <4>2, <4>3
    <3>2. CASE d # c
      BY <2>3, <2>5, <3>2 DEF IInv, IterOK
    <3> QED
      BY <3>1, <3>2
<1>5. ASSUME NEW c \in Clusters, FetchInline(c) \/ TakePrefetched(c)
      PROVE  IterOK'
  BY <1>5, ReadStep
<1>6. ASSUME NEW c \in Clusters, MergeTake(c)
      PROVE  IterOK'
  <2>1. pos[c] < applied[c]
    BY <1>6 DEF MergeTake, IsTop, IInv, HeapOK, hasHead
  <2>2. /\ pos' = [pos EXCEPT ![c] = pos[c] + 1]
        /\ UNCHANGED <<view, start, applied, exhausted>>
    BY <1>6 DEF MergeTake
  <2>3. /\ \A d \in Clusters : d # c => pos'[d] = pos[d]
        /\ pos'[c] = pos[c] + 1
        /\ start[c] <= pos[c] /\ applied[c] \in Nat /\ pos[c] \in Nat
        /\ start[c] \in Nat
    BY <2>2 DEF IInv, IterOK
  <2>4. start[c] <= pos'[c] /\ pos'[c] <= applied[c]
    BY <2>1, <2>3
  <2> QED
    BY <2>2, <2>3, <2>4 DEF IInv, IterOK
<1> QED
  BY <1>1, <1>2, <1>3, <1>4, <1>5, <1>6
     DEF Next, Producer, Reject, ReplayDone, OpenEnd, EmitMeta, PrimeEnd,
         MergeCancelled, MergeDrained, Flush, FailFlush, Finish, ClosePITs, Keeps,
         Cancel, Terminated, vars, iterVars, OpenFail, PrimeNext,
         EnsureReturn, BatchDue, PrefetchFetch

LEMMA PrefetchFreshStep ==
  ASSUME TypeOK, IInv, [Next]_vars
  PROVE  PrefetchFresh'
<1> USE DEF TypeOK, IterType
<1>1. CASE UNCHANGED <<prefetch, asked, applied, exhausted>>
  BY <1>1 DEF IInv, PrefetchFresh
<1>2. ASSUME NEW c \in Clusters, OpenEmpty(c) \/ OpenResumed(c)
      PROVE  PrefetchFresh'
  <2>1. \A d \in Clusters : prefetch[d] = "idle"
    BY <1>2 DEF OpenEmpty, OpenResumed, IInv, PhaseOK
  <2>2. UNCHANGED prefetch
    BY <1>2 DEF OpenEmpty, OpenResumed
  <2> QED
    BY <2>1, <2>2 DEF PrefetchFresh
<1>3. ASSUME NEW c \in Clusters, FetchInline(c) \/ TakePrefetched(c)
      PROVE  PrefetchFresh'
  BY <1>3, ReadStep
<1>4. ASSUME NEW c \in Clusters, PrefetchFetch(c)
      PROVE  PrefetchFresh'
  BY <1>4 DEF PrefetchFetch, IInv, PrefetchFresh
<1> QED
  BY <1>1, <1>2, <1>3, <1>4
     DEF Next, Producer, Reject, ReplayDone, OpenEnd, EmitMeta, PrimeEnd,
         MergeCancelled, MergeDrained, Flush, FailFlush, Finish, ClosePITs, Keeps,
         Cancel, Terminated, vars, iterVars, OpenPIT, OpenFail, PrimeNext,
         EnsureReturn, BatchDue, MergeTake

-----------------------------------------------------------------------------
(* The heap.                                                               *)

LEMMA HeapOKStep ==
  ASSUME TypeOK, IInv, [Next]_vars
  PROVE  HeapOK'
<1> USE DEF TypeOK, ControlType, MergeType, IterType
<1>1. CASE /\ UNCHANGED <<cur, heap, primed, pos, applied, view>>
           /\ \/ pc' = pc
              \/ pc' \in {"open", "close", "closed", "failflush"}
              \/ pc = "merge" /\ pc' \in {"flush", "finish"}
              \/ pc = "flush" /\ pc' \in {"merge", "finish"}
  BY <1>1 DEF IInv, HeapOK, hasHead, Remaining
<1>2. CASE pc' \in {"open", "meta", "close", "closed", "failflush"}
  BY <1>2 DEF HeapOK
<1>3. CASE EmitMeta
  BY <1>3 DEF EmitMeta, Fail, mergeVars, IInv, PhaseOK, HeapOK
<1>4. CASE PrimeEnd
  BY <1>4 DEF PrimeEnd, mergeVars, iterVars, IInv, HeapOK, hasHead, Remaining
<1>5. ASSUME NEW c \in Clusters, PrimeNext(c)
      PROVE  HeapOK'
  BY <1>5 DEF PrimeNext, iterVars, IInv, HeapOK, hasHead, Remaining
<1>6. ASSUME NEW c \in Clusters, FetchInline(c) \/ TakePrefetched(c)
      PROVE  HeapOK'
  <2>1. UNCHANGED <<pos, view, heap, primed>>
    BY <1>6, ReadStep
  <2>2. CASE EnsureError /\ cur' = None
    BY <2>2 DEF EnsureError, HeapOK
  <2>3. CASE /\ UNCHANGED <<pc, cur>> /\ cur = c
             /\ \A d \in Clusters : d # c => applied'[d] = applied[d]
    BY <2>1, <2>3 DEF IInv, HeapOK, hasHead, Remaining
  <2> QED
    BY <1>6, <2>2, <2>3 DEF FetchInline, TakePrefetched, ApplyPage
<1>7. ASSUME NEW c \in Clusters, EnsureReturn(c)
      PROVE  HeapOK'
  <2>1. pc \in {"prime", "merge"}
    BY <1>7 DEF EnsureReturn, BatchDue, IInv, PhaseOK
  <2>2. ~hasHead(c) => ~Remaining(c)
    BY <1>7 DEF EnsureReturn, BatchDue, hasHead, Remaining, IInv, IterOK
  <2>3. UNCHANGED <<pos, applied, view>> /\ cur' = None /\ cur = c
    BY <1>7 DEF EnsureReturn, BatchDue, iterVars
  <2>4. heap' = IF hasHead(c) THEN heap \cup {c} ELSE heap \ {c}
    BY <1>7 DEF EnsureReturn, BatchDue
  <2>5. CASE pc = "prime"
    <3>1. pc' = "prime" /\ primed' = primed \cup {c}
      BY <1>7, <2>5 DEF EnsureReturn, BatchDue
    <3> QED
      BY <2>2, <2>3, <2>4, <2>5, <3>1 DEF IInv, HeapOK, hasHead, Remaining
  <2>6. CASE pc = "merge"
    <3>1. pc' \in {"merge", "flush"}
      BY <1>7, <2>6 DEF EnsureReturn, BatchDue
    <3> QED
      BY <2>2, <2>3, <2>4, <2>6, <3>1 DEF IInv, HeapOK, hasHead, Remaining
  <2> QED
    BY <2>1, <2>5, <2>6
<1>8. ASSUME NEW c \in Clusters, MergeTake(c)
      PROVE  HeapOK'
  <2>1. /\ pc' = "merge" /\ pc = "merge" /\ cur = None /\ cur' = c
        /\ UNCHANGED <<heap, primed, applied, view>>
        /\ \A d \in Clusters : d # c => pos'[d] = pos[d]
    BY <1>8 DEF MergeTake
  <2> QED
    BY <2>1 DEF IInv, HeapOK, hasHead, Remaining
<1>9. ASSUME NEW c \in Clusters, PrefetchFetch(c)
      PROVE  HeapOK'
  BY <1>9 DEF PrefetchFetch, mergeVars, IInv, HeapOK, hasHead, Remaining
<1>10. CASE Flush \/ MergeDrained
  BY <1>1, <1>2, <1>10 DEF Flush, MergeDrained, Fail, mergeVars, iterVars
<1>11. CASE Cancel \/ Terminated \/ UNCHANGED vars
  BY <1>1, <1>11 DEF Cancel, Terminated, vars, mergeVars, iterVars
<1>12. CASE Reject \/ ReplayDone \/ OpenEnd \/ MergeCancelled \/ FailFlush
            \/ Finish \/ ClosePITs
            \/ \E c \in Clusters : \/ OpenEmpty(c) \/ OpenPIT(c)
                                  \/ OpenResumed(c) \/ OpenFail(c)
  BY <1>2, <1>12 DEF Reject, ReplayDone, OpenEnd, MergeCancelled, FailFlush,
     Finish, ClosePITs, Keeps, Fail, OpenEmpty, OpenPIT, OpenResumed, OpenFail
<1> QED
  BY <1>3, <1>4, <1>5, <1>6, <1>7, <1>8, <1>9, <1>10, <1>11, <1>12
     DEF Next, Producer

-----------------------------------------------------------------------------
(* Phases, budget, cursors, snapshots and the reported end.                *)

\* The opening loop and the steps of ensure() leave the batch and what was
\* emitted alone.
LEMMA PhaseStep ==
  ASSUME TypeOK, IInv, [Next]_vars
  PROVE  PhaseOK'
<1> USE DEF TypeOK, ControlType, MergeType
<1>1. CASE Reject \/ ReplayDone
  BY <1>1 DEF Reject, ReplayDone, Fail, mergeVars, IInv, PhaseOK
<1>2. CASE OpenEnd \/ EmitMeta
  BY <1>2 DEF OpenEnd, EmitMeta, Fail, mergeVars, iterVars, Taken, IInv,
     PhaseOK
<1>3. CASE PrimeEnd \/ MergeCancelled
  BY <1>3 DEF PrimeEnd, MergeCancelled, Fail, mergeVars, iterVars, IInv,
     PhaseOK
<1>4. CASE MergeDrained
  BY <1>4 DEF MergeDrained, mergeVars, IInv, PhaseOK
<1>5. CASE Flush
  <2>1. CASE outcome' = "error" /\ pc' = "close" /\ UNCHANGED <<truncated, cur>>
    BY <1>5, <2>1 DEF IInv, PhaseOK, Flush
  <2>2. CASE Len(out') >= MaxRecords /\ truncated' = (heap # {})
             /\ pc' = "finish" /\ Emitted
    <3>1. Len(out') = MaxRecords
      <4>1. Len(out') = Len(out) + Len(batch)
        BY <2>2 DEF Emitted
      <4>2. Len(out) + Len(batch) <= MaxRecords
        BY DEF IInv, BudgetOK, WithinBudget
      <4>3. Len(out) \in Nat /\ Len(batch) \in Nat
        OBVIOUS
      <4> QED
        BY <2>2, <4>1, <4>2, <4>3
    <3>2. batch' = <<>> /\ UNCHANGED <<heap, cur, outcome>>
      BY <1>5, <2>2 DEF Flush, Emitted, Fail
    <3> QED
      BY <1>5, <2>2, <3>1, <3>2 DEF IInv, PhaseOK, Flush
  <2>3. CASE pc' = "merge" /\ UNCHANGED <<truncated, outcome, cur>>
    BY <1>5, <2>3 DEF IInv, PhaseOK, Flush
  <2> QED
    BY <1>5, <2>1, <2>2, <2>3 DEF Flush, Fail
<1>6. CASE FailFlush \/ Finish \/ ClosePITs
  BY <1>6 DEF FailFlush, Finish, ClosePITs, Keeps, Fail, mergeVars, IInv, PhaseOK
<1>7. ASSUME NEW c \in Clusters,
             OpenEmpty(c) \/ OpenPIT(c) \/ OpenResumed(c) \/ OpenFail(c)
      PROVE  PhaseOK'
  <2>1. /\ pc = "open" /\ pc' = "open" /\ UNCHANGED mergeVars
        /\ outcome' \in {outcome, "error"} /\ UNCHANGED prefetch
        /\ opened' = opened \cup {c}
    BY <1>7 DEF OpenEmpty, OpenPIT, OpenResumed, OpenFail, iterVars
  <2>2. \A d \in Clusters \ opened' :
          view'[d] = view[d] /\ (d \in exhausted' => d \in exhausted)
    BY <1>7, <2>1 DEF OpenEmpty, OpenPIT, OpenResumed, OpenFail, iterVars,
       IterType
  <2>3. Taken' = Taken /\ \A d \in Clusters : pos'[d] = start'[d]
    <3>1. CASE UNCHANGED <<pos, start>>
      BY <2>1, <3>1 DEF Taken, mergeVars, IInv, PhaseOK
    <3>2. CASE OpenResumed(c)
      BY <2>1, <3>2, OpenKind DEF Taken, mergeVars
    <3> QED
      BY <1>7, <3>1, <3>2 DEF OpenEmpty, OpenPIT, OpenFail, iterVars
  <2> QED
    BY <2>1, <2>2, <2>3 DEF IInv, PhaseOK, mergeVars
<1>8. ASSUME NEW c \in Clusters, FetchInline(c) \/ TakePrefetched(c)
      PROVE  PhaseOK'
  <2>1. UNCHANGED <<pos, view, start, out, batch, heap, primed>>
    BY <1>8, ReadStep
  <2>2. /\ cur = c /\ pc \in {"prime", "merge"}
        /\ UNCHANGED truncated /\ outcome = "none" /\ ~truncated
    BY <1>8 DEF FetchInline, TakePrefetched, IInv, PhaseOK
  <2>3. CASE UNCHANGED <<pc, outcome, cur>>
    BY <2>1, <2>2, <2>3 DEF Taken, IInv, PhaseOK
  <2>4. CASE EnsureError /\ cur' = None
    BY <2>1, <2>2, <2>4 DEF EnsureError, Taken, IInv, PhaseOK
  <2> QED
    BY <1>8, <2>3, <2>4 DEF FetchInline, TakePrefetched
<1>9. ASSUME NEW c \in Clusters, EnsureReturn(c) \/ PrimeNext(c)
      PROVE  PhaseOK'
  <2>1. /\ pc \in {"prime", "merge"} /\ pc' \in {pc, "merge", "flush"}
        /\ pc' # pc => pc = "merge"
        /\ cur' = None \/ (pc = "prime" /\ pc' = "prime")
        /\ UNCHANGED <<batch, out, truncated, outcome, iterVars>>
    BY <1>9 DEF EnsureReturn, BatchDue, PrimeNext, IInv, PhaseOK
  <2> QED
    BY <2>1 DEF iterVars, Taken, IInv, PhaseOK
<1>10. ASSUME NEW c \in Clusters, MergeTake(c)
      PROVE  PhaseOK'
  BY <1>10 DEF MergeTake, IInv, PhaseOK
<1>11. ASSUME NEW c \in Clusters, PrefetchFetch(c)
      PROVE  PhaseOK'
  <2>1. pc \notin {"open", "meta"}
    BY <1>11 DEF PrefetchFetch, IInv, PhaseOK
  <2>2. UNCHANGED <<pc, outcome, mergeVars, view, start, pos>>
    BY <1>11 DEF PrefetchFetch
  <2> QED
    BY <2>1, <2>2 DEF mergeVars, Taken, IInv, PhaseOK
<1>12. CASE Cancel \/ Terminated \/ UNCHANGED vars
  BY <1>12 DEF Cancel, Terminated, vars, mergeVars, iterVars, Taken, IInv,
     PhaseOK
<1> QED
  BY <1>1, <1>2, <1>3, <1>4, <1>5, <1>6, <1>7, <1>8, <1>9, <1>10, <1>11,
     <1>12 DEF Next, Producer

LEMMA BudgetStep ==
  ASSUME TypeOK, IInv, [Next]_vars
  PROVE  BudgetOK'
<1> USE DEF TypeOK, MergeType
<1>1. Len(out) \in Nat /\ Len(batch) \in Nat /\ Len(Taken) = Len(out) + Len(batch)
  BY DEF Taken
<1>2. CASE UNCHANGED <<out, batch>> /\ (pc' # "merge" \/ cur' # None)
  BY <1>2 DEF IInv, BudgetOK, WithinBudget
<1>3. CASE UNCHANGED <<out, batch, pc, cur>>
  BY <1>3 DEF IInv, BudgetOK, WithinBudget, Taken
<1>4. CASE Flush \/ FailFlush
  <2>1. CASE UNCHANGED <<out, batch>> /\ pc' = "close"
    BY <1>2, <2>1
  <2>2. CASE Emitted
    <3>1. Len(out') = Len(out) + Len(batch) /\ Len(batch') = 0
          /\ Len(Taken') = Len(out')
      BY <2>2 DEF Emitted, Taken
    <3>2. pc' = "merge" => Len(out') < MaxRecords
      BY <1>1, <1>4, <3>1 DEF Flush, FailFlush, Fail
    <3> QED
      BY <1>1, <3>1, <3>2 DEF IInv, BudgetOK, WithinBudget
  <2> QED
    BY <1>4, <2>1, <2>2 DEF Flush, FailFlush, Fail
<1>5. CASE PrimeEnd
  <2>1. Taken = <<>> /\ UNCHANGED <<out, batch>>
    BY <1>5 DEF PrimeEnd, mergeVars, IInv, PhaseOK
  <2>2. Taken' = <<>>
    BY <2>1 DEF Taken
  <2> QED
    BY <2>1, <2>2 DEF IInv, BudgetOK, WithinBudget
<1>6. ASSUME NEW c \in Clusters, EnsureReturn(c)
      PROVE  BudgetOK'
  <2>1. UNCHANGED <<out, batch>>
    BY <1>6 DEF EnsureReturn, BatchDue
  <2>2. pc' = "merge" => Len(out) + Len(batch) < MaxRecords
    BY <1>1, <1>6 DEF EnsureReturn, BatchDue, IInv, PhaseOK
  <2>3. Taken' = Taken
    BY <2>1 DEF Taken
  <2> QED
    BY <1>1, <2>1, <2>2, <2>3 DEF IInv, BudgetOK, WithinBudget
<1>7. ASSUME NEW c \in Clusters, MergeTake(c)
      PROVE  BudgetOK'
  <2>1. Len(batch') = Len(batch) + 1 /\ out' = out /\ cur' # None
    BY <1>7 DEF MergeTake
  <2>2. Len(Taken) < MaxRecords
    BY <1>7 DEF MergeTake, IInv, BudgetOK
  <2> QED
    BY <1>1, <2>1, <2>2 DEF BudgetOK, WithinBudget
<1>8. ASSUME NEW c \in Clusters, FetchInline(c) \/ TakePrefetched(c)
      PROVE  BudgetOK'
  <2>1. UNCHANGED <<out, batch>>
    BY <1>8, ReadStep
  <2>2. pc' \in {"close", "failflush"} \/ UNCHANGED <<pc, cur>>
    BY <1>8 DEF FetchInline, TakePrefetched, EnsureError
  <2> QED
    BY <1>2, <1>3, <2>1, <2>2
<1> QED
  BY <1>2, <1>3, <1>4, <1>5, <1>6, <1>7, <1>8
     DEF Next, Producer, Reject, ReplayDone, OpenEnd, EmitMeta,
         MergeCancelled, MergeDrained, Finish, ClosePITs, Keeps, Cancel, Fail,
         Terminated, vars, mergeVars, OpenEmpty, OpenPIT, OpenResumed,
         OpenFail, PrimeNext, PrefetchFetch

\* With one cluster the last record taken is the last one committed.
LEMMA CursorStep ==
  ASSUME TypeOK, IInv, [Next]_vars
  PROVE  CursorOK'
<1> USE DEF TypeOK, ControlType, MergeType
<1> DEFINE one == CHOOSE c \in Clusters : TRUE
<1>1. CASE UNCHANGED <<out, batch, committed, lastID, doneCursor>>
           /\ (pc \in {"close", "closed"} => pc' \in {"close", "closed"})
  BY <1>1 DEF IInv, CursorOK, Taken
<1>2. CASE Emitted /\ UNCHANGED <<committed, doneCursor>>
           /\ pc \notin {"close", "closed"}
  <2>1. /\ out \in Seq(Record) /\ batch \in Seq(Record)
        /\ Taken \in Seq(Record) /\ out' = Taken /\ Taken' = Taken
    BY <1>2, ConcatEmptySeq DEF Emitted, Taken
  <2>2. doneCursor' = 0
    BY <1>2 DEF IInv, CursorOK
  <2>3. CASE resumable
    <3>1. lastID' = committed[one]
      BY <1>2, <2>3 DEF Emitted
    <3>2. one \in Clusters
      OBVIOUS
    <3> QED
      BY <1>2, <2>1, <2>2, <2>3, <3>1, <3>2 DEF IInv, CursorOK
  <2>4. CASE ~resumable
    BY <1>2, <2>2, <2>4 DEF Emitted, IInv, CursorOK
  <2> QED
    BY <2>3, <2>4
<1>3. CASE Finish
  <2>1. /\ batch = <<>> /\ Taken = out
        /\ UNCHANGED <<out, batch, committed, lastID>> /\ Taken' = Taken
    BY <1>3, ConcatEmptySeq
       DEF Finish, mergeVars, iterVars, IInv, PhaseOK, Taken
  <2>2. one \in Clusters
    OBVIOUS
  <2>3. resumable => committed[one] = lastID
    BY <2>1, <2>2 DEF IInv, CursorOK
  <2>4. doneCursor' = (IF resumable THEN committed[one] ELSE 0) /\ pc' = "close"
    BY <1>3 DEF Finish
  <2> QED
    BY <2>1, <2>3, <2>4 DEF IInv, CursorOK
<1>4. ASSUME NEW c \in Clusters, MergeTake(c)
      PROVE  CursorOK'
  <2>1. /\ Taken' \in Seq(Record) /\ Len(Taken') = Len(Taken) + 1
        /\ Taken \in Seq(Record)
        /\ Taken'[Len(Taken) + 1][2] = pos[c] + 1
    BY <1>4, TakeKind
  <2>2. Taken' # <<>> /\ Taken'[Len(Taken')][2] = pos[c] + 1
    BY <2>1
  <2>3. /\ UNCHANGED <<out, lastID, doneCursor, pc>>
        /\ committed' = [committed EXCEPT ![c] = pos[c] + 1]
    BY <1>4 DEF MergeTake
  <2>4. resumable => \A d \in Clusters : committed'[d] = pos[c] + 1
    BY <2>3 DEF resumable, IterType
  <2> QED
    BY <2>2, <2>3, <2>4 DEF IInv, CursorOK
<1>5. CASE Flush \/ FailFlush
  <2>1. UNCHANGED <<committed, doneCursor>> /\ pc \notin {"close", "closed"}
    BY <1>5 DEF Flush, FailFlush, Fail, iterVars
  <2> QED
    BY <1>1, <1>2, <1>5, <2>1 DEF Flush, FailFlush
<1>6. ASSUME NEW c \in Clusters, FetchInline(c) \/ TakePrefetched(c)
      PROVE  CursorOK'
  <2>1. /\ UNCHANGED <<out, batch, committed, lastID, doneCursor>>
        /\ pc \notin {"close", "closed"}
    BY <1>6 DEF FetchInline, TakePrefetched, IInv, PhaseOK
  <2> QED
    BY <1>1, <2>1
<1>7. ASSUME NEW c \in Clusters, PrimeNext(c) \/ EnsureReturn(c)
      PROVE  CursorOK'
  <2>1. /\ UNCHANGED <<out, batch, committed, lastID, doneCursor>>
        /\ pc \notin {"close", "closed"}
    BY <1>7 DEF PrimeNext, EnsureReturn, BatchDue, iterVars, IInv, PhaseOK
  <2> QED
    BY <1>1, <2>1
<1> QED
  BY <1>1, <1>3, <1>4, <1>5, <1>6, <1>7
     DEF Next, Producer, Reject, ReplayDone, OpenEnd, EmitMeta, PrimeEnd,
         MergeCancelled, MergeDrained, ClosePITs, Keeps, Cancel, Fail, Terminated,
         vars, mergeVars, iterVars, OpenEmpty, OpenPIT, OpenResumed,
         OpenFail, PrefetchFetch

\* No step makes an unheard snapshot anything else, or forgets the failure.
LEMMA SnapshotStep ==
  ASSUME TypeOK, IInv, [Next]_vars
  PROVE  SnapshotOK'
<1> USE DEF TypeOK, ControlType
<1>1. CASE /\ UNCHANGED <<pit, view>> /\ opened \subseteq opened'
           /\ pc = "closed" => pc' = "closed"
           /\ pc' = "open" => pc = "open"
           /\ outcome = "error" => outcome' = "error"
  BY <1>1 DEF IInv, SnapshotOK
<1>2. ASSUME NEW c \in Clusters, OpenPIT(c) \/ OpenResumed(c)
      PROVE  SnapshotOK'
  <2>1. /\ pit' = [pit EXCEPT ![c] = "open"] /\ pc' = pc /\ pc = "open"
        /\ \E v : view' = [view EXCEPT ![c] = v]
        /\ opened' = opened \cup {c} /\ outcome' = outcome
    BY <1>2 DEF OpenPIT, OpenResumed
  <2> QED
    BY <2>1 DEF IInv, SnapshotOK, IterType
<1>3. ASSUME NEW c \in Clusters, OpenFail(c)
      PROVE  SnapshotOK'
  <2>1. /\ pc' = pc /\ pc = "open" /\ view' = view /\ outcome' = "error"
        /\ pit' = pit \/ pit' = [pit EXCEPT ![c] = "stray"]
        /\ opened' = opened \cup {c}
    BY <1>3 DEF OpenFail, iterVars
  <2>2. pit[c] = "none"
    BY <1>3, <2>1 DEF OpenFail, IInv, SnapshotOK
  <2> QED
    BY <2>1, <2>2 DEF IInv, SnapshotOK
<1>4. CASE ClosePITs
  <2>1. /\ pc' = "closed" /\ UNCHANGED <<view, outcome>>
        /\ \A c \in Clusters : \/ pit'[c] = pit[c]
                               \/ pit'[c] \in {"kept", "left", "released"}
    BY <1>4 DEF ClosePITs, Keeps, iterVars
  <2> QED
    BY <2>1 DEF IInv, SnapshotOK
<1>5. CASE ReplayDone \/ Finish
  <2>1. /\ UNCHANGED <<pit, view>> /\ pc # "closed" /\ pc' = "close"
        /\ (pc = "open" /\ opened = {}) \/ outcome = "none"
    BY <1>5 DEF ReplayDone, Finish, iterVars, IInv, PhaseOK
  <2>2. \A c \in Clusters : pit[c] # "stray"
    BY <2>1 DEF IInv, SnapshotOK
  <2> QED
    BY <2>1, <2>2 DEF IInv, SnapshotOK
<1>6. ASSUME NEW c \in Clusters, FetchInline(c) \/ TakePrefetched(c)
      PROVE  SnapshotOK'
  <2>1. /\ UNCHANGED <<pit, view, opened>> /\ pc \in {"prime", "merge"}
        /\ UNCHANGED <<pc, outcome>> \/ EnsureError
    BY <1>6, ClustersAssumption DEF FetchInline, TakePrefetched, IInv, PhaseOK
  <2> QED
    BY <1>1, <2>1 DEF EnsureError
<1>7. ASSUME NEW c \in Clusters,
             PrimeNext(c) \/ EnsureReturn(c) \/ MergeTake(c) \/ PrefetchFetch(c)
      PROVE  SnapshotOK'
  <2>1. /\ UNCHANGED <<pit, view, opened, outcome>>
        /\ pc = "closed" => pc' = "closed"
        /\ pc' = "open" => pc = "open"
    BY <1>7, ClustersAssumption DEF PrimeNext, EnsureReturn, BatchDue, MergeTake,
       PrefetchFetch, iterVars, IInv, PhaseOK
  <2> QED
    BY <1>1, <2>1
<1>8. CASE Reject \/ OpenEnd \/ EmitMeta \/ PrimeEnd \/ MergeCancelled
           \/ MergeDrained \/ Flush \/ FailFlush \/ Cancel \/ Terminated
           \/ UNCHANGED vars \/ \E c \in Clusters : OpenEmpty(c)
  BY <1>1, <1>8
     DEF Reject, OpenEnd, EmitMeta, PrimeEnd, MergeCancelled, MergeDrained,
         Flush, FailFlush, Cancel, Fail, Terminated, vars, iterVars, OpenEmpty
<1> QED
  BY <1>2, <1>3, <1>4, <1>5, <1>6, <1>7, <1>8 DEF Next, Producer

LEMMA HonestEndStep ==
  ASSUME TypeOK, IInv, [Next]_vars
  PROVE  HonestEnd'
<1> USE DEF TypeOK, ControlType, MergeType
<1>1. CASE outcome' # "done"
  BY <1>1 DEF HonestEnd
<1>2. CASE ReplayDone
  <2>1. /\ batch' = <<>> /\ UNCHANGED <<truncated, view, pos>> /\ ~truncated
        /\ \A c \in Clusters : view[c] = <<>>
    BY <1>2, ConcatEqualIffEmpty DEF ReplayDone, mergeVars, iterVars, IInv,
       PhaseOK, Taken
  <2>2. \A c \in Clusters : Len(view[c]) = 0 /\ pos[c] \in Nat
    BY <2>1 DEF IterType
  <2> QED
    BY <2>1, <2>2 DEF HonestEnd, Remaining
<1>3. CASE Finish
  <2>1. /\ UNCHANGED <<truncated, view, pos, batch, out>> /\ batch = <<>>
        /\ truncated => heap # {} /\ Len(out) = MaxRecords
        /\ ~truncated => heap = {}
        /\ cur = None /\ pc = "finish"
    BY <1>3 DEF Finish, mergeVars, iterVars, IInv, PhaseOK
  <2>2. \A c \in heap : Remaining(c)
    BY <2>1, SMTT(60) DEF IInv, HeapOK, IterOK, hasHead, Remaining, IterType
  <2>3. \A c \in Clusters \ heap : ~Remaining(c)
    BY <2>1 DEF IInv, HeapOK
  <2> QED
    BY <2>1, <2>2, <2>3 DEF HonestEnd, Remaining
<1>4. CASE UNCHANGED <<truncated, view, pos, batch, out, outcome>>
  BY <1>4 DEF IInv, HonestEnd, Remaining
<1>5. CASE pc \notin {"close", "closed", "open", "finish"}
  <2>1. outcome = "none"
    BY <1>5 DEF IInv, PhaseOK
  <2>2. outcome' \in {"none", "error"}
    BY <1>5, <2>1
       DEF Next, Producer, Reject, ReplayDone, OpenEnd, EmitMeta, PrimeEnd,
           MergeCancelled, MergeDrained, Flush, FailFlush, Finish, ClosePITs, Keeps,
           Cancel, Fail, Terminated, vars, OpenEmpty, OpenPIT, OpenResumed,
           OpenFail, PrimeNext, EnsureReturn, BatchDue, MergeTake, PrefetchFetch,
           FetchInline, TakePrefetched, EnsureError
  <2> QED
    BY <1>1, <2>2
<1>6. CASE pc \in {"close", "closed", "finish"} /\ ~Finish
  <2>1. cur = None
    BY <1>6 DEF IInv, PhaseOK
  <2>2. UNCHANGED <<truncated, view, pos, batch, out, outcome>>
    BY <1>6, <2>1
       DEF Next, Producer, Reject, ReplayDone, OpenEnd, EmitMeta, PrimeEnd,
           MergeCancelled, MergeDrained, Flush, FailFlush, ClosePITs, Keeps,
           Cancel, Terminated, vars, OpenEmpty, OpenPIT, OpenResumed,
           OpenFail, PrimeNext, EnsureReturn, BatchDue, MergeTake, PrefetchFetch,
           FetchInline, TakePrefetched, mergeVars, iterVars
  <2> QED
    BY <1>4, <2>2
<1>7. CASE pc = "open" /\ ~ReplayDone
  <2>1. cur = None /\ outcome # "done"
    BY <1>7 DEF IInv, PhaseOK
  <2>2. outcome' # "done"
    BY <1>7, <2>1
       DEF Next, Producer, Reject, OpenEnd, EmitMeta, PrimeEnd,
           MergeCancelled, MergeDrained, Flush, FailFlush, Finish, ClosePITs, Keeps,
           Cancel, Fail, Terminated, vars, OpenEmpty, OpenPIT, OpenResumed,
           OpenFail, PrimeNext, EnsureReturn, BatchDue, MergeTake, PrefetchFetch,
           FetchInline, TakePrefetched
  <2> QED
    BY <1>1, <2>2
<1> QED
  BY <1>2, <1>3, <1>5, <1>6, <1>7

LEMMA SnapshotsAccountedStep ==
  ASSUME TypeOK, IInv, [Next]_vars
  PROVE  SnapshotsAccounted'
<1> USE DEF TypeOK, ControlType, MergeType
<1>1. CASE pc' # "closed"
  BY <1>1 DEF SnapshotsAccounted
<1>2. CASE ClosePITs
  <2>1. ASSUME NEW c \in Clusters, lastID # 0
        PROVE  resumable /\ committed[c] # 0 /\ pit[c] = "open"
    <3>1. resumable /\ out # <<>> /\ out \in Seq(Record) /\ batch \in Seq(Record)
      BY <2>1 DEF IInv, CursorOK
    <3>2. Taken # <<>> /\ Taken \in Seq(Record)
      BY <3>1, ConcatEqualIffEmpty DEF Taken
    <3>3. Taken[Len(Taken)] \in Record /\ Len(Taken) \in DOMAIN Taken
      BY <3>2
    <3>4. /\ Taken[Len(Taken)][1] = c /\ committed[c] = Taken[Len(Taken)][2]
      BY <3>1, <3>2, <3>3 DEF IInv, CursorOK, resumable, Record
    <3>5. committed[c] > start[c] /\ committed[c] <= pos[c]
      BY <3>3, <3>4 DEF IInv, ExactlyOnce
    <3>6. /\ start[c] \in Nat /\ committed[c] \in Nat /\ pos[c] \in Nat
          /\ applied[c] \in Nat /\ pos[c] <= applied[c]
          /\ applied[c] <= Len(view[c]) /\ Len(view[c]) \in Nat
      BY DEF IterType, IInv, IterOK
    <3>7. view[c] # <<>> /\ committed[c] # 0
      BY <3>5, <3>6
    <3> QED
      BY <1>2, <3>1, <3>7 DEF ClosePITs, Keeps, IInv, SnapshotOK
  <2>2. ASSUME NEW c \in Clusters, Keeps(c)
        PROVE  resumable /\ Taken # <<>> /\ (outcome = "error" \/ lastID # 0)
    <3>1. resumable /\ Taken # <<>>
      BY <2>2 DEF Keeps, IInv, CursorOK
    <3>2. out # <<>> => lastID # 0
      <4> SUFFICES ASSUME out # <<>> PROVE lastID # 0
        OBVIOUS
      <4>1. out \in Seq(Record) /\ batch \in Seq(Record) /\ Len(out) \in 1..Len(out)
        OBVIOUS
      <4>2. /\ out[Len(out)] \in Record /\ Taken[Len(out)] = out[Len(out)]
            /\ Len(out) \in DOMAIN Taken
        BY <4>1 DEF Taken
      <4>3. out[Len(out)][2] > start[out[Len(out)][1]]
        BY <4>2 DEF IInv, ExactlyOnce
      <4>4. start[out[Len(out)][1]] \in Nat /\ out[Len(out)][2] \in Nat
        BY <4>2 DEF IterType, Record
      <4> QED
        BY <3>1, <4>3, <4>4 DEF IInv, CursorOK
    <3>3. outcome = "done" => out # <<>>
      <4> SUFFICES ASSUME outcome = "done", out = <<>> PROVE FALSE
        OBVIOUS
      <4>1. batch # <<>>
        BY <3>1 DEF Taken
      <4>2. truncated /\ Len(out) = MaxRecords
        BY <4>1 DEF IInv, HonestEnd
      <4> QED
        BY <4>2
    <3>4. outcome # "none"
      BY <1>2 DEF ClosePITs, IInv, PhaseOK
    <3> QED
      BY <3>1, <3>2, <3>3, <3>4
  <2>3. /\ UNCHANGED <<out, batch, outcome, lastID>>
        /\ \A c \in Clusters :
             /\ pit[c] # "open" => pit'[c] = pit[c]
             /\ pit[c] = "open" => pit'[c] = IF Keeps(c) THEN "kept" ELSE pit'[c]
             /\ pit[c] = "open" /\ ~Keeps(c) => pit'[c] \in {"left", "released"}
        /\ pc = "close"
    BY <1>2 DEF ClosePITs, mergeVars
  <2>4. /\ \A c \in Clusters : pit[c] \in {"none", "stray", "open"}
        /\ \A c \in Clusters : pit[c] = "stray" => outcome = "error"
    BY <2>3 DEF IInv, SnapshotOK
  <2>5. Taken' = Taken
    BY <2>3 DEF Taken
  <2>6. \A c \in Clusters : lastID # 0 => Keeps(c) /\ pit[c] = "open"
    BY <2>1 DEF Keeps
  <2> HIDE DEF Keeps
  <2>7. ASSUME NEW c \in Clusters
        PROVE  /\ pit'[c] # "open"
               /\ lastID # 0 => pit'[c] = "kept"
               /\ pit'[c] = "kept" => Keeps(c)
               /\ pit'[c] = "stray" => outcome = "error"
    BY <2>3, <2>4, <2>6
  <2> QED
    BY <2>2, <2>3, <2>5, <2>7 DEF SnapshotsAccounted, resumable
<1>3. CASE pc = "closed" /\ UNCHANGED <<pc, pit, out, batch, outcome, lastID>>
  BY <1>3 DEF IInv, SnapshotsAccounted, resumable, Taken
<1>4. CASE pc = "closed"
  <2>1. cur = None
    BY <1>4 DEF IInv, PhaseOK
  <2> QED
    BY <1>3, <1>4, <2>1
       DEF Next, Producer, Reject, ReplayDone, OpenEnd, EmitMeta, PrimeEnd,
           MergeCancelled, MergeDrained, Flush, FailFlush, Finish, ClosePITs, Keeps,
           Cancel, Terminated, vars, OpenEmpty, OpenPIT, OpenResumed,
           OpenFail, PrimeNext, EnsureReturn, BatchDue, MergeTake, PrefetchFetch,
           FetchInline, TakePrefetched, mergeVars, iterVars
<1>5. CASE pc # "closed" /\ ~ClosePITs
  <2>1. pc' # "closed"
    BY <1>5
       DEF Next, Producer, Reject, ReplayDone, OpenEnd, EmitMeta, PrimeEnd,
           MergeCancelled, MergeDrained, Flush, FailFlush, Finish,
           Cancel, Fail, Terminated, vars, OpenEmpty, OpenPIT, OpenResumed,
           OpenFail, PrimeNext, EnsureReturn, BatchDue, MergeTake, PrefetchFetch,
           FetchInline, TakePrefetched, EnsureError
  <2> QED
    BY <1>1, <2>1
<1> QED
  BY <1>2, <1>4, <1>5

-----------------------------------------------------------------------------
(* The invariant and what follows from it.                                 *)

LEMMA InitInv == Init => IInv
<1> SUFFICES ASSUME Init PROVE IInv
  OBVIOUS
<1>1. Taken = <<>>
  BY DEF Init, Taken
<1>2. IterOK /\ PrefetchFresh
  BY DEF Init, IterOK, PrefetchFresh
<1>3. PhaseOK /\ HeapOK
  BY <1>1 DEF Init, PhaseOK, HeapOK
<1>4. ExactlyOnce /\ OrderOK
  BY <1>1 DEF Init, ExactlyOnce, OrderOK
<1>5. BudgetOK /\ CursorOK
  BY <1>1 DEF Init, BudgetOK, WithinBudget, CursorOK
<1>6. SnapshotOK /\ HonestEnd /\ SnapshotsAccounted
  BY DEF Init, SnapshotOK, HonestEnd, SnapshotsAccounted
<1> QED
  BY <1>2, <1>3, <1>4, <1>5, <1>6 DEF IInv

\* The inductive invariant holds in every behaviour.
THEOREM Invariant == Spec => [](TypeOK /\ IInv)
<1>1. Init => TypeOK /\ IInv
  BY InitType, InitInv
<1>2. TypeOK /\ IInv /\ [Next]_vars => TypeOK' /\ IInv'
  BY ControlStep, MergeStep, IterStep, IterOKStep, PrefetchFreshStep,
     PhaseStep, HeapOKStep, ExactlyOnceStep, OrderStep, BudgetStep,
     CursorStep, SnapshotStep, HonestEndStep, SnapshotsAccountedStep
     DEF TypeOK, IInv
<1> QED
  BY <1>1, <1>2, PTL DEF Spec

\* The records the consumer acknowledged are newest first over all clusters
\* and batches: mergeRawStream never sends an older record too early.
THEOREM AlwaysDescending == Spec => []Descending
<1>1. TypeOK /\ IInv => Descending
  <2> SUFFICES ASSUME TypeOK, IInv,
                      NEW k \in DOMAIN out, NEW l \in DOMAIN out, k < l
               PROVE  Time(out[k]) >= Time(out[l])
    BY DEF Descending
  <2>1. /\ out \in Seq(Record) /\ batch \in Seq(Record)
        /\ Len(out) \in Nat /\ Len(batch) \in Nat
    BY DEF TypeOK, MergeType
  <2>2. /\ k \in DOMAIN Taken /\ l \in DOMAIN Taken
        /\ Taken[k] = out[k] /\ Taken[l] = out[l]
    BY <2>1, ConcatProperties DEF Taken
  <2> QED
    BY <2>2 DEF IInv, OrderOK
<1> QED
  BY <1>1, Invariant, PTL

\* No record is lost or sent twice, across pages, prefetches and batches.
THEOREM AlwaysExactlyOnce == Spec => []ExactlyOnce
<1>1. TypeOK /\ IInv => ExactlyOnce
  BY DEF IInv
<1> QED
  BY <1>1, Invariant, PTL

\* A stream says it is complete exactly when nothing is left.
THEOREM AlwaysHonestEnd == Spec => []HonestEnd
<1>1. TypeOK /\ IInv => HonestEnd
  BY DEF IInv
<1> QED
  BY <1>1, Invariant, PTL

\* A cursor names the last record of the last acknowledged batch.
THEOREM AlwaysCursorAtLastRecord == Spec => []CursorAtLastRecord
<1>1. TypeOK /\ IInv => CursorAtLastRecord
  <2> SUFFICES ASSUME TypeOK, IInv PROVE CursorAtLastRecord
    OBVIOUS
  <2>1. lastID # 0 => out # <<>> /\ out[Len(out)][2] = lastID
    BY DEF IInv, CursorOK
  <2>2. resumable /\ out # <<>> => lastID # 0
    <3> SUFFICES ASSUME resumable, out # <<>> PROVE lastID # 0
      OBVIOUS
    <3>1. /\ out \in Seq(Record) /\ batch \in Seq(Record)
          /\ Len(out) \in DOMAIN out
      BY DEF TypeOK, MergeType
    <3>2. Len(out) \in DOMAIN Taken /\ Taken[Len(out)] = out[Len(out)]
      BY <3>1, ConcatProperties DEF Taken
    <3>3. out[Len(out)] \in Record
      BY <3>1, ElementOfSeq
    <3>4. /\ out[Len(out)][2] > start[out[Len(out)][1]]
          /\ start[out[Len(out)][1]] \in Nat /\ out[Len(out)][2] \in Nat
      BY <3>2, <3>3 DEF IInv, ExactlyOnce, TypeOK, IterType, Record
    <3> QED
      BY <3>4 DEF IInv, CursorOK
  <2>3. doneCursor # 0 => doneCursor = lastID
    BY DEF IInv, CursorOK
  <2> QED
    BY <2>1, <2>2, <2>3 DEF CursorAtLastRecord
<1> QED
  BY <1>1, Invariant, PTL

\* When StreamRaw has returned, every snapshot it knows of is released, kept
\* for a cursor, or left by a close that failed; an acknowledged cursor finds
\* its snapshot, and only a lost open leaves one nobody knows of.
THEOREM AlwaysSnapshotsAccounted == Spec => []SnapshotsAccounted
<1>1. TypeOK /\ IInv => SnapshotsAccounted
  BY DEF IInv
<1> QED
  BY <1>1, Invariant, PTL

\* The record limit is never exceeded, whatever the page size.
THEOREM AlwaysWithinBudget == Spec => []WithinBudget
<1>1. TypeOK /\ IInv => WithinBudget
  BY DEF IInv, BudgetOK
<1> QED
  BY <1>1, Invariant, PTL

\* A prefetched page always follows the buffer it is appended to.
THEOREM AlwaysPrefetchFresh == Spec => []PrefetchFresh
<1>1. TypeOK /\ IInv => PrefetchFresh
  BY DEF IInv
<1> QED
  BY <1>1, Invariant, PTL

-----------------------------------------------------------------------------
(* Refinement of MergedFeed.                                               *)

\* What is taken, and so what a flush acknowledges, is a prefix of a merge of
\* the snapshots.
LEMMA TakenIsMerge ==
  ASSUME TypeOK, IInv
  PROVE  Feed!MergePrefix(Taken)
<1>1. Taken \in Seq(Record)
  BY DEF TypeOK, MergeType, Taken
<1>2. ASSUME NEW k \in DOMAIN Taken
      PROVE  /\ Taken[k] \in Record /\ Taken[k][1] \in Clusters
             /\ Taken[k][2] \in Nat
  <2>1. Taken[k] \in Record
    BY <1>1, ElementOfSeq
  <2> QED
    BY <2>1 DEF Record
<1>3. ASSUME NEW c \in Clusters
      PROVE  /\ start[c] \in Nat /\ pos[c] \in Nat /\ Len(view[c]) \in Nat
             /\ pos[c] <= Len(view[c]) /\ view[c] \in Seq(Nat)
             /\ \A i, j \in DOMAIN view[c] : i < j => view[c][i] >= view[c][j]
  BY DEF TypeOK, IterType, IInv, IterOK
<1>4. ASSUME NEW k \in DOMAIN Taken
      PROVE  Taken[k][2] \in Feed!Due(Taken[k][1])
  <2>1. /\ Taken[k][2] > start[Taken[k][1]]
        /\ Taken[k][2] <= pos[Taken[k][1]]
    BY DEF IInv, ExactlyOnce
  <2> QED
    BY <1>2, <1>3, <2>1 DEF Feed!Due
<1>5. ASSUME NEW k \in DOMAIN Taken, NEW l \in DOMAIN Taken, k < l
      PROVE  /\ Feed!Time(Taken[k]) >= Feed!Time(Taken[l])
             /\ Taken[k][1] = Taken[l][1] => Taken[k][2] < Taken[l][2]
  BY <1>5 DEF IInv, OrderOK, ExactlyOnce, Time, Feed!Time
<1>6. ASSUME NEW k \in DOMAIN Taken, NEW c \in Clusters, NEW i \in Feed!Due(c),
             ~Feed!IsSent(Taken, <<c, i>>)
      PROVE  /\ Feed!Time(Taken[k]) >= view[c][i]
             /\ Taken[k][1] = c => Taken[k][2] < i
  <2>1. i \in Nat /\ start[c] + 1 <= i /\ i <= Len(view[c])
    BY <1>3 DEF Feed!Due
  <2>2. i > pos[c]
    <3>1. SUFFICES ASSUME i <= pos[c] PROVE FALSE
      BY <1>3, <2>1
    <3>2. i \in (start[c] + 1)..pos[c]
      BY <1>3, <2>1, <3>1
    <3>3. \E l \in DOMAIN Taken : Taken[l] = <<c, i>>
      BY <3>2 DEF IInv, ExactlyOnce
    <3> QED
      BY <1>6, <3>3 DEF Feed!IsSent
  <2>3. Remaining(c)
    BY <1>3, <2>1, <2>2 DEF Remaining
  <2>4. Time(Taken[k]) >= view[c][pos[c] + 1]
    BY <2>3 DEF IInv, OrderOK
  <2>5. /\ pos[c] + 1 \in DOMAIN view[c] /\ i \in DOMAIN view[c]
        /\ view[c][pos[c] + 1] \in Nat /\ view[c][i] \in Nat
    BY <1>3, <2>1, <2>2, SMTT(30)
  <2>6. view[c][pos[c] + 1] >= view[c][i]
    <3>1. CASE i = pos[c] + 1
      BY <2>5, <3>1
    <3>2. CASE i # pos[c] + 1
      <4>1. pos[c] + 1 < i
        BY <1>3, <2>1, <2>2, <3>2
      <4> QED
        BY <1>3, <2>5, <4>1
    <3> QED
      BY <3>1, <3>2
  <2>7. Time(Taken[k]) \in Nat
    <3>1. Taken[k][2] \in DOMAIN view[Taken[k][1]]
      <4> DEFINE d == Taken[k][1]
                 j == Taken[k][2]
      <4>1. d \in Clusters /\ j \in Nat /\ j \in (start[d] + 1)..Len(view[d])
        BY <1>2, <1>4 DEF Feed!Due
      <4> HIDE DEF d, j
      <4>2. start[d] \in Nat /\ DOMAIN view[d] = 1..Len(view[d])
        BY <1>3, <4>1
      <4>3. j \in DOMAIN view[d]
        BY <1>3, <4>1, <4>2
      <4> QED
        BY <4>3 DEF d, j
    <3> QED
      BY <1>2, <1>3, <3>1 DEF Time
  <2>8. Time(Taken[k]) >= view[c][i]
    BY <2>4, <2>5, <2>6, <2>7
  <2>9. Taken[k][1] = c => Taken[k][2] < i
    <3>1. Taken[k][2] <= pos[Taken[k][1]]
      BY DEF IInv, ExactlyOnce
    <3> QED
      BY <1>2, <1>3, <2>1, <2>2, <3>1
  <2> QED
    BY <2>8, <2>9 DEF Time, Feed!Time
<1> QED
  BY <1>4, <1>5, <1>6 DEF Feed!MergePrefix

\* The status of the abstract feed.
StatusIs ==
  /\ pc = "open" => Status = "opening"
  /\ pc # "open" /\ outcome = "none" => Status = "streaming"
  /\ pc # "open" /\ outcome = "error" => Status = "failed"
  /\ pc # "open" /\ outcome = "done" =>
       Status = IF truncated THEN "truncated" ELSE "complete"

LEMMA StatusValue == TypeOK => StatusIs
BY DEF TypeOK, ControlType, Status, StatusIs

\* The steps of the opening phase show as Open.
LEMMA OpenRefines ==
  ASSUME TypeOK, TypeOK', IInv, IInv', [Next]_vars, pc = "open"
  PROVE  Feed!Open \/ UNCHANGED <<view, start, out, Status>>
<1>1. StatusIs /\ StatusIs'
  <2>1. TypeOK' => StatusIs'
    BY StatusValue, PTL
  <2> QED
    BY <2>1, StatusValue
<1>2. Status = "opening"
  BY <1>1 DEF StatusIs
<1>3. out' = out
  BY DEF Next, Producer, Reject, ReplayDone, OpenEnd, EmitMeta, PrimeEnd,
     MergeCancelled, MergeDrained, Flush, FailFlush, Finish, ClosePITs, Cancel,
     Terminated, vars, mergeVars, OpenEmpty, OpenPIT, OpenResumed, OpenFail,
     PrimeNext, FetchInline, TakePrefetched, EnsureReturn, MergeTake,
     PrefetchFetch
<1>4. CASE ReplayDone
  <2>1. /\ pc' # "open" /\ outcome' = "done" /\ opened = {}
        /\ UNCHANGED <<view, start, truncated>>
    BY <1>4 DEF ReplayDone, iterVars, mergeVars
  <2>2. ~truncated /\ \A c \in Clusters : view[c] = <<>>
    BY <2>1 DEF IInv, PhaseOK
  <2>3. Status' = "complete"
    BY <1>1, <2>1, <2>2 DEF StatusIs
  <2>4. ASSUME NEW c \in Clusters, NEW i \in Feed!Due(c)'
        PROVE  FALSE
    <3>1. start'[c] \in Nat /\ Len(view'[c]) = 0
      BY <2>1, <2>2 DEF TypeOK, IterType
    <3>2. i \in (start'[c] + 1)..Len(view'[c])
      BY <2>4 DEF Feed!Due
    <3> QED
      BY <3>1, <3>2
  <2>5. Feed!AllSent'
    BY <2>4 DEF Feed!AllSent
  <2> QED
    BY <1>2, <1>3, <2>3, <2>5 DEF Feed!Open
<1>5. CASE ~ReplayDone
  <2>1. pc' = "open" \/ outcome' \in {"none", "error"}
    <3>1. outcome # "done" /\ outcome \in {"none", "error"}
      BY DEF IInv, PhaseOK, TypeOK, ControlType
    <3> QED
      BY <1>5, <3>1 DEF Next, Producer, Reject, OpenEnd, EmitMeta, PrimeEnd,
         MergeCancelled, MergeDrained, Flush, FailFlush, Finish, ClosePITs,
         Cancel, Terminated, vars, Fail, OpenEmpty, OpenPIT, OpenResumed,
         OpenFail, PrimeNext, FetchInline, TakePrefetched, EnsureReturn,
         MergeTake, PrefetchFetch, EnsureError
  <2>2. Status' \in {"opening", "streaming", "failed"}
    BY <1>1, <2>1 DEF StatusIs
  <2> QED
    BY <1>2, <1>3, <2>2 DEF Feed!Open
<1> QED
  BY <1>4, <1>5

\* An acknowledged batch shows as Deliver.
LEMMA EmittedRefines ==
  ASSUME TypeOK, IInv, Emitted, batch # <<>>, UNCHANGED <<view, start>>,
         Status = "streaming", Status' \in {"streaming", "failed"}
  PROVE  Feed!Deliver
<1>1. /\ out \in Seq(Record) /\ batch \in Seq(Record) /\ out' = out \o batch
      /\ Len(batch) > 0 /\ Len(out) \in Nat /\ Len(batch) \in Nat
  BY DEF TypeOK, MergeType, Emitted
<1>2. Len(out') = Len(out) + Len(batch)
  BY <1>1
<1>3. SubSeq(out', 1, Len(out)) = out
  <2>1. CASE Len(out) = 0
    <3>1. out = <<>>
      BY <1>1, <2>1
    <3> QED
      BY <2>1, <3>1, SubSeqEmpty
  <2>2. CASE Len(out) # 0
    <3>1. 1 \in 1..Len(out) /\ Len(out) \in 1..Len(out)
      BY <1>1, <2>2
    <3>2. SubSeq(out \o batch, 1, Len(out)) = SubSeq(out, 1, Len(out))
      BY <1>1, <3>1, SubSeqOfConcat1
    <3> QED
      BY <1>1, <3>2, SubSeqFull
  <2> QED
    BY <2>1, <2>2
<1>4. Feed!MergePrefix(out')
  <2>1. Feed!MergePrefix(Taken) /\ out' = Taken
    BY <1>1, TakenIsMerge DEF Taken
  <2> QED
    BY <2>1
<1> QED
  BY <1>1, <1>2, <1>3, <1>4 DEF Feed!Deliver

\* Where a cluster's positions stand in its snapshot.
LEMMA PositionsOrdered ==
  ASSUME TypeOK, IInv, NEW c \in Clusters
  PROVE  /\ view[c] \in Seq(Nat) /\ Len(view[c]) \in Nat
         /\ start[c] \in Nat /\ pos[c] \in Nat
         /\ start[c] <= pos[c] /\ pos[c] <= Len(view[c])
         /\ hasHead(c) => pos[c] < Len(view[c])
<1>1. /\ view[c] \in Seq(Nat)
      /\ start[c] \in Nat /\ pos[c] \in Nat /\ applied[c] \in Nat
  BY DEF TypeOK, IterType
<1>2. Len(view[c]) \in Nat
  BY <1>1
<1>3. /\ start[c] <= pos[c] /\ pos[c] <= applied[c]
      /\ applied[c] <= Len(view[c])
  BY DEF IInv, IterOK
<1>4. hasHead(c) => pos[c] < applied[c]
  BY DEF hasHead
<1> QED
  BY <1>1, <1>2, <1>3, <1>4

\* The reported end shows as End.
LEMMA FinishRefines ==
  ASSUME TypeOK, TypeOK', IInv, Finish
  PROVE  Feed!End
<1>1. StatusIs /\ StatusIs'
  <2>1. TypeOK' => StatusIs'
    BY StatusValue, PTL
  <2> QED
    BY <2>1, StatusValue
<1>2. /\ pc = "finish" /\ outcome = "none" /\ batch = <<>>
      /\ truncated => heap # {}
      /\ ~truncated => heap = {}
  BY DEF Finish, IInv, PhaseOK
<1>3. /\ pc' = "close" /\ outcome' = "done"
      /\ UNCHANGED <<view, start, out, truncated>>
  BY DEF Finish, mergeVars, iterVars
<1>4. Status = "streaming"
  BY <1>1, <1>2 DEF StatusIs
<1>5. Status' = IF truncated THEN "truncated" ELSE "complete"
  BY <1>1, <1>3 DEF StatusIs
<1>6. Taken = out
  BY <1>2, ConcatEmptySeq DEF Taken, TypeOK, MergeType
<1>7. cur \notin Clusters
  <2>1. cur = None
    BY <1>2 DEF IInv, PhaseOK
  <2> QED
    BY <2>1
<1>8. CASE ~truncated
  <2>1. ASSUME NEW c \in Clusters, NEW i \in Feed!Due(c)
        PROVE  Feed!IsSent(out, <<c, i>>)
    <3>1. ~Remaining(c)
      BY <1>2, <1>7, <1>8 DEF IInv, HeapOK
    <3>2. pos[c] \in Nat /\ Len(view[c]) \in Nat /\ pos[c] <= Len(view[c])
      BY PositionsOrdered
    <3>3. pos[c] = Len(view[c])
      BY <3>1, <3>2 DEF Remaining
    <3>4. i \in (start[c] + 1)..pos[c]
      BY <3>3 DEF Feed!Due
    <3>5. \E k \in DOMAIN Taken : Taken[k] = <<c, i>>
      BY <3>4 DEF IInv, ExactlyOnce
    <3> QED
      BY <1>6, <3>5 DEF Feed!IsSent
  <2>2. Feed!AllSent
    BY <2>1 DEF Feed!AllSent
  <2> QED
    BY <1>3, <1>4, <1>5, <1>8, <2>2 DEF Feed!End
<1>9. CASE truncated
  <2>1. PICK c \in heap : TRUE
    BY <1>2, <1>9
  <2>2. c \in Clusters /\ hasHead(c)
    BY <1>2, <1>7, <2>1 DEF IInv, HeapOK, TypeOK, MergeType
  <2>3. /\ pos[c] \in Nat /\ start[c] \in Nat /\ Len(view[c]) \in Nat
        /\ start[c] <= pos[c] /\ pos[c] < Len(view[c])
    BY <2>2, PositionsOrdered
  <2>4. pos[c] + 1 \in Feed!Due(c)
    BY <2>3 DEF Feed!Due
  <2>5. ASSUME NEW k \in DOMAIN out, out[k] = <<c, pos[c] + 1>>
        PROVE  FALSE
    <3>1. out[k][1] = c /\ out[k][2] = pos[c] + 1
      BY <2>5
    <3>2. out[k][2] <= pos[c]
      BY <1>6, <3>1 DEF IInv, ExactlyOnce
    <3> QED
      BY <2>3, <3>1, <3>2
  <2>6. ~Feed!IsSent(out, <<c, pos[c] + 1>>)
    BY <2>5 DEF Feed!IsSent
  <2>7. ~Feed!AllSent
    BY <2>2, <2>4, <2>6 DEF Feed!AllSent
  <2> QED
    BY <1>3, <1>4, <1>5, <1>9, <2>7 DEF Feed!End
<1> QED
  BY <1>8, <1>9

\* The other steps, once the snapshots are open.
LEMMA RunRefines ==
  ASSUME TypeOK, TypeOK', IInv, IInv', [Next]_vars, pc # "open"
  PROVE  Feed!Next \/ UNCHANGED <<view, start, out, Status>>
<1>1. StatusIs /\ StatusIs'
  <2>1. TypeOK' => StatusIs'
    BY StatusValue, PTL
  <2> QED
    BY <2>1, StatusValue
<1>2. UNCHANGED <<view, start>>
  BY DEF Next, Producer, Reject, ReplayDone, OpenEnd, EmitMeta, PrimeEnd,
     MergeCancelled, MergeDrained, Flush, FailFlush, Finish, ClosePITs, Cancel,
     Terminated, vars, iterVars, OpenEmpty, OpenPIT, OpenResumed, OpenFail,
     PrimeNext, FetchInline, TakePrefetched, EnsureReturn, MergeTake,
     PrefetchFetch
<1>3. pc' # "open"
  BY DEF Next, Producer, Reject, ReplayDone, OpenEnd, EmitMeta, PrimeEnd,
     MergeCancelled, MergeDrained, Flush, FailFlush, Finish, ClosePITs, Cancel,
     Terminated, vars, Fail, OpenEmpty, OpenPIT, OpenResumed, OpenFail,
     PrimeNext, FetchInline, TakePrefetched, EnsureReturn, MergeTake,
     PrefetchFetch, EnsureError
<1>4. CASE Finish
  BY <1>4, FinishRefines DEF Feed!Next
<1>5. CASE Flush \/ FailFlush
  <2>1. outcome = "none" /\ Status = "streaming"
    BY <1>1, <1>5 DEF Flush, FailFlush, IInv, PhaseOK, StatusIs
  <2>2. outcome' \in {"none", "error"}
    BY <1>5, <2>1 DEF Flush, FailFlush, Fail
  <2>3. Status' \in {"streaming", "failed"}
    BY <1>1, <1>3, <2>2 DEF StatusIs
  <2>4. CASE Emitted /\ batch # <<>>
    BY <1>2, <2>1, <2>3, <2>4, EmittedRefines DEF Feed!Next
  <2>5. CASE out' = out
    BY <1>2, <2>1, <2>3, <2>5 DEF Feed!Next, Feed!End
  <2>6. Emitted /\ batch = <<>> => out' = out
    BY ConcatEmptySeq DEF Emitted, TypeOK, MergeType
  <2> QED
    BY <1>5, <2>4, <2>5, <2>6 DEF Flush, FailFlush
<1>6. CASE ~(Finish \/ Flush \/ FailFlush)
  <2>1. UNCHANGED <<out, truncated>>
    BY <1>6 DEF Next, Producer, Reject, ReplayDone, OpenEnd, EmitMeta, PrimeEnd,
       MergeCancelled, MergeDrained, ClosePITs, Cancel,
       Terminated, vars, mergeVars, OpenEmpty, OpenPIT, OpenResumed, OpenFail,
       PrimeNext, FetchInline, TakePrefetched, EnsureReturn, MergeTake,
       PrefetchFetch
  <2>2. outcome' = outcome \/ (outcome' = "error" /\ pc \notin {"close", "closed"})
    <3>1. \A c \in Clusters : cur = c => pc \notin {"close", "closed"}
      BY DEF IInv, PhaseOK
    <3> QED
      BY <1>6, <3>1 DEF Next, Producer, Reject, ReplayDone, OpenEnd, EmitMeta,
         PrimeEnd, MergeCancelled, MergeDrained, ClosePITs, Cancel, Terminated,
         vars, Fail, OpenEmpty, OpenPIT, OpenResumed, OpenFail, PrimeNext,
         FetchInline, TakePrefetched, EnsureReturn, MergeTake, PrefetchFetch,
         EnsureError
  <2>3. CASE outcome' = outcome
    <3>1. Status' = Status
      BY <1>1, <1>3, <2>1, <2>3 DEF StatusIs, TypeOK, ControlType
    <3> QED
      BY <1>2, <2>1, <3>1
  <2>4. CASE outcome' = "error" /\ pc \notin {"close", "closed"}
    <3>1. outcome = "none"
      BY <2>4 DEF IInv, PhaseOK
    <3>2. Status = "streaming" /\ Status' = "failed"
      BY <1>1, <1>3, <2>4, <3>1 DEF StatusIs
    <3> QED
      BY <1>2, <2>1, <3>2 DEF Feed!Next, Feed!End
  <2> QED
    BY <2>2, <2>3, <2>4
<1> QED
  BY <1>4, <1>5, <1>6

\* StreamRaw implements MergedFeed: with pages, buffers, heap and prefetches
\* hidden, what is acknowledged only grows, is at all times a prefix of a
\* merge of the snapshots, and the end is reported truthfully.
THEOREM StreamRefinesFeed == Spec => RefinesFeed
<1>1. Init => Feed!Init
  BY DEF Init, Feed!Init, Status
<1>2. TypeOK /\ IInv /\ TypeOK' /\ IInv' /\ [Next]_vars
        => [Feed!Next]_(Feed!vars)
  BY OpenRefines, RunRefines DEF Feed!Next, Feed!vars
<1> QED
  BY <1>1, <1>2, Invariant, PTL DEF Spec, RefinesFeed, Feed!Spec

-----------------------------------------------------------------------------
(* No step is spent in vain.                                               *)

LEMMA BatchStep ==
  ASSUME TypeOK, IInv, BatchOK, [Next]_vars
  PROVE  BatchOK'
<1> USE DEF BatchOK, iterVars
<1>1. CASE \/ Reject \/ ReplayDone \/ OpenEnd \/ EmitMeta \/ PrimeEnd
           \/ MergeCancelled \/ Finish \/ ClosePITs \/ Cancel
  BY <1>1 DEF Reject, ReplayDone, OpenEnd, EmitMeta, PrimeEnd, MergeCancelled,
              Finish, ClosePITs, Cancel, Fail, mergeVars
<1>2. CASE MergeDrained
  BY <1>2 DEF MergeDrained, mergeVars
<1>3. CASE Flush
  <2>1. pc' # "flush" /\ cur' = None
    BY <1>3 DEF Flush, Fail, IInv, PhaseOK
  <2> QED
    BY <2>1
<1>4. CASE FailFlush
  BY <1>4 DEF FailFlush, Fail
<1>5. ASSUME NEW c \in Clusters,
             \/ OpenEmpty(c) \/ OpenPIT(c) \/ OpenResumed(c) \/ OpenFail(c)
             \/ PrimeNext(c) \/ PrefetchFetch(c)
      PROVE  BatchOK'
  BY <1>5 DEF OpenEmpty, OpenPIT, OpenResumed, OpenFail, PrimeNext,
              PrefetchFetch, mergeVars
<1>6. ASSUME NEW c \in Clusters, FetchInline(c) \/ TakePrefetched(c)
      PROVE  BatchOK'
  BY <1>6 DEF FetchInline, TakePrefetched, EnsureError
<1>7. ASSUME NEW c \in Clusters, EnsureReturn(c)
      PROVE  BatchOK'
  <2>1. cur = c /\ c # None /\ pc \in {"prime", "merge"}
    BY <1>7 DEF EnsureReturn, IInv, PhaseOK
  <2> QED
    BY <1>7, <2>1 DEF EnsureReturn
<1>8. ASSUME NEW c \in Clusters, MergeTake(c)
      PROVE  BatchOK'
  <2>1. batch \in Seq(Record) /\ <<c, pos[c] + 1>> \in Record
    BY NextRecord DEF TypeOK, MergeType
  <2>2. batch' # <<>>
    BY <1>8, <2>1 DEF MergeTake
  <2> QED
    BY <2>2
<1>9. CASE UNCHANGED vars
  BY <1>9 DEF vars, mergeVars
<1>10. CASE Terminated
  BY <1>10, <1>9 DEF Terminated
<1> QED
  BY <1>1, <1>2, <1>3, <1>4, <1>5, <1>6, <1>7, <1>8, <1>9, <1>10
     DEF Next, Producer

\* A step that keeps what has been gained, but for one gain or turn.
LEMMA SameGains ==
  ASSUME TypeOK, UNCHANGED <<primed, exhausted, pos, applied, out>>
  PROVE  /\ primed \subseteq primed' /\ exhausted \subseteq exhausted'
         /\ \A c \in Clusters : pos[c] <= pos'[c] /\ applied[c] <= applied'[c]
         /\ Len(out) <= Len(out')
<1>1. /\ pos \in [Clusters -> Nat] /\ applied \in [Clusters -> Nat]
      /\ out \in Seq(Record)
  BY DEF TypeOK, IterType, MergeType
<1>2. \A c \in Clusters : pos[c] <= pos'[c] /\ applied[c] <= applied'[c]
  BY <1>1
<1>3. Len(out) <= Len(out')
  BY <1>1
<1> QED
  BY <1>2, <1>3

\* A page moves the iterator on, or shows that there is none to come.
LEMMA PageProgress ==
  ASSUME TypeOK, IInv, NEW c \in Clusters, c \notin exhausted,
         ApplyPage(c, applied[c])
  PROVE  /\ \A d \in Clusters : pos[d] <= pos'[d] /\ applied[d] <= applied'[d]
         /\ exhausted \subseteq exhausted'
         /\ <<exhausted', applied'>> # <<exhausted, applied>>
<1> USE DEF TypeOK, IterType
<1> DEFINE end == PageEnd(c, applied[c])
<1>1. /\ pos[c] \in Nat /\ applied[c] \in Nat /\ Len(view[c]) \in Nat
      /\ pos[c] <= applied[c] /\ applied[c] <= Len(view[c])
  BY DEF IInv, IterOK
<1>2. end \in Nat /\ applied[c] <= end
  BY <1>1, SMTT(60) DEF PageEnd
<1>3. \A d \in Clusters : pos[d] <= pos'[d] /\ applied[d] <= applied'[d]
  <2> SUFFICES ASSUME NEW d \in Clusters
               PROVE  pos[d] <= pos'[d] /\ applied[d] <= applied'[d]
    OBVIOUS
  <2>1. /\ pos'[d] = IF d = c THEN applied[c] ELSE pos[d]
        /\ applied'[d] = IF d = c THEN end ELSE applied[d]
    BY DEF ApplyPage
  <2> QED
    BY <1>1, <1>2, <2>1, SMTT(60)
<1>4. exhausted \subseteq exhausted'
  BY DEF ApplyPage
<1>5. <<exhausted', applied'>> # <<exhausted, applied>>
  <2>1. CASE end = applied[c]
    <3>1. end - applied[c] < PageSize
      BY <1>1, <2>1
    <3> QED
      BY <3>1 DEF ApplyPage
  <2>2. CASE end # applied[c]
    <3>1. applied'[c] = end
      BY DEF ApplyPage
    <3> QED
      BY <2>2, <3>1
  <2> QED
    BY <2>1, <2>2
<1> QED
  BY <1>3, <1>4, <1>5

\* The phases in their order.
LEMMA LaterPhase ==
  /\ pc = "open" /\ pc' \in {"meta", "close"} => Forward
  /\ pc = "meta" /\ pc' \in {"prime", "close"} => Forward
  /\ pc = "prime" /\ pc' \in {"merge", "close"} => Forward
  /\ pc \in {"merge", "flush"} /\ pc' \in {"finish", "failflush", "close"} =>
       Forward
  /\ pc \in {"finish", "failflush"} /\ pc' = "close" => Forward
  /\ pc = "close" /\ pc' = "closed" => Forward
<1>1. /\ pc = "open" => Phase = 0
      /\ pc = "meta" => Phase = 1
      /\ pc = "prime" => Phase = 2
      /\ pc \in {"merge", "flush"} => Phase = 3
      /\ pc \in {"failflush", "finish"} => Phase = 4
      /\ pc = "close" => Phase = 5
  BY DEF Phase
<1>2. /\ pc' = "meta" => Phase' = 1
      /\ pc' = "prime" => Phase' = 2
      /\ pc' \in {"merge", "flush"} => Phase' = 3
      /\ pc' \in {"failflush", "finish"} => Phase' = 4
      /\ pc' = "close" => Phase' = 5
      /\ pc' = "closed" => Phase' = 6
  BY DEF Phase
<1>3. Phase' > Phase => Forward
  BY DEF Forward
<1> QED
  BY <1>1, <1>2, <1>3

LEMMA ForwardStep ==
  ASSUME TypeOK, IInv, BatchOK, [Next]_vars
  PROVE  Forward \/ UNCHANGED vars
<1> USE DEF TypeOK, ControlType, Forward, NothingBack, Gains
<1>1. CASE \/ Reject \/ ReplayDone \/ OpenEnd \/ EmitMeta \/ PrimeEnd
           \/ MergeCancelled \/ Finish \/ FailFlush \/ ClosePITs
  <2>1. Forward
    <3> HIDE DEF Forward
    <3> QED
      BY <1>1, LaterPhase
         DEF Reject, ReplayDone, OpenEnd, EmitMeta, PrimeEnd, MergeCancelled,
             Finish, FailFlush, ClosePITs, Fail
  <2> QED
    BY <2>1
<1>2. CASE MergeDrained
  <2>1. CASE batch = <<>>
    <3> HIDE DEF Forward
    <3> QED
      BY <1>2, <2>1, LaterPhase DEF MergeDrained
  <2>2. CASE batch # <<>>
    <3>1. pc = "merge" /\ pc' = "flush" /\ cur = None
          /\ UNCHANGED <<opened, ctx, primed, exhausted, pos, applied, out>>
      BY <1>2, <2>2 DEF MergeDrained, mergeVars, iterVars
    <3> QED
      BY <3>1, SameGains DEF Turn, Phase
  <2> QED
    BY <2>1, <2>2
<1>3. CASE Flush
  <2>1. CASE Fail
    <3> HIDE DEF Forward
    <3> QED
      BY <1>3, <2>1, LaterPhase DEF Flush, Fail
  <2>2. CASE Emitted
    <3>1. Len(out') \in Nat /\ Len(out) \in Nat /\ Len(out') > Len(out)
      <4>1. out \in Seq(Record) /\ batch \in Seq(Record) /\ batch # <<>>
        BY <1>3 DEF MergeType, Flush, BatchOK
      <4>2. Len(out \o batch) = Len(out) + Len(batch) /\ Len(batch) > 0
            /\ Len(out) \in Nat /\ Len(batch) \in Nat
        BY <4>1
      <4> QED
        BY <2>2, <4>2 DEF Emitted
    <3>2. UNCHANGED <<opened, ctx, primed, exhausted, pos, applied>>
          /\ pc = "flush" /\ pc' \in {"finish", "merge", "close"}
      BY <1>3 DEF Flush, Fail, iterVars
    <3>3. \A c \in Clusters : pos[c] <= pos'[c] /\ applied[c] <= applied'[c]
      BY <3>2 DEF IterType
    <3>4. Gains' # Gains
      BY <3>1
    <3> QED
      BY <3>1, <3>2, <3>3, <3>4 DEF Phase
  <2> QED
    BY <1>3, <2>1, <2>2 DEF Flush
<1>4. CASE Cancel
  BY <1>4, SameGains DEF Cancel, mergeVars, iterVars, Phase
<1>5. ASSUME NEW c \in Clusters, OpenPIT(c) \/ OpenFail(c) \/ OpenEmpty(c)
      PROVE  Forward
  <2>1. /\ opened' = opened \cup {c} /\ c \notin opened
        /\ UNCHANGED <<pc, ctx, primed, pos, applied, out>>
        /\ exhausted \subseteq exhausted'
    BY <1>5 DEF OpenPIT, OpenFail, OpenEmpty, mergeVars, iterVars
  <2>2. \A d \in Clusters : pos[d] <= pos'[d] /\ applied[d] <= applied'[d]
    BY <2>1, SMTT(30) DEF IterType
  <2>3. Len(out) <= Len(out') /\ Gains' # Gains
    BY <2>1 DEF MergeType
  <2> QED
    BY <2>1, <2>2, <2>3 DEF Phase
<1>6. ASSUME NEW c \in Clusters, OpenResumed(c)
      PROVE  Forward
  <2>1. /\ opened' = opened \cup {c} /\ c \notin opened
        /\ UNCHANGED <<pc, ctx, primed, exhausted, out>>
    BY <1>6 DEF OpenResumed, mergeVars
  <2>2. pos[c] = 0 /\ applied[c] = 0
    <3>1. pc = "open" /\ c \notin opened /\ view[c] = <<>>
      BY <1>6 DEF OpenResumed, IInv, PhaseOK
    <3>2. pos[c] \in Nat /\ applied[c] \in Nat /\ pos[c] <= applied[c]
          /\ applied[c] <= 0
      BY <3>1 DEF IterType, IInv, IterOK
    <3> QED
      BY <3>2
  <2>3. \A d \in Clusters : pos[d] <= pos'[d] /\ applied[d] <= applied'[d]
    <3>1. PICK v \in Views : \E q \in DOMAIN v :
            /\ pos' = [pos EXCEPT ![c] = q] /\ applied' = [applied EXCEPT ![c] = q]
      BY <1>6, Zenon DEF OpenResumed
    <3>2. PICK q \in DOMAIN v :
            /\ pos' = [pos EXCEPT ![c] = q] /\ applied' = [applied EXCEPT ![c] = q]
      BY <3>1
    <3>3. q \in Nat
      BY ViewsAssumption
    <3> QED
      BY <2>2, <3>2, <3>3, SMTT(30) DEF IterType
  <2>4. Len(out) <= Len(out') /\ Gains' # Gains
    BY <2>1 DEF MergeType
  <2> QED
    BY <2>1, <2>3, <2>4 DEF Phase
<1>7. ASSUME NEW c \in Clusters, PrimeNext(c)
      PROVE  Forward
  <2>1. /\ pc = "prime" /\ cur = None /\ cur' \notin primed \cup {None}
        /\ UNCHANGED <<pc, opened, ctx, primed, exhausted, pos, applied, out>>
    BY <1>7 DEF PrimeNext, iterVars
  <2> QED
    BY <2>1, SameGains DEF Turn, Phase
<1>8. ASSUME NEW c \in Clusters, FetchInline(c) \/ TakePrefetched(c)
      PROVE  Forward
  <2>1. cur = c /\ c # None /\ pc \in {"prime", "merge"}
    BY <1>8 DEF FetchInline, TakePrefetched, IInv, PhaseOK
  <2>2. CASE EnsureError
    <3> HIDE DEF Forward
    <3> QED
      BY <2>1, <2>2, LaterPhase DEF EnsureError
  <2>3. CASE ~EnsureError
    <3>1. /\ c \notin exhausted
          /\ ApplyPage(c, applied[c])
          /\ UNCHANGED <<pc, opened, ctx, primed, out>>
      BY <1>8, <2>3 DEF FetchInline, TakePrefetched, IInv, PrefetchFresh
    <3>2. /\ \A d \in Clusters : pos[d] <= pos'[d] /\ applied[d] <= applied'[d]
          /\ exhausted \subseteq exhausted'
          /\ <<exhausted', applied'>> # <<exhausted, applied>>
      BY <3>1, PageProgress
    <3>3. Gains' # Gains /\ Len(out) <= Len(out')
      BY <3>1, <3>2 DEF MergeType
    <3> QED
      BY <3>1, <3>2, <3>3 DEF Phase
  <2> QED
    BY <2>2, <2>3
<1>9. ASSUME NEW c \in Clusters, EnsureReturn(c)
      PROVE  Forward
  <2>1. /\ cur = c /\ c # None /\ pc \in {"prime", "merge"} /\ cur' = None
        /\ UNCHANGED <<opened, ctx, exhausted, pos, applied, out>>
    BY <1>9 DEF EnsureReturn, IInv, PhaseOK, iterVars
  <2>2. /\ \A d \in Clusters : pos[d] <= pos'[d] /\ applied[d] <= applied'[d]
        /\ Len(out) <= Len(out')
    <3>1. \A d \in Clusters : pos[d] <= pos'[d] /\ applied[d] <= applied'[d]
      BY <2>1, SMTT(30) DEF IterType
    <3>2. Len(out) <= Len(out')
      BY <2>1 DEF MergeType
    <3> QED
      BY <3>1, <3>2
  <2>3. CASE pc = "prime"
    <3>1. primed' = primed \cup {c} /\ c \notin primed /\ UNCHANGED pc
      BY <1>9, <2>1, <2>3 DEF EnsureReturn, IInv, HeapOK
    <3>2. Gains' # Gains
      BY <3>1
    <3> QED
      BY <2>1, <2>2, <3>1, <3>2 DEF Phase
  <2>4. CASE pc = "merge"
    <3>1. UNCHANGED primed /\ pc' \in {"merge", "flush"}
      BY <1>9, <2>4 DEF EnsureReturn
    <3>2. Turn
      BY <2>1, <2>4 DEF Turn
    <3> QED
      BY <2>1, <2>2, <2>4, <3>1, <3>2 DEF Phase
  <2> QED
    BY <2>1, <2>3, <2>4
<1>10. ASSUME NEW c \in Clusters, MergeTake(c)
      PROVE  Forward
  <2>1. /\ pos' = [pos EXCEPT ![c] = @ + 1]
        /\ UNCHANGED <<pc, opened, ctx, primed, exhausted, applied, out>>
    BY <1>10 DEF MergeTake
  <2>2. pos[c] \in Nat /\ pos'[c] = pos[c] + 1
    BY <2>1 DEF IterType
  <2>3. \A d \in Clusters : pos[d] <= pos'[d] /\ applied[d] <= applied'[d]
    BY <2>1, SMTT(60) DEF IterType
  <2>4. Gains' # Gains /\ Len(out) <= Len(out')
    BY <2>1, <2>2 DEF MergeType
  <2> QED
    BY <2>1, <2>3, <2>4 DEF Phase
<1>11. ASSUME NEW c \in Clusters, PrefetchFetch(c)
      PROVE  Forward
  <2>1. /\ prefetch[c] = "running" /\ prefetch'[c] # "running"
        /\ UNCHANGED <<pc, opened, ctx, primed, exhausted, pos, applied, out>>
    BY <1>11 DEF PrefetchFetch, mergeVars, IterType
  <2>2. Turn
    BY <2>1 DEF Turn
  <2> QED
    BY <2>1, <2>2, SameGains DEF Phase
<1>12. CASE Terminated \/ UNCHANGED vars
  BY <1>12 DEF Terminated
<1> QED
  BY <1>1, <1>2, <1>3, <1>4, <1>5, <1>6, <1>7, <1>8, <1>9, <1>10, <1>11, <1>12
     DEF Next, Producer

\* Every step of a stream, of its goroutines too, is one on the way to its
\* end, for any clusters, snapshots, page size and limit: no page is fetched
\* again, and an empty one ends its snapshot (applyPITPage, the merge loop).
\* The snapshots being finite, Terminates then needs no more than fairness.
THEOREM AlwaysProgress == Spec => Progress
<1>1. Init => BatchOK
  BY DEF Init, BatchOK
<1>2. TypeOK /\ IInv /\ BatchOK /\ [Next]_vars => BatchOK'
  BY BatchStep
<1>3. TypeOK /\ IInv /\ BatchOK /\ [Next]_vars => [Forward]_vars
  BY ForwardStep
<1> QED
  BY <1>1, <1>2, <1>3, Invariant, PTL DEF Spec, Progress
=============================================================================
