--------------------------- MODULE RawResume_proofs ----------------------------
(***************************************************************************)
(* Proofs about RawResume, for any number of connections, records and      *)
(* restarts, any page size and any clock.                                  *)
(***************************************************************************)
EXTENDS RawResume, SequenceTheorems, TLAPS

\* A connection is a number, and 0 is none of them.
LEMMA ConnNumbers == \A i \in Conns : i \in Nat /\ i # 0
BY BoundsAssumption DEF Conns

-----------------------------------------------------------------------------
(* Type correctness.                                                       *)

\* A page ends where its snapshot ends or a page size further on.
LEMMA PageEndBounds ==
  ASSUME TypeOK, NEW i \in Conns, snap[i] \in Conns, after[i] <= total[snap[i]]
  PROVE  /\ PageEnd(i) \in Nat
         /\ after[i] <= PageEnd(i) /\ PageEnd(i) <= total[snap[i]]
         /\ PageEnd(i) - after[i] < PageSize => PageEnd(i) = total[snap[i]]
         /\ PageEnd(i) = after[i] => PageEnd(i) - after[i] < PageSize
<1>1. after[i] \in Nat /\ total[snap[i]] \in Nat
  BY DEF TypeOK
<1>2. PageSize \in Nat /\ PageSize # 0
  BY BoundsAssumption
<1> DEFINE e == PageEnd(i)
<1>3. e = IF after[i] + PageSize <= total[snap[i]] THEN after[i] + PageSize
                                                 ELSE total[snap[i]]
  BY DEF PageEnd, Lesser
<1> HIDE DEF e
<1>4. /\ e \in Nat /\ after[i] <= e /\ e <= total[snap[i]]
      /\ e - after[i] < PageSize => e = total[snap[i]]
      /\ e = after[i] => e - after[i] < PageSize
  BY <1>1, <1>2, <1>3
<1> QED
  BY <1>4 DEF e

\* A running connection reads a snapshot, within its bounds.
LEMMA RunningFacts ==
  ASSUME IInv, NEW i \in Conns, Running(i)
  PROVE  /\ snap[i] \in Conns /\ pit[snap[i]] # "none"
         /\ PositionsOK(i) /\ StageOK(i)
         /\ after[i] <= total[snap[i]]
BY DEF IInv, TypeOK, SnapshotsOK, ConnectionsOK, ConnectionOK, PositionsOK

\* The batch is a sequence of records, those that follow LastAcked.
LEMMA BatchFacts ==
  ASSUME TypeOK, NEW i \in Conns, LastAcked(i) < taken[i]
  PROVE  /\ BatchOf(i) \in Seq(Nat)
         /\ Len(BatchOf(i)) = taken[i] - LastAcked(i)
         /\ \A k \in DOMAIN BatchOf(i) : BatchOf(i)[k] = LastAcked(i) + k
<1>1. LastAcked(i) \in Nat /\ taken[i] \in Nat
  BY DEF TypeOK, LastAcked
<1>2. taken[i] - LastAcked(i) \in Nat
  BY <1>1
<1>3. \A k \in 1..(taken[i] - LastAcked(i)) : LastAcked(i) + k \in Nat
  BY <1>1
<1> DEFINE n == taken[i] - LastAcked(i)
           b == [k \in 1..n |-> LastAcked(i) + k]
<1>4. n \in Nat /\ \A k \in 1..n : LastAcked(i) + k \in Nat
  BY <1>2, <1>3
<1>5. b \in Seq(Nat) /\ Len(b) = n /\ DOMAIN b = 1..n
  <2> HIDE DEF n
  <2> QED
    BY <1>4
<1>6. BatchOf(i) = b
  BY DEF BatchOf
<1> QED
  BY <1>5, <1>6

\* A lease, and where a batch may end.
LEMMA Numbers ==
  ASSUME TypeOK, NEW i \in Conns
  PROVE  /\ now + KeepAlive \in Nat
         /\ Lesser(after[i], base[i] + MaxRecords) \in Nat
BY BoundsAssumption DEF TypeOK, Lesser

\* Every cursor that is issued is one.
LEMMA CursorType ==
  ASSUME TypeOK, NEW i \in Conns, NEW done \in BOOLEAN
  PROVE  Cursor(i, done) \in Cursors
<1>1. Key \in Nat
  BY DEF Key, TypeOK
<1>2. snap[i] \in Nat /\ taken[i] \in Nat /\ lease[i] \in Nat
  BY DEF TypeOK
<1> QED
  BY <1>1, <1>2 DEF Cursor, Cursors

LEMMA InitType == Init => TypeOK
BY DEF Init, TypeOK, NoCursor, Cursors

LEMMA ConnectType ==
  ASSUME IInv, NEW i \in Conns,
         \/ ConnectFresh(i) \/ ConnectOpenLost(i) \/ ConnectResumed(i)
         \/ ConnectReplay(i) \/ ConnectExpired(i) \/ ConnectRejected(i)
  PROVE  TypeOK'
<1> USE DEF IInv, TypeOK, Goto, processVars, serverVars, esVars
<1>0. i \in Nat
  BY ConnNumbers
<1>1. CASE ConnectFresh(i) \/ ConnectOpenLost(i)
  <2>1. now + KeepAlive \in Nat
    BY Numbers
  <2>2. PICK n \in Totals : total' = [total EXCEPT ![i] = n]
    BY <1>1 DEF ConnectFresh, ConnectOpenLost, Opened
  <2>3. n \in Nat
    BY BoundsAssumption
  <2>4. total' \in [Conns -> Nat]
    BY <2>2, <2>3
  <2>5. keptUntil' \in [Conns -> Nat]
    BY <1>1, <2>1, ZenonT(60) DEF ConnectFresh, ConnectOpenLost, Opened
  <2>6. pit' \in [Conns -> {"none", "open", "closed"}]
    BY <1>1 DEF ConnectFresh, ConnectOpenLost, Opened
  <2>7. lease' \in [Conns -> Nat]
    BY <1>1, <2>1, SMTT(60) DEF ConnectFresh, ConnectOpenLost
  <2>8. snap' \in [Conns -> Nat]
    BY <1>0, <1>1 DEF ConnectFresh, ConnectOpenLost
  <2>9. link' \in Nat
    BY <1>0, <1>1 DEF ConnectFresh, ConnectOpenLost
  <2>10. stage' \in [Conns -> {"unused", "meta", "first", "take", "next",
                               "emit", "flush", "finish", "close", "closed"}]
    BY <1>1 DEF ConnectFresh, ConnectOpenLost
  <2> QED
    BY <1>1, <2>4, <2>5, <2>6, <2>7, <2>8, <2>9, <2>10
    DEF ConnectFresh, ConnectOpenLost, Opened
<1>3. CASE ConnectResumed(i)
  <2>1. lastId.pit \in Conns /\ lastId.after \in Nat /\ lastId.expires \in Nat
    BY <1>3 DEF ConnectResumed, CursorOK, Cursors
  <2>2. lastId.pit \in Nat
    BY <2>1, ConnNumbers
  <2>3. base' \in [Conns -> Nat] /\ after' \in [Conns -> Nat]
    BY <1>3, <2>1 DEF ConnectResumed
  <2>4. lease' \in [Conns -> Nat] /\ snap' \in [Conns -> Nat]
    BY <1>3, <2>1, <2>2 DEF ConnectResumed
  <2>5. link' \in Nat
    BY <1>0, <1>3 DEF ConnectResumed
  <2>6. stage' \in [Conns -> {"unused", "meta", "first", "take", "next",
                              "emit", "flush", "finish", "close", "closed"}]
    BY <1>3 DEF ConnectResumed
  <2> QED
    BY <1>3, <2>3, <2>4, <2>5, <2>6 DEF ConnectResumed
<1>4. CASE ConnectReplay(i) \/ ConnectExpired(i) \/ ConnectRejected(i)
  BY <1>4 DEF ConnectReplay, ConnectExpired, ConnectRejected, Answered
<1> QED
  BY <1>1, <1>3, <1>4

LEMMA ReadType ==
  ASSUME IInv, NEW i \in Conns,
         \/ EmitMeta(i) \/ FirstPage(i) \/ Prefetch(i) \/ Take(i) \/ NextPage(i)
  PROVE  TypeOK'
<1> USE DEF TypeOK, Goto, processVars, serverVars, esVars, clientVars
<1>1. TypeOK
  BY DEF IInv
<1>2. Running(i)
  BY DEF Running, Active, EmitMeta, FirstPage, Prefetch, Take, NextPage
<1>3. PageEnd(i) \in Nat
  BY <1>1, <1>2, RunningFacts, PageEndBounds
<1>9. now + KeepAlive \in Nat /\ Lesser(after[i], base[i] + MaxRecords) \in Nat
  BY <1>1, Numbers
<1>10. (PageEnd(i) - after[i] < PageSize) \in BOOLEAN
  OBVIOUS
<1>4. CASE EmitMeta(i)
  BY <1>1, <1>4 DEF EmitMeta
<1>5. CASE FirstPage(i)
  <2>1. link' \in Nat
    <3>1. link' = link \/ link' = 0
      BY <1>5, Zenon DEF FirstPage, Fails
    <3> QED
      BY <1>1, <3>1
  <2>2. client' \in {"following", "complete", "expired", "rejected"}
    <3>1. client' = client \/ client' = "expired"
      BY <1>5, Zenon DEF FirstPage, Fails
    <3> QED
      BY <1>1, <3>1
  <2>3. after' \in [Conns -> Nat]
    BY <1>1, <1>3, <1>5, ZenonT(60) DEF FirstPage, ApplyPage
  <2>4. short' \in [Conns -> BOOLEAN]
    BY <1>1, <1>5, <1>10, Zenon DEF FirstPage, ApplyPage
  <2>5. lease' \in [Conns -> Nat]
    BY <1>1, <1>5, <1>9 DEF FirstPage, ApplyPage
  <2>6. keptUntil' \in [Conns -> Nat]
    BY <1>1, <1>5, <1>9 DEF FirstPage, Extend
  <2>7. stage' \in [Conns -> {"unused", "meta", "first", "take", "next", "emit",
                              "flush", "finish", "close", "closed"}]
    BY <1>1, <1>5 DEF FirstPage
  <2> QED
    BY <1>1, <1>5, <2>1, <2>2, <2>3, <2>4, <2>5, <2>6, <2>7 DEF FirstPage
<1>6. CASE Prefetch(i)
  <2>1. fetched' \in [Conns -> {"none", "page", "gone", "failed"}]
    BY <1>1, <1>6 DEF Prefetch
  <2>2. keptUntil' \in [Conns -> Nat]
    BY <1>1, <1>6, <1>9 DEF Prefetch, Extend
  <2> QED
    BY <1>1, <1>6, <2>1, <2>2 DEF Prefetch
<1>7. CASE Take(i)
  BY <1>1, <1>7, <1>9 DEF Take
<1>8. CASE NextPage(i)
  <2>1. after' \in [Conns -> Nat]
    <3>1. after' = after \/ after' = [after EXCEPT ![i] = PageEnd(i)]
      BY <1>8, Zenon DEF NextPage, ApplyPage
    <3> QED
      BY <1>1, <1>3, <3>1
  <2>2. short' \in [Conns -> BOOLEAN]
    BY <1>1, <1>8, <1>10, Zenon DEF NextPage, ApplyPage
  <2>3. lease' \in [Conns -> Nat]
    BY <1>1, <1>8, <1>9 DEF NextPage, ApplyPage
  <2>4. fetched' \in [Conns -> {"none", "page", "gone", "failed"}]
    BY <1>1, <1>8, SMTT(60) DEF NextPage
  <2>5. stage' \in [Conns -> {"unused", "meta", "first", "take", "next", "emit",
                              "flush", "finish", "close", "closed"}]
    <3>1. \/ stage' = [stage EXCEPT ![i] = "emit"]
          \/ stage' = [stage EXCEPT ![i] = "flush"]
      BY <1>8, Zenon DEF NextPage
    <3> QED
      BY <1>1, <3>1
  <2>6. UNCHANGED <<now, processVars, snap, base, taken, acked, esVars,
                    clientVars>>
    BY <1>8, Zenon DEF NextPage
  <2> QED
    BY <1>1, <2>1, <2>2, <2>3, <2>4, <2>5, <2>6
<1> QED
  BY <1>4, <1>5, <1>6, <1>7, <1>8

LEMMA EmitType ==
  ASSUME IInv, NEW i \in Conns,
         \/ Emit(i) \/ EmitThenFail(i) \/ Finish(i) \/ Fail(i) \/ ClosePIT(i)
  PROVE  TypeOK'
<1> USE DEF TypeOK, Goto, processVars, serverVars, esVars, clientVars
<1>1. TypeOK
  BY DEF IInv
<1>2. CASE Emit(i) \/ EmitThenFail(i)
  <2>1. Running(i) /\ stage[i] \in {"emit", "flush"}
    BY <1>2 DEF Running, Active, Emit, EmitThenFail
  <2>2. LastAcked(i) < taken[i]
    BY <2>1, RunningFacts DEF StageOK
  <2>3. BatchOf(i) \in Seq(Nat)
    BY <1>1, <2>2, BatchFacts
  <2>6. Cursor(i, FALSE) \in Cursors
    BY <1>1, CursorType
  <2>7. log \in Seq(Nat)
    BY <1>1
  <2>8. log \o BatchOf(i) \in Seq(Nat)
    BY <2>3, <2>7
  <2>4. log \o BatchOf(i) \in Seq(Nat) /\ Cursor(i, FALSE) \in Cursors
    BY <2>6, <2>8
  <2>5. /\ acked' \in [Conns -> Nat]
        /\ lastId' \in Cursors /\ log' \in Seq(Nat)
    BY <1>1, <1>2, <2>4, ZenonT(60) DEF Emit, EmitThenFail, Deliver
  <2>9. link' \in Nat
    <3>1. link' = link \/ link' = 0
      BY <1>2, Zenon DEF Emit, EmitThenFail, Fails
    <3> QED
      BY <1>1, <3>1
  <2>10. client' \in {"following", "complete", "expired", "rejected"}
    <3>1. client' = client \/ client' = "expired"
      BY <1>2, Zenon DEF Emit, EmitThenFail, Fails
    <3> QED
      BY <1>1, <3>1
  <2>11. stage' \in [Conns -> {"unused", "meta", "first", "take", "next",
                               "emit", "flush", "finish", "close", "closed"}]
    BY <1>1, <1>2 DEF Emit, EmitThenFail
  <2> QED
    BY <1>1, <1>2, <2>5, <2>9, <2>10, <2>11 DEF Emit, EmitThenFail
<1>3. CASE Finish(i)
  <2>1. Cursor(i, Drained(i)) \in Cursors
    BY <1>1, CursorType DEF Drained
  <2> QED
    BY <1>1, <1>3, <2>1, SMTT(60) DEF Finish
<1>4. CASE Fail(i)
  BY <1>1, <1>4 DEF Fail, Fails
<1>5. CASE ClosePIT(i)
  BY <1>1, <1>5 DEF ClosePIT, Return
<1> QED
  BY <1>2, <1>3, <1>4, <1>5

LEMMA AroundType ==
  ASSUME IInv,
         Drop \/ Tick \/ Exit \/ Start \/ Stopped \/ UNCHANGED vars
  PROVE  TypeOK'
<1> USE DEF IInv, TypeOK, processVars, serverVars, esVars, clientVars
<1>1. CASE Drop \/ Stopped \/ UNCHANGED vars
  BY <1>1 DEF Drop, Stopped, vars
<1>2. CASE Tick
  BY <1>2, SMTT(30) DEF Tick
<1>3. CASE Exit
  <2>1. stage' \in [Conns -> {"unused", "meta", "first", "take", "next", "emit",
                              "flush", "finish", "close", "closed"}]
    BY <1>3 DEF Exit
  <2> QED
    BY <1>3, <2>1 DEF Exit
<1>4. CASE Start
  BY <1>4 DEF Start
<1> QED
  BY <1>1, <1>2, <1>3, <1>4

LEMMA TypeStep == IInv /\ [Next]_vars => TypeOK'
BY ConnectType, ReadType, EmitType, AroundType DEF Next

-----------------------------------------------------------------------------
(* The inductive invariant, action by action.                              *)

LEMMA InitInv == Init => IInv
<1> SUFFICES ASSUME Init PROVE IInv
  OBVIOUS
<1>1. \A i \in Conns : ~Running(i) /\ stage[i] = "unused" /\ Unused(i)
  BY DEF Init, Running, Active, Unused
<1>2. ConnectionsOK
  BY <1>1 DEF ConnectionsOK, ConnectionOK
<1>3. SnapshotsOK
  BY <1>1 DEF Init, SnapshotsOK
<1>4. CursorOK /\ ListeningOK /\ ReceivedInOrder /\ CompleteMeansAll
  BY DEF Init, CursorOK, ListeningOK, ReceivedInOrder, CompleteMeansAll,
     HasCursor, NoCursor
<1> QED
  BY <1>2, <1>3, <1>4, InitType DEF IInv

\* A connection that a step leaves alone stays as it should be.
LEMMA ConnectionFrame ==
  ASSUME ConnectionsOK, NEW j \in Conns,
         stage'[j] = stage[j], snap'[j] = snap[j], base'[j] = base[j],
         taken'[j] = taken[j], after'[j] = after[j], short'[j] = short[j],
         acked'[j] = acked[j],
         stage[j] = "unused" => pit'[j] = pit[j] /\ fetched'[j] = fetched[j],
         Running(j) => total'[snap[j]] = total[snap[j]]
  PROVE  ConnectionOK(j)'
<1>1. ConnectionOK(j)
  BY DEF ConnectionsOK
<1> QED
  BY <1>1 DEF ConnectionOK, Unused, Running, PositionsOK, StageOK, Position,
     LastAcked

\* Likewise a connection that is not running: nothing is said of it.
LEMMA ClosedConnection ==
  ASSUME NEW i \in Conns, stage'[i] = "closed"
  PROVE  ConnectionOK(i)'
BY DEF ConnectionOK, Running, Active

LEMMA ReadStep ==
  ASSUME IInv, NEW i \in Conns,
         \/ EmitMeta(i) \/ FirstPage(i) \/ Prefetch(i) \/ Take(i) \/ NextPage(i)
  PROVE  /\ SnapshotsOK' /\ ConnectionsOK' /\ CursorOK' /\ ListeningOK'
         /\ ReceivedInOrder' /\ CompleteMeansAll'
<1>1. TypeOK /\ TypeOK'
  BY ReadType DEF IInv
<1>2. /\ Running(i) /\ stage[i] \in Active /\ stage[i] # "closed"
      /\ UNCHANGED <<pit, total, snap, base, acked, lastId, log>>
  BY DEF Running, Active, EmitMeta, FirstPage, Prefetch, Take, NextPage,
     serverVars, esVars, clientVars
<1>3. /\ stage'[i] # "unused" /\ stage'[i] # "closed"
      /\ stage'[i] \in Active \/ link' # i
      /\ \A j \in Conns : j # i => stage'[j] = stage[j]
  <2>1. PICK s \in Active \cup {"close"} : Goto(i, s) \/ (stage' = stage /\ s = stage[i])
    BY <1>2 DEF Active, EmitMeta, FirstPage, Prefetch, Take, NextPage
  <2>2. stage'[i] = s /\ \A j \in Conns : j # i => stage'[j] = stage[j]
    BY <1>1, <2>1 DEF Goto, TypeOK
  <2>3. s = "close" => link' # i
    BY <1>1, <1>2, <2>1, <2>2, ConnNumbers DEF Active, EmitMeta, FirstPage, Prefetch, Take,
       NextPage, Fails, TypeOK, Goto
  <2> QED
    BY <2>1, <2>2, <2>3 DEF Active
<1>4. \/ link' = link /\ client' = client
      \/ link' = 0 /\ client' = "expired"
  <2>1. CASE FirstPage(i)
    <3>1. CASE Fails(i, TRUE)
      BY <3>1 DEF Fails
    <3>2. CASE ~Fails(i, TRUE)
      BY <2>1, <3>2 DEF FirstPage
    <3> QED
      BY <3>1, <3>2
  <2>2. CASE EmitMeta(i) \/ Prefetch(i) \/ Take(i) \/ NextPage(i)
    BY <2>2 DEF EmitMeta, Prefetch, Take, NextPage, clientVars
  <2> QED
    BY <2>1, <2>2
<1>5. /\ PositionsOK(i) /\ StageOK(i) /\ after[i] <= total[snap[i]]
      /\ snap[i] \in Conns
  BY <1>2, RunningFacts
<1>6. /\ base[i] \in Nat /\ taken[i] \in Nat /\ after[i] \in Nat
      /\ acked[i] \in Nat /\ total[snap[i]] \in Nat
      /\ LastAcked(i) \in Nat /\ Position(i) \in Nat
  BY <1>1, <1>5 DEF TypeOK, LastAcked, Position
<1>7. ConnectionOK(i)'
  <2> USE DEF PositionsOK, StageOK
  <2>1. SUFFICES PositionsOK(i)' /\ StageOK(i)'
    BY <1>3 DEF ConnectionOK
  <2>2. CASE EmitMeta(i)
    <3>1. /\ stage'[i] = "first" /\ stage[i] = "meta"
          /\ UNCHANGED <<taken, after, short>>
      BY <1>1, <2>2 DEF EmitMeta, Goto, TypeOK, serverVars
    <3> QED
      BY <1>2, <1>5, <3>1 DEF LastAcked, Position
  <2>3. CASE FirstPage(i) \/ NextPage(i)
    <3>1. UNCHANGED taken /\ stage[i] \in {"first", "next"}
      BY <2>3 DEF FirstPage, NextPage
    <3>2. \/ /\ UNCHANGED <<after, short>>
             /\ \/ stage[i] = "first" /\ Goto(i, "close")
                \/ stage[i] = "next" /\ Goto(i, "flush")
          \/ /\ ApplyPage(i)
             /\ \/ stage[i] = "first" /\ Goto(i, "take")
                \/ stage[i] = "next" /\ Goto(i, "emit")
      BY <2>3, Zenon DEF FirstPage, NextPage
    <3>3. CASE /\ UNCHANGED <<after, short>>
               /\ \/ stage[i] = "first" /\ Goto(i, "close")
                  \/ stage[i] = "next" /\ Goto(i, "flush")
      <4>1. \/ stage[i] = "first" /\ stage'[i] = "close"
            \/ stage[i] = "next" /\ stage'[i] = "flush"
        BY <1>1, <3>3 DEF Goto, TypeOK
      <4> QED
        BY <1>2, <1>5, <3>1, <3>3, <4>1 DEF LastAcked, Position
    <3>4. CASE /\ ApplyPage(i)
               /\ \/ stage[i] = "first" /\ Goto(i, "take")
                  \/ stage[i] = "next" /\ Goto(i, "emit")
      <4>1. /\ after'[i] = PageEnd(i)
            /\ short'[i] = (PageEnd(i) - after[i] < PageSize)
        BY <1>1, <3>4 DEF ApplyPage, TypeOK
      <4>2. \/ stage[i] = "first" /\ stage'[i] = "take"
            \/ stage[i] = "next" /\ stage'[i] = "emit"
        BY <1>1, <3>4 DEF Goto, TypeOK
      <4>3. /\ PageEnd(i) \in Nat
            /\ after[i] <= PageEnd(i) /\ PageEnd(i) <= total[snap[i]]
            /\ PageEnd(i) - after[i] < PageSize => PageEnd(i) = total[snap[i]]
            /\ PageEnd(i) = after[i] => PageEnd(i) - after[i] < PageSize
        BY <1>1, <1>5, PageEndBounds
      <4>4. Position(i)' = Position(i) /\ LastAcked(i)' = LastAcked(i)
        BY <1>2, <3>1 DEF Position, LastAcked
      <4>7. /\ short'[i] => PageEnd(i) = total[snap[i]]
            /\ PageEnd(i) = after[i] => short'[i]
        BY <4>1, <4>3
      <4>8. /\ PageEnd(i) = Position(i) => short'[i]
            /\ Position(i) <= PageEnd(i)
        BY <1>5, <1>6, <4>3, <4>7
      <4>5. PositionsOK(i)'
        BY <1>2, <1>5, <1>6, <3>1, <4>1, <4>3, <4>4, <4>7, <4>8
      <4>6. stage[i] = "first" => Position(i) < base[i] + MaxRecords
        BY <1>5, <1>6, BoundsAssumption DEF Position
      <4> QED
        BY <1>2, <1>5, <3>1, <4>1, <4>2, <4>4, <4>5, <4>6, <4>8
    <3> QED
      BY <3>2, <3>3, <3>4
  <2>4. CASE Prefetch(i)
    <3>1. UNCHANGED <<stage, taken, after, short>>
      BY <2>4 DEF Prefetch
    <3> QED
      BY <1>2, <1>5, <3>1 DEF LastAcked, Position
  <2>5. CASE Take(i)
    <3>1. stage[i] = "take" /\ UNCHANGED <<after, short>>
      BY <2>5 DEF Take
    <3>2. CASE Position(i) < after[i]
      <4> DEFINE t == Lesser(after[i], base[i] + MaxRecords)
      <4>1. /\ taken' = [taken EXCEPT ![i] = t]
            /\ Goto(i, IF taken'[i] = after[i] /\ ~short[i]
                       THEN "next" ELSE "emit")
        BY <2>5, <3>2 DEF Take
      <4>2. /\ t \in Nat /\ t <= after[i] /\ Position(i) < t
            /\ t # 0 /\ base[i] <= t
        BY <1>5, <1>6, <3>1, <3>2, BoundsAssumption DEF Lesser
      <4> HIDE DEF t
      <4>3. taken'[i] = t
        BY <1>1, <4>1 DEF TypeOK
      <4>4. \/ stage'[i] = "next"
            \/ stage'[i] = "emit" /\ (t = after[i] => short[i])
        BY <1>1, <4>1, <4>3 DEF Goto, TypeOK
      <4>5. LastAcked(i)' = LastAcked(i) /\ Position(i)' = t
        BY <1>2, <4>2, <4>3 DEF LastAcked, Position
      <4>6. PositionsOK(i)'
        BY <1>2, <1>5, <1>6, <3>1, <4>2, <4>3, <4>5
      <4> QED
        BY <1>2, <1>5, <1>6, <3>1, <4>2, <4>3, <4>4, <4>5, <4>6
    <3>3. CASE ~(Position(i) < after[i])
      <4>1. stage'[i] = "finish" /\ UNCHANGED taken
        BY <1>1, <2>5, <3>3 DEF Take, Goto, TypeOK
      <4> QED
        BY <1>2, <1>5, <3>1, <4>1 DEF LastAcked, Position
    <3> QED
      BY <3>2, <3>3
  <2> QED
    BY <2>2, <2>3, <2>4, <2>5
<1>8. ConnectionsOK'
  <2>1. ASSUME NEW j \in Conns, j # i
        PROVE  ConnectionOK(j)'
    <3>1. /\ taken'[j] = taken[j] /\ after'[j] = after[j]
          /\ short'[j] = short[j]
      BY <1>1, <2>1, ZenonT(60) DEF TypeOK, EmitMeta, FirstPage, Prefetch, Take, NextPage,
         ApplyPage, serverVars
    <3>2. fetched'[j] = fetched[j]
      BY <1>1, <2>1, ZenonT(60) DEF TypeOK, EmitMeta, FirstPage, Prefetch, Take, NextPage,
         serverVars
    <3>3. ConnectionsOK
      BY DEF IInv
    <3> QED
      BY <1>2, <1>3, <2>1, <3>1, <3>2, <3>3, ConnectionFrame
  <2> QED
    BY <1>7, <2>1 DEF ConnectionsOK
<1>9. SnapshotsOK'
  BY <1>2, <1>3 DEF IInv, SnapshotsOK, Running
<1>10. CursorOK' /\ ReceivedInOrder'
  BY <1>2 DEF IInv, CursorOK, ReceivedInOrder, HasCursor
<1>11. ListeningOK'
  BY <1>2, <1>3, <1>4 DEF IInv, ListeningOK, LastAcked, HasCursor
<1>12. CompleteMeansAll'
  BY <1>2, <1>4 DEF IInv, CompleteMeansAll, HasCursor
<1> QED
  BY <1>8, <1>9, <1>10, <1>11, <1>12

\* What a connection hears of an error.
LEMMA FailsFacts ==
  ASSUME NEW i \in Conns, NEW e \in BOOLEAN, Fails(i, e)
  PROVE  /\ link = i => link' = 0
         /\ link # i => link' = link /\ client' = client
         /\ client' \in {client, "expired"}
BY ConnNumbers DEF Fails

\* Numbers in order, continued in order.
LEMMA AppendInOrder ==
  ASSUME NEW s \in Seq(Nat), NEW b \in Seq(Nat),
         \A k \in DOMAIN s : s[k] = k, \A k \in DOMAIN b : b[k] = Len(s) + k
  PROVE  /\ Len(s \o b) = Len(s) + Len(b)
         /\ \A k \in DOMAIN (s \o b) : (s \o b)[k] = k
<1>1. DOMAIN s = 1..Len(s) /\ DOMAIN b = 1..Len(b)
  OBVIOUS
<1>2. /\ s \o b \in Seq(Nat) /\ Len(s \o b) = Len(s) + Len(b)
      /\ \A k \in 1 .. Len(s) + Len(b) :
           (s \o b)[k] = IF k <= Len(s) THEN s[k] ELSE b[k - Len(s)]
  BY ConcatProperties
<1>3. DOMAIN (s \o b) = 1 .. Len(s) + Len(b)
  BY <1>2
<1>4. ASSUME NEW k \in 1 .. Len(s) + Len(b)
      PROVE  (s \o b)[k] = k
  <2>1. CASE k <= Len(s)
    BY <1>1, <1>2, <2>1
  <2>2. CASE ~(k <= Len(s))
    <3>1. k - Len(s) \in 1..Len(b)
      BY <2>2
    <3>2. b[k - Len(s)] = Len(s) + (k - Len(s))
      BY <1>1, <3>1
    <3>3. (s \o b)[k] = b[k - Len(s)]
      BY <1>2, <2>2
    <3> QED
      BY <3>2, <3>3
  <2> QED
    BY <2>1, <2>2
<1> QED
  BY <1>2, <1>3, <1>4

\* Delivering a batch leaves the log in order, and the client's cursor behind
\* it, whoever the client listens to.
LEMMA DeliverStep ==
  ASSUME IInv, NEW i \in Conns, stage[i] \in {"emit", "flush"}, Deliver(i),
         UNCHANGED <<pit, total>>
  PROVE  /\ CursorOK' /\ ReceivedInOrder'
         /\ link = i => HasCursor' /\ lastId'.pit = snap[i]
                        /\ Len(log') = taken[i]
         /\ link # i => UNCHANGED <<lastId, log>>
<1>1. TypeOK
  BY DEF IInv
<1>2. Running(i)
  BY DEF Running, Active
<1>3. /\ snap[i] \in Conns /\ pit[snap[i]] # "none" /\ PositionsOK(i)
      /\ LastAcked(i) < taken[i]
  BY <1>2, RunningFacts DEF StageOK
<1>4. CASE link # i
  <2>1. UNCHANGED <<lastId, log>>
    BY <1>4 DEF Deliver
  <2> QED
    BY <1>4, <2>1 DEF IInv, CursorOK, ReceivedInOrder, HasCursor
<1>5. CASE link = i
  <2>1. /\ lastId'.pit = snap[i] /\ lastId'.after = taken[i]
        /\ lastId'.done = FALSE /\ log' = log \o BatchOf(i)
    BY <1>5 DEF Deliver, Cursor
  <2>2. /\ BatchOf(i) \in Seq(Nat)
        /\ Len(BatchOf(i)) = taken[i] - LastAcked(i)
        /\ \A k \in DOMAIN BatchOf(i) : BatchOf(i)[k] = LastAcked(i) + k
    BY <1>1, <1>3, BatchFacts
  <2>3. log \in Seq(Nat) /\ LastAcked(i) = Len(log) /\ link # 0
    BY <1>1, <1>5, ConnNumbers DEF IInv, TypeOK, ListeningOK
  <2>4. taken[i] \in Nat /\ total[snap[i]] \in Nat /\ after[i] \in Nat
    BY <1>1, <1>3 DEF TypeOK
  <2>12. \A k \in DOMAIN log : log[k] = k
    BY DEF IInv, ReceivedInOrder
  <2>13. /\ Len(log \o BatchOf(i)) = Len(log) + (taken[i] - Len(log))
         /\ \A k \in DOMAIN (log \o BatchOf(i)) : (log \o BatchOf(i))[k] = k
    BY <2>2, <2>3, <2>12, AppendInOrder
  <2>5. Len(log') = taken[i]
    BY <2>1, <2>3, <2>4, <2>13
  <2>6. \A k \in DOMAIN log' : log'[k] = k
    BY <2>1, <2>13
  <2>7. HasCursor' /\ snap[i] # 0
    BY <1>3, <2>1, ConnNumbers DEF HasCursor
  <2>8. taken[i] # 0 /\ log' # <<>>
    <3>1. LastAcked(i) \in Nat
      BY <2>3
    <3>2. taken[i] # 0
      BY <1>3, <2>4, <3>1
    <3> QED
      BY <2>5, <3>2
  <2>9. taken[i] <= total[snap[i]]
    BY <1>3, <2>4, <2>8 DEF PositionsOK, Position
  <2>10. CursorOK'
    BY <1>3, <2>1, <2>5, <2>9 DEF CursorOK
  <2>11. ReceivedInOrder'
    BY <2>1, <2>5, <2>6, <2>7, <2>8 DEF ReceivedInOrder
  <2> QED
    BY <1>5, <2>1, <2>5, <2>7, <2>10, <2>11
<1> QED
  BY <1>4, <1>5

LEMMA DeliveringStep ==
  ASSUME IInv, NEW i \in Conns, Emit(i) \/ EmitThenFail(i)
  PROVE  /\ SnapshotsOK' /\ ConnectionsOK' /\ CursorOK' /\ ListeningOK'
         /\ ReceivedInOrder' /\ CompleteMeansAll'
<1>1. TypeOK /\ TypeOK'
  BY EmitType DEF IInv
<1>2. /\ Running(i) /\ stage[i] \in {"emit", "flush"} /\ Deliver(i)
      /\ UNCHANGED <<pit, total, snap, base, taken, after, short, fetched>>
  BY DEF Running, Active, Emit, EmitThenFail, esVars
<1>3. /\ PositionsOK(i) /\ StageOK(i) /\ LastAcked(i) < taken[i]
      /\ snap[i] \in Conns /\ pit[snap[i]] # "none"
  BY <1>2, RunningFacts DEF StageOK
<1>4. /\ acked'[i] = taken[i]
      /\ \A j \in Conns : j # i => acked'[j] = acked[j]
  BY <1>1, <1>2 DEF Deliver, TypeOK
<1>5. /\ stage'[i] \in {"take", "finish"} \/ stage'[i] = "close"
      /\ stage'[i] = "close" => EmitThenFail(i)
      /\ \A j \in Conns : j # i => stage'[j] = stage[j]
  BY <1>1 DEF Emit, EmitThenFail, Goto, TypeOK
<1>6. /\ stage'[i] = "take" => ~(taken[i] - base[i] >= MaxRecords)
                               /\ taken[i] # after[i]
      /\ stage'[i] # "close" => stage[i] = "emit"
  BY <1>1 DEF Emit, EmitThenFail, Goto, TypeOK
<1>7. /\ base[i] \in Nat /\ taken[i] \in Nat /\ after[i] \in Nat
      /\ LastAcked(i) \in Nat /\ MaxRecords \in Nat
  BY <1>1, BoundsAssumption DEF TypeOK, LastAcked
<1>8. taken[i] # 0 /\ Position(i) = taken[i]
  BY <1>3, <1>7 DEF Position
<1>9. ConnectionOK(i)'
  <2>1. Position(i)' = taken[i] /\ LastAcked(i)' = taken[i]
    BY <1>2, <1>4, <1>8 DEF Position, LastAcked
  <2>2. PositionsOK(i)'
    BY <1>2, <1>3, <1>7, <1>8, <2>1 DEF PositionsOK
  <2>3. StageOK(i)'
    BY <1>2, <1>3, <1>5, <1>6, <1>7, <1>8, <2>1 DEF StageOK
  <2> QED
    BY <1>5, <2>2, <2>3 DEF ConnectionOK
<1>10. ConnectionsOK'
  <2>1. ASSUME NEW j \in Conns, j # i
        PROVE  ConnectionOK(j)'
    BY <1>2, <1>4, <1>5, <2>1, ConnectionFrame DEF IInv
  <2> QED
    BY <1>9, <2>1 DEF ConnectionsOK
<1>11. SnapshotsOK'
  <2>1. ASSUME NEW j \in Conns, Running(j)'
        PROVE  snap'[j] # 0
    BY <1>2, <1>5, <2>1 DEF IInv, SnapshotsOK, Running
  <2>2. ASSUME NEW s \in Conns, pit'[s] = "closed"
        PROVE  \E j \in Conns : stage'[j] = "closed" /\ snap'[j] = s
                                /\ acked'[j] = 0
    <3>1. PICK j \in Conns : stage[j] = "closed" /\ snap[j] = s /\ acked[j] = 0
      BY <1>2, <2>2 DEF IInv, SnapshotsOK
    <3>2. j # i
      BY <1>2, <3>1
    <3> QED
      BY <1>2, <1>4, <1>5, <3>1, <3>2
  <2>3. \A j \in Conns : snap[j] # 0 => snap[j] \in Conns /\ pit[snap[j]] # "none"
    BY DEF IInv, SnapshotsOK
  <2> QED
    BY <1>2, <2>1, <2>2, <2>3 DEF SnapshotsOK
<1>12. /\ CursorOK' /\ ReceivedInOrder'
       /\ link = i => HasCursor' /\ lastId'.pit = snap[i]
                      /\ Len(log') = taken[i]
       /\ link # i => UNCHANGED <<lastId, log>>
  BY <1>2, DeliverStep
<1>13. /\ link = i => link' = 0 \/ (link' = i /\ client' = client
                                    /\ stage'[i] \in Active)
       /\ link # i => link' = link /\ client' = client
       /\ client' \in {client, "expired"}
  <2>1. CASE Emit(i)
    BY <1>1, <2>1 DEF Emit, Goto, TypeOK, Active
  <2>2. CASE EmitThenFail(i)
    BY <2>2, FailsFacts DEF EmitThenFail
  <2> QED
    BY <2>1, <2>2
<1>14. link # 0 => /\ link \in Conns /\ stage[link] \in Active
                   /\ client = "following" /\ LastAcked(link) = Len(log)
                   /\ HasCursor => lastId.pit = snap[link]
  BY DEF IInv, ListeningOK
<1>15. ListeningOK'
  <2>1. CASE link = i
    BY <1>2, <1>4, <1>8, <1>12, <1>13, <1>14, <2>1 DEF ListeningOK, LastAcked
  <2>2. CASE link # i
    BY <1>2, <1>4, <1>5, <1>12, <1>13, <1>14, <2>2
    DEF ListeningOK, LastAcked, HasCursor
  <2> QED
    BY <2>1, <2>2
<1>16. CompleteMeansAll'
  <2>1. CASE link = i
    BY <1>13, <1>14, <2>1, ConnNumbers DEF CompleteMeansAll
  <2>2. CASE link # i
    BY <1>2, <1>12, <1>13, <2>2 DEF IInv, CompleteMeansAll, HasCursor
  <2> QED
    BY <2>1, <2>2
<1> QED
  BY <1>10, <1>11, <1>12, <1>15, <1>16

\* The end of a connection: Finish, Fail and the deferred closePIT.
LEMMA EndFrame ==
  ASSUME IInv, NEW i \in Conns, Running(i), TypeOK',
         UNCHANGED <<total, snap, acked>>, pit' = pit,
         UNCHANGED <<base, taken, after, short, fetched>>, Goto(i, "close")
  PROVE  SnapshotsOK' /\ ConnectionsOK'
<1>1. /\ stage'[i] = "close"
      /\ \A j \in Conns : j # i => stage'[j] = stage[j]
  BY DEF IInv, TypeOK, Goto
<1>2. stage[i] # "closed" /\ PositionsOK(i)
  BY RunningFacts DEF Running, Active
<1>3. ConnectionOK(i)'
  BY <1>1, <1>2 DEF ConnectionOK, PositionsOK, StageOK, LastAcked, Position
<1>4. \A j \in Conns : j # i => ConnectionOK(j)'
  BY <1>1, ConnectionFrame DEF IInv
<1>5. SnapshotsOK'
  BY <1>1, <1>2 DEF IInv, SnapshotsOK, Running
<1> QED
  BY <1>3, <1>4, <1>5 DEF ConnectionsOK

LEMMA FinishStep ==
  ASSUME IInv, NEW i \in Conns, Finish(i)
  PROVE  /\ SnapshotsOK' /\ ConnectionsOK' /\ CursorOK' /\ ListeningOK'
         /\ ReceivedInOrder' /\ CompleteMeansAll'
<1>1. TypeOK /\ TypeOK'
  BY EmitType DEF IInv
<1>2. /\ Running(i) /\ stage[i] = "finish" /\ Goto(i, "close")
      /\ UNCHANGED <<pit, total, snap, base, taken, after, short, fetched,
                     acked, log>>
  BY DEF Running, Active, Finish, esVars, serverVars
<1>3. SnapshotsOK' /\ ConnectionsOK'
  BY <1>1, <1>2, EndFrame
<1>4. /\ PositionsOK(i) /\ LastAcked(i) = Position(i)
      /\ Drained(i) => after[i] = total[snap[i]]
      /\ snap[i] \in Conns /\ pit[snap[i]] # "none"
  BY <1>2, RunningFacts DEF StageOK, PositionsOK, Drained
<1>5. CASE link # i
  <2>1. UNCHANGED <<link, lastId, client>>
    BY <1>5 DEF Finish
  <2>2. \A j \in Conns : j # i => stage'[j] = stage[j]
    BY <1>1, <1>2 DEF Goto, TypeOK
  <2>3. CursorOK' /\ ReceivedInOrder' /\ CompleteMeansAll'
    BY <1>2, <2>1 DEF IInv, CursorOK, ReceivedInOrder, CompleteMeansAll, HasCursor
  <2>4. ListeningOK'
    BY <1>2, <1>5, <2>1, <2>2 DEF IInv, ListeningOK, LastAcked, HasCursor
  <2> QED
    BY <1>3, <2>3, <2>4
<1>6. CASE link = i
  <2>1. /\ link' = 0
        /\ taken[i] # 0 => lastId' = Cursor(i, Drained(i))
        /\ taken[i] = 0 => lastId' = lastId
        /\ Drained(i) => client' = "complete"
        /\ ~Drained(i) => client' = client
    BY <1>6 DEF Finish
  <2>2. /\ client = "following" /\ Len(log) = Position(i)
        /\ HasCursor => lastId.pit = snap[i]
    BY <1>4, <1>6, ConnNumbers DEF IInv, ListeningOK
  <2>3. ListeningOK'
    BY <2>1 DEF ListeningOK
  <2>4. /\ Position(i) <= after[i] /\ after[i] <= total[snap[i]]
        /\ Drained(i) => Position(i) = total[snap[i]]
    BY <1>4 DEF PositionsOK, Drained
  <2>5. CASE taken[i] = 0
    <3>1. CursorOK' /\ ReceivedInOrder'
      BY <1>2, <2>1, <2>5 DEF IInv, CursorOK, ReceivedInOrder, HasCursor
    <3>2. CompleteMeansAll'
      BY <1>2, <2>1, <2>2, <2>4, <2>5 DEF CompleteMeansAll, HasCursor
    <3> QED
      BY <1>3, <2>3, <3>1, <3>2
  <2>6. CASE taken[i] # 0
    <3>1. /\ lastId'.pit = snap[i] /\ lastId'.after = taken[i]
          /\ lastId'.done = Drained(i) /\ Position(i) = taken[i]
      BY <2>1, <2>6 DEF Cursor, Position
    <3>2. snap[i] # 0
      BY <1>4, ConnNumbers
    <3>3. HasCursor' /\ log # <<>>
      BY <2>2, <2>6, <3>1, <3>2 DEF HasCursor
    <3>4. \A k \in DOMAIN log : log[k] = k
      BY DEF IInv, ReceivedInOrder
    <3>5. ReceivedInOrder'
      BY <1>2, <2>2, <3>1, <3>3, <3>4 DEF ReceivedInOrder
    <3>6. Len(log) \in Nat /\ after[i] \in Nat /\ total[snap[i]] \in Nat
      BY <1>1, <1>4 DEF TypeOK
    <3>7. CursorOK'
      BY <1>2, <1>4, <2>2, <2>4, <3>1, <3>6 DEF CursorOK
    <3>8. CompleteMeansAll'
      BY <1>2, <2>1, <2>2, <2>4, <3>1 DEF CompleteMeansAll
    <3> QED
      BY <1>3, <2>3, <3>5, <3>7, <3>8
  <2> QED
    BY <2>5, <2>6
<1> QED
  BY <1>5, <1>6

LEMMA FailStep ==
  ASSUME IInv, NEW i \in Conns, Fail(i)
  PROVE  /\ SnapshotsOK' /\ ConnectionsOK' /\ CursorOK' /\ ListeningOK'
         /\ ReceivedInOrder' /\ CompleteMeansAll'
<1>1. TypeOK /\ TypeOK'
  BY EmitType DEF IInv
<1>2. /\ Running(i) /\ Goto(i, "close")
      /\ UNCHANGED <<pit, total, snap, base, taken, after, short, fetched,
                     acked, lastId, log>>
  BY DEF Running, Active, Fail, esVars, serverVars
<1>3. SnapshotsOK' /\ ConnectionsOK'
  BY <1>1, <1>2, EndFrame
<1>4. /\ link = i => link' = 0
      /\ link # i => link' = link /\ client' = client
      /\ client' \in {client, "expired"}
  BY FailsFacts DEF Fail
<1>5. \A j \in Conns : j # i => stage'[j] = stage[j]
  BY <1>1, <1>2 DEF Goto, TypeOK
<1>6. CursorOK' /\ ReceivedInOrder'
  BY <1>2 DEF IInv, CursorOK, ReceivedInOrder, HasCursor
<1>7. CompleteMeansAll'
  BY <1>2, <1>4 DEF IInv, CompleteMeansAll, HasCursor
<1>8. ListeningOK'
  BY <1>2, <1>4, <1>5 DEF IInv, ListeningOK, LastAcked, HasCursor
<1> QED
  BY <1>3, <1>6, <1>7, <1>8

LEMMA CloseStep ==
  ASSUME IInv, NEW i \in Conns, ClosePIT(i)
  PROVE  /\ SnapshotsOK' /\ ConnectionsOK' /\ CursorOK' /\ ListeningOK'
         /\ ReceivedInOrder' /\ CompleteMeansAll'
<1>1. TypeOK /\ TypeOK'
  BY EmitType DEF IInv
<1>2. /\ Running(i) /\ stage[i] = "close" /\ Return(i)
      /\ UNCHANGED <<total, snap, acked, link, lastId, log, client>>
  BY DEF Running, ClosePIT, Return, clientVars
<1>3. /\ PositionsOK(i) /\ snap[i] \in Conns /\ pit[snap[i]] # "none"
  BY <1>2, RunningFacts
<1>4. /\ stage'[i] = "closed"
      /\ \A j \in Conns : j # i => stage'[j] = stage[j]
  BY <1>1, <1>2 DEF Return, Goto, TypeOK
<1>5. \A j \in Conns : j # i =>
        /\ base'[j] = base[j] /\ taken'[j] = taken[j] /\ after'[j] = after[j]
        /\ short'[j] = short[j] /\ fetched'[j] = fetched[j]
  BY <1>1, <1>2 DEF Return, TypeOK
<1>6. /\ \A s \in Conns : s # snap[i] => pit'[s] = pit[s]
      /\ pit'[snap[i]] = pit[snap[i]]
           \/ (pit'[snap[i]] = "closed" /\ taken[i] = 0)
  <2>1. CASE pit' = pit
    BY <2>1
  <2>2. CASE taken[i] = 0 /\ pit' = [pit EXCEPT ![snap[i]] = "closed"]
    BY <1>1, <1>3, <2>2 DEF TypeOK
  <2> QED
    BY <2>1, <2>2 DEF ClosePIT
<1>7. ConnectionsOK'
  <2>1. ConnectionOK(i)'
    BY <1>4, ClosedConnection
  <2>2. ASSUME NEW j \in Conns, j # i
        PROVE  ConnectionOK(j)'
    <3>1. stage[j] = "unused" => pit'[j] = pit[j]
      BY <1>3, <1>6 DEF IInv, ConnectionsOK, ConnectionOK, Unused
    <3> QED
      BY <1>2, <1>4, <1>5, <2>2, <3>1, ConnectionFrame DEF IInv
  <2> QED
    BY <2>1, <2>2 DEF ConnectionsOK
<1>8. SnapshotsOK'
  <2>1. ASSUME NEW j \in Conns, Running(j)'
        PROVE  snap'[j] # 0
    BY <1>2, <1>4, <2>1 DEF IInv, SnapshotsOK, Running, Active
  <2>2. ASSUME NEW s \in Conns, pit'[s] = "closed"
        PROVE  \E j \in Conns : stage'[j] = "closed" /\ snap'[j] = s
                                /\ acked'[j] = 0
    <3>1. CASE pit[s] = "closed"
      BY <1>2, <1>4, <3>1 DEF IInv, SnapshotsOK
    <3>2. CASE pit[s] # "closed"
      <4>1. s = snap[i] /\ acked[i] = 0
        BY <1>3, <1>6, <2>2, <3>2 DEF PositionsOK
      <4> QED
        BY <1>2, <1>4, <4>1
    <3> QED
      BY <3>1, <3>2
  <2>3. ASSUME NEW j \in Conns, snap'[j] # 0
        PROVE  snap'[j] \in Conns /\ pit'[snap'[j]] # "none"
    <3>1. snap[j] \in Conns /\ pit[snap[j]] # "none"
      BY <1>2, <2>3 DEF IInv, SnapshotsOK
    <3> QED
      BY <1>2, <1>3, <1>6, <3>1
  <2> QED
    BY <2>1, <2>2, <2>3 DEF SnapshotsOK
<1>9. CursorOK'
  BY <1>2, <1>3, <1>6 DEF IInv, CursorOK, HasCursor
<1>10. ReceivedInOrder' /\ CompleteMeansAll'
  BY <1>2 DEF IInv, ReceivedInOrder, CompleteMeansAll, HasCursor
<1>11. ListeningOK'
  <2>1. ASSUME link # 0
        PROVE  /\ link \in Conns /\ stage'[link] \in Active
               /\ client = "following" /\ LastAcked(link)' = Len(log)
               /\ HasCursor => lastId.pit = snap[link]
    <3>1. /\ link \in Conns /\ stage[link] \in Active
          /\ client = "following" /\ LastAcked(link) = Len(log)
          /\ HasCursor => lastId.pit = snap[link]
      BY <2>1 DEF IInv, ListeningOK
    <3>2. link # i
      BY <1>2, <3>1 DEF Active
    <3> QED
      BY <1>2, <1>4, <1>5, <3>1, <3>2 DEF LastAcked
  <2> QED
    BY <1>2, <2>1 DEF ListeningOK, HasCursor
<1> QED
  BY <1>7, <1>8, <1>9, <1>10, <1>11

\* Opening a snapshot, whether its answer arrives or not.
LEMMA OpenStep ==
  ASSUME IInv, NEW i \in Conns, ConnectFresh(i) \/ ConnectOpenLost(i)
  PROVE  /\ SnapshotsOK' /\ ConnectionsOK' /\ CursorOK' /\ ListeningOK'
         /\ ReceivedInOrder' /\ CompleteMeansAll'
<1>1. TypeOK /\ TypeOK'
  BY ConnectType DEF IInv
<1>2. /\ IsNext(i) /\ client = "following" /\ ~HasCursor /\ Opened(i)
      /\ UNCHANGED <<base, taken, after, short, fetched, acked, lastId, log,
                     client>>
  BY DEF ConnectFresh, ConnectOpenLost, Opened
<1>3. /\ stage[i] = "unused" /\ link = 0 /\ Unused(i)
  BY <1>2 DEF IsNext, IInv, ConnectionsOK, ConnectionOK
<1>4. /\ pit'[i] = "open" /\ \A j \in Conns : j # i => pit'[j] = pit[j]
  BY <1>1, <1>2 DEF Opened, TypeOK
<1>5. \A j \in Conns : j # i => total'[j] = total[j]
  BY <1>1, <1>2 DEF Opened, TypeOK
<1>6. \A j \in Conns : j # i => stage'[j] = stage[j] /\ snap'[j] = snap[j]
  BY <1>1 DEF ConnectFresh, ConnectOpenLost, Goto, TypeOK
<1>7. \/ stage'[i] = "meta" /\ link' = i /\ snap'[i] = i
      \/ stage'[i] = "closed" /\ link' = 0 /\ snap'[i] = 0
  BY <1>1, <1>3, SMTT(30) DEF ConnectFresh, ConnectOpenLost, Goto, TypeOK, Unused
<1>8. i \in Nat /\ i # 0 /\ MaxRecords \in Nat /\ MaxRecords # 0
  BY ConnNumbers, BoundsAssumption
<1>9. ConnectionOK(i)'
  <2>1. CASE stage'[i] = "closed"
    BY <2>1, ClosedConnection
  <2>2. CASE stage'[i] = "meta"
    <3>1. total'[snap'[i]] \in Nat
      BY <1>1, <1>7, <2>2 DEF TypeOK
    <3>2. /\ base'[i] = 0 /\ taken'[i] = 0 /\ after'[i] = 0 /\ acked'[i] = 0
          /\ ~short'[i]
      BY <1>2, <1>3 DEF Unused
    <3> QED
      BY <2>2, <3>1, <3>2
      DEF ConnectionOK, PositionsOK, StageOK, LastAcked, Position
  <2> QED
    BY <1>7, <2>1, <2>2
<1>10. ConnectionsOK'
  <2>1. ASSUME NEW j \in Conns, j # i
        PROVE  ConnectionOK(j)'
    <3>1. Running(j) => snap[j] # i
      BY <1>3, RunningFacts DEF Unused
    <3>2. Running(j) => total'[snap[j]] = total[snap[j]]
      BY <1>5, <3>1, RunningFacts
    <3> QED
      BY <1>2, <1>4, <1>6, <2>1, <3>2, ConnectionFrame DEF IInv
  <2> QED
    BY <1>9, <2>1 DEF ConnectionsOK
<1>11. SnapshotsOK'
  <2>1. ASSUME NEW j \in Conns, Running(j)'
        PROVE  snap'[j] # 0
    BY <1>6, <1>7, <1>8, <2>1 DEF IInv, SnapshotsOK, Running, Active
  <2>2. ASSUME NEW s \in Conns, pit'[s] = "closed"
        PROVE  \E j \in Conns : stage'[j] = "closed" /\ snap'[j] = s
                                /\ acked'[j] = 0
    <3>1. pit[s] = "closed"
      BY <1>4, <2>2
    <3>2. PICK j \in Conns : stage[j] = "closed" /\ snap[j] = s /\ acked[j] = 0
      BY <3>1 DEF IInv, SnapshotsOK
    <3> QED
      BY <1>2, <1>3, <1>6, <3>2
  <2>3. ASSUME NEW j \in Conns, snap'[j] # 0
        PROVE  snap'[j] \in Conns /\ pit'[snap'[j]] # "none"
    <3>1. CASE j = i
      BY <1>4, <1>7, <2>3, <3>1
    <3>2. CASE j # i
      <4>1. snap'[j] = snap[j] /\ snap[j] \in Conns /\ pit[snap[j]] # "none"
        BY <1>6, <2>3, <3>2 DEF IInv, SnapshotsOK
      <4> QED
        BY <1>4, <4>1
    <3> QED
      BY <3>1, <3>2
  <2> QED
    BY <2>1, <2>2, <2>3 DEF SnapshotsOK
<1>12. log = <<>>
  BY <1>2 DEF IInv, ReceivedInOrder
<1>13. CursorOK' /\ ReceivedInOrder' /\ CompleteMeansAll'
  BY <1>2 DEF IInv, CursorOK, ReceivedInOrder, CompleteMeansAll, HasCursor
<1>14. ListeningOK'
  <2>1. Unused(i) /\ Len(log) = 0
    BY <1>3, <1>12
  <2> QED
    BY <1>2, <1>7, <2>1 DEF ListeningOK, LastAcked, HasCursor, Active, Unused
<1> QED
  BY <1>10, <1>11, <1>13, <1>14

LEMMA ResumedStep ==
  ASSUME IInv, NEW i \in Conns, ConnectResumed(i)
  PROVE  /\ SnapshotsOK' /\ ConnectionsOK' /\ CursorOK' /\ ListeningOK'
         /\ ReceivedInOrder' /\ CompleteMeansAll'
<1>1. TypeOK /\ TypeOK'
  BY ConnectType DEF IInv
<1>2. /\ stage[i] = "unused" /\ client = "following" /\ HasCursor /\ Unused(i)
      /\ link' = i
      /\ UNCHANGED <<pit, total, taken, short, fetched, acked, lastId, log,
                     client>>
  BY DEF ConnectResumed, IsNext, IInv, ConnectionsOK, ConnectionOK, esVars
<1>3. /\ stage'[i] = "meta" /\ snap'[i] = lastId.pit
      /\ base'[i] = lastId.after /\ after'[i] = lastId.after
  BY <1>1 DEF ConnectResumed, Goto, TypeOK
<1>4. \A j \in Conns : j # i =>
        /\ stage'[j] = stage[j] /\ snap'[j] = snap[j]
        /\ base'[j] = base[j] /\ after'[j] = after[j]
  BY <1>1 DEF ConnectResumed, Goto, TypeOK
<1>5. /\ lastId.pit \in Conns /\ pit[lastId.pit] # "none"
      /\ Len(log) <= total[lastId.pit] /\ lastId.after = Len(log)
  BY <1>2 DEF IInv, CursorOK, ReceivedInOrder
<1>6. ConnectionOK(i)'
  <2>1. MaxRecords \in Nat \ {0} /\ Len(log) \in Nat
    BY <1>1, BoundsAssumption DEF TypeOK
  <2>2. taken'[i] = 0 /\ acked'[i] = 0 /\ ~short'[i]
    BY <1>2 DEF Unused
  <2>3. total'[snap'[i]] = total[lastId.pit] /\ total[lastId.pit] \in Nat
    BY <1>1, <1>2, <1>3, <1>5 DEF TypeOK
  <2> QED
    BY <1>3, <1>5, <2>1, <2>2, <2>3
    DEF ConnectionOK, PositionsOK, StageOK, LastAcked, Position
<1>7. ConnectionsOK'
  <2>1. ASSUME NEW j \in Conns, j # i
        PROVE  ConnectionOK(j)'
    BY <1>2, <1>4, <2>1, ConnectionFrame DEF IInv
  <2> QED
    BY <1>6, <2>1 DEF ConnectionsOK
<1>8. SnapshotsOK'
  <2>1. ASSUME NEW j \in Conns, Running(j)'
        PROVE  snap'[j] # 0
    <3>1. lastId.pit # 0
      BY <1>5, ConnNumbers
    <3> QED
      BY <1>3, <1>4, <2>1, <3>1 DEF IInv, SnapshotsOK, Running
  <2>2. ASSUME NEW s \in Conns, pit'[s] = "closed"
        PROVE  \E j \in Conns : stage'[j] = "closed" /\ snap'[j] = s
                                /\ acked'[j] = 0
    <3>1. PICK j \in Conns : stage[j] = "closed" /\ snap[j] = s /\ acked[j] = 0
      BY <1>2, <2>2 DEF IInv, SnapshotsOK
    <3> QED
      BY <1>2, <1>4, <3>1
  <2>3. ASSUME NEW j \in Conns, snap'[j] # 0
        PROVE  snap'[j] \in Conns /\ pit'[snap'[j]] # "none"
    BY <1>2, <1>3, <1>4, <1>5, <2>3 DEF IInv, SnapshotsOK
  <2> QED
    BY <2>1, <2>2, <2>3 DEF SnapshotsOK
<1>9. CursorOK' /\ ReceivedInOrder' /\ CompleteMeansAll'
  BY <1>2 DEF IInv, CursorOK, ReceivedInOrder, CompleteMeansAll, HasCursor
<1>10. ListeningOK'
  BY <1>2, <1>3, <1>5 DEF ListeningOK, LastAcked, HasCursor, Active, Unused
<1> QED
  BY <1>7, <1>8, <1>9, <1>10

\* Connections that are answered without reading.
LEMMA AnsweredStep ==
  ASSUME IInv, NEW i \in Conns,
         ConnectReplay(i) \/ ConnectExpired(i) \/ ConnectRejected(i)
  PROVE  /\ SnapshotsOK' /\ ConnectionsOK' /\ CursorOK' /\ ListeningOK'
         /\ ReceivedInOrder' /\ CompleteMeansAll'
<1>1. TypeOK
  BY DEF IInv
<1>2. /\ stage[i] = "unused" /\ link = 0 /\ HasCursor /\ Goto(i, "closed")
      /\ UNCHANGED <<pit, total, snap, base, taken, after, short, fetched,
                     acked, link, lastId, log>>
      /\ client' = "complete" => lastId.done
  BY DEF ConnectReplay, ConnectExpired, ConnectRejected, Answered, IsNext,
     esVars, serverVars
<1>3. /\ stage'[i] = "closed"
      /\ \A j \in Conns : j # i => stage'[j] = stage[j]
  BY <1>1, <1>2 DEF Goto, TypeOK
<1>4. ConnectionOK(i)'
  BY <1>3, ClosedConnection
<1>5. \A j \in Conns : j # i => ConnectionOK(j)'
  BY <1>2, <1>3, ConnectionFrame DEF IInv
<1>6. SnapshotsOK'
  BY <1>2, <1>3 DEF IInv, SnapshotsOK, Running, Active
<1>7. CursorOK' /\ ReceivedInOrder' /\ ListeningOK'
  BY <1>2 DEF IInv, CursorOK, ReceivedInOrder, ListeningOK, HasCursor
<1>8. CompleteMeansAll'
  BY <1>2 DEF IInv, CursorOK, CompleteMeansAll
<1> QED
  BY <1>4, <1>5, <1>6, <1>7, <1>8 DEF ConnectionsOK

\* The steps that are no connection's.
LEMMA AroundStep ==
  ASSUME IInv,
         Drop \/ Tick \/ Exit \/ Start \/ Stopped \/ UNCHANGED vars
  PROVE  /\ SnapshotsOK' /\ ConnectionsOK' /\ CursorOK' /\ ListeningOK'
         /\ ReceivedInOrder' /\ CompleteMeansAll'
<1>1. TypeOK
  BY DEF IInv
<1>2. /\ UNCHANGED <<pit, total, snap, acked, lastId, log, client>>
      /\ link' = link \/ link' = 0
  BY DEF Drop, Tick, Exit, Start, Stopped, vars, serverVars, esVars, clientVars
<1>3. CursorOK' /\ ReceivedInOrder' /\ CompleteMeansAll'
  BY <1>2 DEF IInv, CursorOK, ReceivedInOrder, CompleteMeansAll, HasCursor
<1>4. CASE Exit
  <2>1. /\ link' = 0
        /\ \A j \in Conns :
             /\ stage'[j] = IF stage[j] = "unused" THEN "unused" ELSE "closed"
             /\ base'[j] = 0 /\ taken'[j] = 0 /\ after'[j] = 0
             /\ short'[j] = FALSE /\ fetched'[j] = "none"
    BY <1>1, <1>4 DEF Exit, TypeOK
  <2>2. \A j \in Conns : stage'[j] \in {"unused", "closed"}
    BY <2>1
  <2>3. ASSUME NEW j \in Conns
        PROVE  ConnectionOK(j)'
    <3>1. stage'[j] = "unused" => Unused(j) /\ stage[j] = "unused"
      BY <2>1 DEF IInv, ConnectionsOK, ConnectionOK
    <3>2. stage'[j] = "unused" => Unused(j)'
      BY <1>2, <2>1, <3>1 DEF Unused
    <3> QED
      BY <2>2, <3>2 DEF ConnectionOK, Running, Active
  <2>4. SnapshotsOK'
    <3>1. \A j \in Conns : ~Running(j)'
      BY <2>2 DEF Running, Active
    <3>2. \A j \in Conns : stage[j] = "closed" => stage'[j] = "closed"
      BY <2>1
    <3> QED
      BY <1>2, <3>1, <3>2 DEF IInv, SnapshotsOK
  <2>5. ListeningOK'
    BY <2>1 DEF ListeningOK
  <2> QED
    BY <1>3, <2>3, <2>4, <2>5 DEF ConnectionsOK
<1>5. CASE Drop \/ Tick \/ Start \/ Stopped \/ UNCHANGED vars
  <2>1. UNCHANGED <<stage, base, taken, after, short, fetched>>
    BY <1>5 DEF Drop, Tick, Start, Stopped, vars, serverVars
  <2>2. \A j \in Conns : ConnectionOK(j)'
    BY <1>2, <2>1, ConnectionFrame DEF IInv
  <2>3. SnapshotsOK'
    BY <1>2, <2>1 DEF IInv, SnapshotsOK, Running
  <2>4. ListeningOK'
    BY <1>2, <2>1 DEF IInv, ListeningOK, LastAcked, HasCursor
  <2> QED
    BY <1>3, <2>2, <2>3, <2>4 DEF ConnectionsOK
<1> QED
  BY <1>4, <1>5

LEMMA StepInv == IInv /\ [Next]_vars => IInv'
<1> SUFFICES ASSUME IInv, [Next]_vars
             PROVE  /\ SnapshotsOK' /\ ConnectionsOK' /\ CursorOK'
                    /\ ListeningOK' /\ ReceivedInOrder' /\ CompleteMeansAll'
  BY TypeStep DEF IInv
<1>1. CASE Drop \/ Tick \/ Exit \/ Start \/ Stopped \/ UNCHANGED vars
  BY <1>1, AroundStep
<1>2. ASSUME NEW i \in Conns,
             \/ EmitMeta(i) \/ FirstPage(i) \/ Prefetch(i) \/ Take(i)
             \/ NextPage(i)
      PROVE  /\ SnapshotsOK' /\ ConnectionsOK' /\ CursorOK'
             /\ ListeningOK' /\ ReceivedInOrder' /\ CompleteMeansAll'
  BY <1>2, ReadStep
<1>3. ASSUME NEW i \in Conns,
             \/ ConnectFresh(i) \/ ConnectOpenLost(i) \/ ConnectResumed(i)
             \/ ConnectReplay(i) \/ ConnectExpired(i) \/ ConnectRejected(i)
      PROVE  /\ SnapshotsOK' /\ ConnectionsOK' /\ CursorOK'
             /\ ListeningOK' /\ ReceivedInOrder' /\ CompleteMeansAll'
  BY <1>3, OpenStep, ResumedStep, AnsweredStep
<1>4. ASSUME NEW i \in Conns,
             \/ Emit(i) \/ EmitThenFail(i) \/ Finish(i) \/ Fail(i)
             \/ ClosePIT(i)
      PROVE  /\ SnapshotsOK' /\ ConnectionsOK' /\ CursorOK'
             /\ ListeningOK' /\ ReceivedInOrder' /\ CompleteMeansAll'
  BY <1>4, DeliveringStep, FinishStep, FailStep, CloseStep
<1> QED
  BY <1>1, <1>2, <1>3, <1>4 DEF Next

-----------------------------------------------------------------------------
(* The theorems.                                                           *)

\* Along every run each connection's positions are in order, the connection
\* the client listens to stands at the end of the client's log, and only a
\* connection that acknowledged nothing has closed a snapshot (StreamRaw,
\* rawStreamIter and closePIT).
THEOREM ResumeInvariant == Spec => []IInv
<1>1. Init => IInv
  BY InitInv
<1>2. IInv /\ [Next]_vars => IInv'
  BY StepInv
<1> QED
  BY <1>1, <1>2, PTL DEF Spec

\* Every variable stays in its type.
THEOREM TypeCorrect == Spec => []TypeOK
<1>1. IInv => TypeOK
  BY DEF IInv
<1> QED
  BY <1>1, ResumeInvariant, PTL

\* However many connections it takes, lost ones, failed ones and restarts of
\* the server included, the client gets the records of one snapshot in order,
\* none missing and none twice, and its cursor is right behind the last one.
THEOREM AlwaysReceivedInOrder == Spec => []ReceivedInOrder
<1>1. IInv => ReceivedInOrder
  BY DEF IInv
<1> QED
  BY <1>1, ResumeInvariant, PTL

\* A client that was told "complete" has every record of the snapshot its
\* cursor names (the done cursor of StreamDone, and its replay).
THEOREM AlwaysCompleteMeansAll == Spec => []CompleteMeansAll
<1>1. IInv => CompleteMeansAll
  BY DEF IInv
<1> QED
  BY <1>1, ResumeInvariant, PTL

\* While every ended connection of its snapshot has acknowledged a batch, a
\* cursor's snapshot is open (closePIT).
THEOREM AlwaysDeliveredCursorUsable == Spec => []DeliveredCursorUsable
<1>1. ASSUME IInv
      PROVE  DeliveredCursorUsable
  <2>1. SUFFICES
          ASSUME HasCursor,
                 \A i \in Conns :
                   stage[i] = "closed" /\ snap[i] = lastId.pit => acked[i] # 0
          PROVE  pit[lastId.pit] = "open"
    BY DEF DeliveredCursorUsable
  <2>2. lastId.pit \in Conns /\ pit[lastId.pit] # "none"
    BY <1>1, <2>1 DEF IInv, CursorOK
  <2>3. pit[lastId.pit] # "closed"
    BY <1>1, <2>1, <2>2 DEF IInv, SnapshotsOK
  <2>4. pit[lastId.pit] \in {"none", "open", "closed"}
    BY <1>1, <2>2 DEF IInv, TypeOK
  <2> QED
    BY <2>2, <2>3, <2>4
<1> QED
  BY <1>1, ResumeInvariant, PTL

-----------------------------------------------------------------------------
(* One read of one snapshot.                                               *)

\* A refusal is final from the start.
LEMMA InitRefused == Init => RefusedOK
BY DEF Init, RefusedOK, NoCursor, HasCursor

\* The cursor, the client and the clock stay: nothing that was refused is
\* accepted.
LEMMA RefusedFrame ==
  ASSUME IInv, RefusedOK, UNCHANGED <<now, stableKey, process, lastId, client>>,
         link' # 0 => ~lastId.done
  PROVE  RefusedOK'
BY DEF RefusedOK, HasCursor, Fresh, Signed, Key

\* A connection the client listens to, and its snapshot.
LEMMA ListenedTo ==
  ASSUME IInv, link # 0
  PROVE  /\ link \in Conns /\ client = "following" /\ stage[link] \in Active
         /\ snap[link] \in Conns /\ snap[link] # 0
         /\ LastAcked(link) = Len(log) /\ Running(link)
         /\ HasCursor => lastId.pit = snap[link]
BY ConnNumbers, RunningFacts DEF IInv, ListeningOK, Running

\* Every step keeps a refusal final.
LEMMA RefusedStep ==
  ASSUME IInv, RefusedOK, [Next]_vars
  PROVE  RefusedOK'
<1> DEFINE Frame == /\ UNCHANGED <<now, stableKey, process, lastId, client>>
                    /\ link' # 0 => ~lastId.done
<1>0. /\ TypeOK /\ process \in Nat /\ now \in Nat /\ stableKey \in BOOLEAN
      /\ lastId \in Cursors /\ Key \in Nat /\ Key <= process
  BY DEF IInv, TypeOK, Key
<1>1. CASE Drop \/ Exit \/ Stopped \/ UNCHANGED vars
  <2>1. Frame
    BY <1>1 DEF Drop, Exit, Stopped, vars, clientVars, processVars, RefusedOK
  <2> QED
    BY <2>1, RefusedFrame
<1>2. CASE Tick \/ Start
  BY <1>0, <1>2 DEF Tick, Start, clientVars, processVars, RefusedOK, HasCursor,
                    Fresh, Signed, Key, Cursors
<1>3. ASSUME NEW i \in Conns
      PROVE  /\ ConnectFresh(i) \/ ConnectOpenLost(i) \/ ConnectResumed(i)
                  => RefusedOK'
             /\ EmitMeta(i) \/ Prefetch(i) \/ Take(i) \/ NextPage(i)
                  \/ ClosePIT(i) \/ Fail(i) => RefusedOK'
  <2>1. CASE ConnectFresh(i) \/ ConnectOpenLost(i) \/ ConnectResumed(i)
    <3>1. Frame
      BY <2>1 DEF ConnectFresh, ConnectOpenLost, ConnectResumed, Opened,
                  RefusedOK, processVars
    <3> QED
      BY <3>1, RefusedFrame
  <2>2. CASE EmitMeta(i) \/ Prefetch(i) \/ Take(i) \/ NextPage(i)
             \/ ClosePIT(i) \/ Fail(i)
    <3>1. Frame
      BY <2>2 DEF EmitMeta, Prefetch, Take, NextPage, ClosePIT, Fail, Fails,
                  clientVars, RefusedOK, processVars
    <3> QED
      BY <3>1, RefusedFrame
  <2> QED
    BY <2>1, <2>2
<1>4. ASSUME NEW i \in Conns, FirstPage(i)
      PROVE  RefusedOK'
  <2>1. /\ UNCHANGED <<now, processVars, lastId>>
        /\ link' \in {0, link}
        /\ client' = client \/ (link # 0 /\ client' = "expired")
    BY <1>4, ConnNumbers DEF FirstPage, Fails
  <2> QED
    BY <2>1 DEF RefusedOK, processVars, HasCursor, Fresh, Signed, Key
<1>5. ASSUME NEW i \in Conns, Deliver(i), UNCHANGED <<now, processVars>>,
             link' \in {0, link},
             client' = client \/ (link = i /\ client' = "expired")
      PROVE  RefusedOK'
  <2>1. CASE link # i
    <3>1. UNCHANGED lastId /\ client' = client
      BY <1>5, <2>1 DEF Deliver
    <3> QED
      BY <1>5, <3>1, RefusedFrame DEF RefusedOK, processVars
  <2>2. CASE link = i
    <3>1. lastId' = Cursor(i, FALSE) /\ client' \in {"following", "expired"}
      BY <1>5, <2>2, ListenedTo, ConnNumbers DEF Deliver
    <3>2. ~lastId'.done /\ lastId'.key = Key
      BY <3>1 DEF Cursor
    <3> QED
      BY <1>0, <1>5, <3>1, <3>2 DEF RefusedOK, processVars
  <2> QED
    BY <2>1, <2>2
<1>6. ASSUME NEW i \in Conns, Emit(i) \/ EmitThenFail(i)
      PROVE  RefusedOK'
  <2>1. /\ Deliver(i) /\ UNCHANGED <<now, processVars>> /\ link' \in {0, link}
        /\ client' = client \/ (link = i /\ client' = "expired")
    BY <1>6 DEF Emit, EmitThenFail, Fails
  <2> QED
    BY <1>5, <2>1
<1>7. ASSUME NEW i \in Conns, Finish(i)
      PROVE  RefusedOK'
  <2>1. UNCHANGED <<now, processVars>>
    BY <1>7 DEF Finish
  <2>2. CASE link # i
    BY <1>7, <2>1, <2>2, RefusedFrame DEF Finish, RefusedOK, processVars
  <2>3. CASE link = i
    <3>1. /\ link' = 0 /\ client = "following"
          /\ client' \in {"following", "complete"}
      BY <1>7, <2>3, ListenedTo, ConnNumbers DEF Finish
    <3>2. lastId' = lastId \/ lastId' = Cursor(i, Drained(i))
      BY <1>7, <2>3 DEF Finish
    <3>3. CASE lastId' = lastId
      BY <2>1, <3>1, <3>3 DEF RefusedOK, processVars, HasCursor
    <3>4. CASE lastId' = Cursor(i, Drained(i))
      <4>1. lastId'.key = Key /\ lastId'.pit = snap[i] /\ snap[i] # 0
        BY <2>3, <3>4, ListenedTo, ConnNumbers DEF Cursor
      <4> QED
        BY <1>0, <2>1, <3>1, <4>1 DEF RefusedOK, processVars, HasCursor
    <3> QED
      BY <3>2, <3>3, <3>4
  <2> QED
    BY <2>2, <2>3
<1>8. ASSUME NEW i \in Conns,
             ConnectReplay(i) \/ ConnectExpired(i) \/ ConnectRejected(i)
      PROVE  RefusedOK'
  <2>1. /\ UNCHANGED <<now, processVars, link, lastId>>
        /\ \/ client' = "complete"
           \/ client' = "expired" /\ ~Fresh(lastId)
           \/ client' = "rejected" /\ ~Signed(lastId)
    BY <1>8 DEF ConnectReplay, ConnectExpired, ConnectRejected, Answered
  <2> QED
    BY <2>1 DEF RefusedOK, processVars, HasCursor, Fresh, Signed, Key
<1> QED
  BY <1>1, <1>2, <1>3, <1>4, <1>6, <1>7, <1>8 DEF Next

\* What is read has a number of records.
LEMMA ReadingType == IInv => Reading \in Nat
<1> SUFFICES ASSUME IInv PROVE Reading \in Nat
  OBVIOUS
<1>1. total \in [Conns -> Nat]
  BY DEF IInv, TypeOK
<1>2. HasCursor => lastId.pit \in Conns
  BY DEF IInv, CursorOK
<1>3. link # 0 => snap[link] \in Conns
  BY ListenedTo
<1> QED
  BY <1>1, <1>2, <1>3 DEF Reading

\* Without a cursor nothing was received, and a client that no longer follows
\* listens to nobody.
LEMMA NothingYet ==
  ASSUME IInv, ~HasCursor
  PROVE  log = <<>> /\ (client # "following" => Reading = 0)
<1>1. log = <<>>
  BY DEF IInv, ReceivedInOrder
<1>2. client # "following" => link = 0
  BY DEF IInv, ListeningOK
<1> QED
  BY <1>1, <1>2 DEF Reading

\* A step that gives the client neither records nor an outcome goes on with
\* the read, or begins it again.
LEMMA QuietStep ==
  ASSUME IInv, IInv', UNCHANGED <<log, client, lastId>>,
         HasCursor => total'[lastId.pit] = total[lastId.pit]
  PROVE  OneRead!Begin \/ UNCHANGED OneRead!readVars
<1>1. CASE HasCursor
  <2>1. HasCursor' /\ lastId' = lastId
    BY <1>1 DEF HasCursor
  <2>2. Reading' = Reading
    BY <1>1, <2>1 DEF Reading
  <2> QED
    BY <2>2 DEF OneRead!readVars
<1>2. CASE ~HasCursor
  <2>1. ~HasCursor'
    BY <1>2 DEF HasCursor
  <2>2. log = <<>> /\ (client # "following" => Reading = 0 /\ Reading' = 0)
    <3>1. client' # "following" => link' = 0
      BY DEF IInv, ListeningOK
    <3> QED
      BY <1>2, <2>1, <3>1, NothingYet DEF Reading
  <2>3. Reading' \in Nat
    <3>1. (IInv => Reading \in Nat)'
      BY ReadingType, PTL
    <3> QED
      BY <3>1
  <2> QED
    BY <2>2, <2>3 DEF OneRead!Begin, OneRead!readVars
<1> QED
  BY <1>1, <1>2

\* A step that refuses the client.
LEMMA RefusingStep ==
  ASSUME IInv, UNCHANGED <<log, lastId, total>>, link' = 0,
         \/ client' = "expired" /\ client \in {"following", "complete"}
         \/ client' = "rejected" /\ client \in {"following", "complete", "expired"}
  PROVE  OneRead!Refuse
<1>1. OneRead!Rank[client] < OneRead!Rank[client']
  BY DEF OneRead!Rank
<1>2. HasCursor => Reading' = Reading
  BY DEF HasCursor, Reading
<1> QED
  BY <1>1, <1>2, NothingYet DEF OneRead!Refuse

\* The log is a number of first records.
LEMMA LogIsFirst ==
  ASSUME IInv
  PROVE  Len(log) \in Nat /\ log = OneRead!First(Len(log))
<1>1. log \in Seq(Nat) /\ \A k \in DOMAIN log : log[k] = k
  BY DEF IInv, TypeOK, ReceivedInOrder
<1>2. Len(log) \in Nat /\ log = [k \in 1..Len(log) |-> log[k]]
  BY <1>1
<1> QED
  BY <1>1, <1>2 DEF OneRead!First

\* A batch that reaches the client continues the read.
LEMMA ReceivingStep ==
  ASSUME IInv, IInv', NEW i \in Conns, stage[i] \in {"emit", "flush"},
         Deliver(i), total' = total, link = i,
         client' = client \/ client' = "expired"
  PROVE  OneRead!Receive
<1>1. /\ link # 0 /\ snap[i] \in Conns /\ snap[i] # 0 /\ client = "following"
      /\ LastAcked(i) = Len(log) /\ Running(i)
      /\ HasCursor => lastId.pit = snap[i]
  BY ListenedTo, ConnNumbers
<1>2. Reading = total[snap[i]]
  BY <1>1 DEF Reading
<1>3. lastId' = Cursor(i, FALSE) /\ log' = log \o BatchOf(i)
  BY DEF Deliver
<1>4. lastId'.pit = snap[i] /\ HasCursor'
  BY <1>1, <1>3 DEF Cursor, HasCursor
<1>5. Reading' = Reading
  BY <1>2, <1>4 DEF Reading
<1>6. Len(log') <= Reading
  BY <1>2, <1>4 DEF IInv, CursorOK
<1>7. Len(log) < Len(log')
  <2>1. LastAcked(i) < taken[i] /\ taken[i] \in Nat
    BY <1>1, RunningFacts DEF StageOK, IInv, TypeOK
  <2>2. BatchOf(i) \in Seq(Nat) /\ Len(BatchOf(i)) = taken[i] - LastAcked(i)
    BY <2>1, BatchFacts DEF IInv
  <2>3. log \in Seq(Nat) /\ Len(log) \in Nat
    BY DEF IInv, TypeOK
  <2>4. Len(log') = Len(log) + Len(BatchOf(i))
    BY <1>3, <2>2, <2>3, ConcatProperties
  <2> QED
    BY <1>1, <2>1, <2>2, <2>3, <2>4
<1>8. Len(log') \in Nat /\ log' = OneRead!First(Len(log'))
  <2>1. (IInv => Len(log) \in Nat /\ log = OneRead!First(Len(log)))'
    BY LogIsFirst, PTL
  <2> QED
    BY <2>1
<1>9. Reading \in Nat /\ Len(log) \in Nat
  BY ReadingType, LogIsFirst
<1>10. Len(log') \in 1..Reading
  BY <1>6, <1>7, <1>8, <1>9
<1> QED
  BY <1>1, <1>5, <1>7, <1>8, <1>10 DEF OneRead!Receive

\* The end of a stream the client listens to.
LEMMA FinishingStep ==
  ASSUME IInv, IInv', NEW i \in Conns, Finish(i)
  PROVE  OneRead!Next \/ UNCHANGED OneRead!readVars
<1>1. UNCHANGED <<total, log>> /\ stage[i] = "finish"
  BY DEF Finish, esVars
<1>2. CASE link # i
  BY <1>1, <1>2, QuietStep DEF Finish, OneRead!Next
<1>3. CASE link = i
  <2>1. /\ link # 0 /\ snap[i] \in Conns /\ snap[i] # 0 /\ client = "following"
        /\ LastAcked(i) = Len(log) /\ Running(i)
        /\ HasCursor => lastId.pit = snap[i]
    BY <1>3, ListenedTo, ConnNumbers
  <2>2. Reading = total[snap[i]]
    BY <1>3, <2>1 DEF Reading
  <2>3. /\ link' = 0
        /\ lastId' = IF taken[i] # 0 THEN Cursor(i, Drained(i)) ELSE lastId
        /\ client' = IF Drained(i) THEN "complete" ELSE client
    BY <1>3 DEF Finish
  <2>4. HasCursor' => Reading' = Reading
    <3>1. HasCursor' => lastId'.pit = snap[i]
      BY <2>1, <2>3 DEF HasCursor, Cursor
    <3> QED
      BY <1>1, <2>2, <3>1 DEF Reading
  <2>5. ~HasCursor' => log = <<>> /\ Reading' = 0
    <3>1. (IInv /\ ~HasCursor => log = <<>>)'
      BY NothingYet, PTL
    <3> QED
      BY <1>1, <2>3, <3>1 DEF Reading
  <2>6. CASE Drained(i)
    <3>1. Len(log) = total[snap[i]]
      BY <1>1, <2>1, <2>6, RunningFacts DEF Drained, StageOK, PositionsOK
    <3>2. ~HasCursor' => Reading = 0
      BY <2>2, <2>5, <3>1
    <3>3. Reading' = Reading
      BY <2>4, <2>5, <3>2
    <3> QED
      BY <1>1, <2>1, <2>2, <2>3, <2>6, <3>1, <3>3
         DEF OneRead!Next, OneRead!Complete
  <2>7. CASE ~Drained(i)
    <3>1. Reading' \in Nat
      <4>1. (IInv => Reading \in Nat)'
        BY ReadingType, PTL
      <4> QED
        BY <4>1
    <3> QED
      BY <1>1, <2>1, <2>3, <2>4, <2>5, <2>7, <3>1
         DEF OneRead!Next, OneRead!Begin, OneRead!readVars
  <2> QED
    BY <2>6, <2>7
<1> QED
  BY <1>2, <1>3

\* Every step is one of the read, or none.
LEMMA ReadStepRefines ==
  ASSUME IInv, IInv', RefusedOK, [Next]_vars
  PROVE  OneRead!Next \/ UNCHANGED OneRead!readVars
<1> DEFINE Quiet == /\ UNCHANGED <<log, client, lastId>>
                    /\ HasCursor => total'[lastId.pit] = total[lastId.pit]
<1>0. Quiet => OneRead!Next \/ UNCHANGED OneRead!readVars
  BY QuietStep DEF OneRead!Next
<1>1. CASE Drop \/ Exit \/ Stopped \/ Tick \/ Start \/ UNCHANGED vars
  <2>1. Quiet
    BY <1>1 DEF Drop, Exit, Stopped, Tick, Start, vars, clientVars, esVars
  <2> QED
    BY <1>0, <2>1
<1>2. ASSUME NEW i \in Conns,
             ConnectFresh(i) \/ ConnectOpenLost(i) \/ ConnectResumed(i)
      PROVE  OneRead!Next \/ UNCHANGED OneRead!readVars
  <2>1. Quiet
    BY <1>2 DEF ConnectFresh, ConnectOpenLost, ConnectResumed, Opened, esVars
  <2> QED
    BY <1>0, <2>1
<1>3. ASSUME NEW i \in Conns,
             EmitMeta(i) \/ Prefetch(i) \/ Take(i) \/ NextPage(i) \/ Fail(i)
             \/ ClosePIT(i)
      PROVE  OneRead!Next \/ UNCHANGED OneRead!readVars
  <2>1. Quiet
    BY <1>3 DEF EmitMeta, Prefetch, Take, NextPage, Fail, Fails, ClosePIT,
                clientVars, esVars
  <2> QED
    BY <1>0, <2>1
<1>4. ASSUME NEW i \in Conns, FirstPage(i)
      PROVE  OneRead!Next \/ UNCHANGED OneRead!readVars
  <2>1. /\ UNCHANGED <<log, lastId, total>>
        /\ \/ client' = client
           \/ link = i /\ link' = 0 /\ client' = "expired"
    BY <1>4 DEF FirstPage, Fails
  <2>2. CASE client' = client
    BY <1>0, <2>1, <2>2
  <2>3. CASE link = i /\ link' = 0 /\ client' = "expired"
    <3>1. client = "following"
      BY <2>3, ListenedTo, ConnNumbers
    <3> QED
      BY <2>1, <2>3, <3>1, RefusingStep DEF OneRead!Next
  <2> QED
    BY <2>1, <2>2, <2>3
<1>5. ASSUME NEW i \in Conns, Emit(i) \/ EmitThenFail(i)
      PROVE  OneRead!Next \/ UNCHANGED OneRead!readVars
  <2>1. /\ Deliver(i) /\ stage[i] \in {"emit", "flush"} /\ total' = total
        /\ link = i => client' = client \/ client' = "expired"
        /\ link # i => client' = client
    BY <1>5 DEF Emit, EmitThenFail, Fails, esVars
  <2>2. CASE link = i
    BY <2>1, <2>2, ReceivingStep DEF OneRead!Next
  <2>3. CASE link # i
    BY <1>0, <2>1, <2>3 DEF Deliver
  <2> QED
    BY <2>2, <2>3
<1>6. ASSUME NEW i \in Conns, Finish(i)
      PROVE  OneRead!Next \/ UNCHANGED OneRead!readVars
  BY <1>6, FinishingStep
<1>7. ASSUME NEW i \in Conns,
             ConnectReplay(i) \/ ConnectExpired(i) \/ ConnectRejected(i)
      PROVE  OneRead!Next \/ UNCHANGED OneRead!readVars
  <2>1. /\ UNCHANGED <<log, lastId, total, link>> /\ link = 0 /\ HasCursor
        /\ client \in {"following", "complete", "expired", "rejected"}
    BY <1>7 DEF ConnectReplay, ConnectExpired, ConnectRejected, Answered,
                esVars, IsNext, IInv, TypeOK
  <2>2. CASE ConnectReplay(i)
    <3>1. /\ client' = "complete" /\ Signed(lastId) /\ Fresh(lastId)
          /\ lastId.done
      BY <2>2 DEF ConnectReplay, Answered
    <3>2. client \in {"following", "complete"}
      BY <2>1, <3>1 DEF RefusedOK
    <3>3. Len(log) = Reading /\ Reading' = Reading
      BY <2>1, <3>1 DEF IInv, CursorOK, Reading, HasCursor
    <3> QED
      BY <2>1, <3>1, <3>2, <3>3
         DEF OneRead!Next, OneRead!Complete, OneRead!readVars
  <2>3. CASE ConnectExpired(i)
    <3>1. client' = "expired" /\ client # "expired" /\ client # "rejected"
      BY <2>3 DEF ConnectExpired, Answered, RefusedOK
    <3> QED
      BY <2>1, <3>1, RefusingStep DEF OneRead!Next
  <2>4. CASE ConnectRejected(i)
    <3>1. client' = "rejected" /\ client # "rejected"
      BY <2>4 DEF ConnectRejected, Answered
    <3> QED
      BY <2>1, <3>1, RefusingStep DEF OneRead!Next
  <2> QED
    BY <1>7, <2>2, <2>3, <2>4
<1> QED
  BY <1>1, <1>2, <1>3, <1>4, <1>5, <1>6, <1>7 DEF Next

\* Whatever happens to connections and processes, the client sees one read of
\* one snapshot, from the first record on, that completes only when it has
\* them all, and whose refusal is final.
THEOREM ResumeRefinesRead == Spec => RefinesRead
<1>1. Init => OneRead!Init
  BY DEF Init, OneRead!Init, Reading, HasCursor, NoCursor
<1>2. Init => RefusedOK
  BY InitRefused
<1>3. IInv /\ RefusedOK /\ [Next]_vars => RefusedOK'
  BY RefusedStep
<1>4. IInv /\ IInv' /\ RefusedOK /\ [Next]_vars
        => [OneRead!Next]_(OneRead!readVars)
  BY ReadStepRefines
<1> QED
  BY <1>1, <1>2, <1>3, <1>4, ResumeInvariant, PTL
     DEF Spec, RefinesRead, OneRead!Spec
=============================================================================
