-------------------------- MODULE StreamLoop_proofs ---------------------------
(***************************************************************************)
(* Proofs about StreamLoop, for every finite set of requests, every limit  *)
(* on streams and bytes, and every number of batches.                      *)
(***************************************************************************)
EXTENDS StreamLoop, FiniteSetTheorems, SequenceTheorems, TLAPS

USE LimitsAssumption, SizesAssumption

-----------------------------------------------------------------------------
(* Type correctness.                                                       *)

\* The cursor of a batch is a number, and so is that of a StreamDone.
LEMMA CursorType ==
  ASSUME TypeOK, NEW r \in Requests
  PROVE  /\ \A n \in Nat : CursorAfter(r, n) \in Nat
         /\ DoneCursor(r) \in Nat
<1>1. kind[r].base \in Nat
  BY KindsAssumption DEF TypeOK
<1>2. offered[r] \in Nat
  BY DEF TypeOK
<1> QED
  BY <1>1, <1>2 DEF CursorAfter, DoneCursor

\* An emission that is written is a message.
LEMMA EmissionIsMessage == Emission \subseteq Message
  BY DEF Message

\* The closing messages are messages.
LEMMA ClosingMessages ==
  ASSUME TypeOK, NEW r \in Requests
  PROVE  /\ SuccessDone(r) \in Message /\ FailedDone(r) \in Message
         /\ ErrorMessage(result[r].err) \in Message
<1>1. result[r].err \in Errors /\ returned[r] \in Nat /\ bytes[r] \in Nat
      /\ cursor[r] \in Nat
  BY DEF TypeOK, Results
<1>2. DoneCursor(r) \in Nat
  BY CursorType
<1> DEFINE Reasons == {"exhausted", "record_limit"} \cup {Kind(e) : e \in Errors}
           Done == [type : {"done"}, status : {"success", "partial", "failed"},
                    complete : BOOLEAN, truncated : BOOLEAN, returned : Nat,
                    bytes : Nat, id : Nat, reason : Reasons]
<1>3. Kind(result[r].err) \in {Kind(e) : e \in Errors}
  BY <1>1
<1>4. SuccessDone(r) \in Done
  BY <1>1, <1>2 DEF SuccessDone
<1>5. FailedDone(r) \in Done
  BY <1>1, <1>3 DEF FailedDone
<1>6. ErrorMessage(result[r].err) \in [type : {"error"},
                                       kind : {Kind(e) : e \in Errors}]
  BY <1>3 DEF ErrorMessage
<1> QED
  BY <1>4, <1>5, <1>6 DEF Message

LEMMA InitType == Init => TypeOK
<1> SUFFICES ASSUME Init PROVE TypeOK
  OBVIOUS
<1>1. (CHOOSE s \in Sizes : TRUE) \in Sizes
  OBVIOUS
<1>2. msg \in [Requests -> Emission]
  BY <1>1 DEF Init, Emission
<1>3. NoResult \in Results
  BY DEF NoResult, Results, Errors
<1> QED
  BY <1>2, <1>3 DEF Init, TypeOK, Errors

\* The closing messages extend the wire by messages.
LEMMA WriteLastType ==
  ASSUME TypeOK, NEW r \in Requests, NEW ms \in Seq(Message),
         WriteLast(r, ms)
  PROVE  wire' \in [Requests -> Seq(Message)]
<1>1. PICK k \in 0..Len(ms) :
        wire' = [wire EXCEPT ![r] = @ \o SubSeq(ms, 1, k)]
  BY DEF WriteLast
<1>2. SubSeq(ms, 1, k) \in Seq(Message)
  OBVIOUS
<1>3. wire \in [Requests -> Seq(Message)]
  BY DEF TypeOK
<1>4. wire[r] \o SubSeq(ms, 1, k) \in Seq(Message)
  BY <1>2, <1>3
<1> QED
  BY <1>1, <1>3, <1>4

\* A request that is being served holds a slot.
LEMMA SlotHeld ==
  ASSUME SlotsTaken, NEW r \in Requests, Active(r)
  PROVE  slots \in Nat \ {0}
<1> DEFINE A == {q \in Requests : Active(q)}
<1>1. IsFiniteSet(A)
  BY RequestsAssumption, FS_Subset
<1>2. A # {}
  OBVIOUS
<1>3. Cardinality(A) \in Nat /\ Cardinality(A) # 0
  BY <1>1, <1>2, FS_CardinalityType, FS_EmptySet
<1> QED
  BY <1>3 DEF SlotsTaken

\* Every step keeps the types.  That slots stays a natural number rests on
\* its meaning, that a cause is an error on what the handler waits for.
LEMMA NextType == IInv /\ [Next]_vars => TypeOK'
<1> SUFFICES ASSUME TypeOK, SlotsTaken, \A r \in Requests : RequestInv(r),
                    [Next]_vars
             PROVE  TypeOK'
  BY DEF IInv
<1> USE DEF TypeOK
<1>1. CASE UNCHANGED vars \/ Terminated
  BY <1>1 DEF vars, handlerVars, producerVars, Terminated
<1>2. ASSUME NEW r \in Requests,
             Refuse(r) \/ Busy(r) \/ Start(r) \/ PingFails(r)
      PROVE  TypeOK'
  <2> USE DEF producerVars
  <2>1. CASE Refuse(r)
    BY <2>1 DEF Refuse
  <2>2. CASE Busy(r)
    BY <2>2 DEF Busy
  <2>3. CASE Start(r)
    BY <2>3 DEF Start
  <2>4. CASE PingFails(r)
    BY <2>4 DEF PingFails
  <2> QED
    BY <1>2, <2>1, <2>2, <2>3, <2>4
<1>3. ASSUME NEW r \in Requests, Timeout(r) \/ ClientLeaves(r)
      PROVE  TypeOK'
  <2> USE DEF handlerVars, producerVars
  <2>1. CASE Timeout(r)
    BY <2>1 DEF Timeout
  <2>2. CASE ClientLeaves(r)
    BY <2>2 DEF ClientLeaves
  <2> QED
    BY <1>3, <2>1, <2>2
<1>4. ASSUME NEW r \in Requests, ProducerStep(r)
      PROVE  TypeOK'
  <2> USE DEF handlerVars
  <2>1. CASE Offer(r)
    <3>1. PICK s \in Sizes :
            IF metaDone[r]
            THEN /\ offered[r] < MaxBatches
                 /\ offered' = [offered EXCEPT ![r] = @ + 1]
                 /\ msg' = [msg EXCEPT ![r] =
                             [type |-> "records", size |-> s,
                              id |-> CursorAfter(r, offered'[r])]]
            ELSE /\ msg' = [msg EXCEPT ![r] = [type |-> "meta", size |-> s,
                                              id |-> 0]]
                 /\ UNCHANGED offered
      BY <2>1 DEF Offer
    <3>2. offered' \in [Requests -> Nat]
      <4>1. CASE metaDone[r]
        <5>1. offered' = [offered EXCEPT ![r] = @ + 1]
          BY <3>1, <4>1
        <5> QED
          BY <5>1
      <4>2. CASE ~metaDone[r]
        BY <3>1, <4>2
      <4> QED
        BY <4>1, <4>2
    <3>3. CursorAfter(r, offered'[r]) \in Nat
      BY <3>2, CursorType
    <3>4. /\ [type |-> "records", size |-> s, id |-> CursorAfter(r, offered'[r])]
                \in Emission
          /\ [type |-> "meta", size |-> s, id |-> 0] \in Emission
      BY <3>3 DEF Emission
    <3>5. msg' \in [Requests -> Emission]
      BY <3>1, <3>4, ZenonT(60)
    <3>6. /\ prod' \in [Requests -> {"none", "work", "offer", "wait", "ended"}]
          /\ ack' \in [Requests -> {"none", "ok", "byte_limit", "closed"}]
          /\ metaDone' \in [Requests -> BOOLEAN]
          /\ UNCHANGED <<handlerVars, perr, finished, kind, ctx, gone>>
      BY <2>1 DEF Offer
    <3> QED
      BY <3>2, <3>5, <3>6
  <2>2. CASE EmitCancelled(r)
    BY <2>2 DEF EmitCancelled, Errors
  <2>3. CASE EmitAcked(r)
    BY <2>3 DEF EmitAcked, Errors
  <2>4. ASSUME NEW res \in Results, ProducerEnd(r, res)
        PROVE  TypeOK'
    BY <2>4 DEF ProducerEnd
  <2>5. CASE ProducerFails(r)
    <3>1. \A e \in Errors : [done |-> "none", err |-> e] \in Results
      BY DEF Results
    <3>2. /\ perr[r] \in Errors /\ "search" \in Errors
          /\ ctx[r] \in Errors \cup {"live"}
      BY DEF Errors
    <3> QED
      BY <2>4, <2>5, <3>1, <3>2 DEF ProducerFails
  <2>6. CASE ProducerDone(r)
    <3>1. \A d \in {"complete", "limit"} :
            [done |-> d, err |-> "none"] \in Results
      BY DEF Results, Errors
    <3> QED
      BY <2>4, <2>6, <3>1 DEF ProducerDone
  <2> QED
    BY <1>4, <2>1, <2>2, <2>3, <2>5, <2>6 DEF ProducerStep
<1>5. ASSUME NEW r \in Requests, Handler(r)
      PROVE  TypeOK'
  <2> USE DEF producerVars
  <2>1. CASE Receive(r)
    BY <2>1 DEF Receive
  <2>2. CASE OverBudget(r)
    BY <2>2 DEF OverBudget
  <2>3. CASE WriteFails(r)
    BY <2>3 DEF WriteFails
  <2>4. CASE WriteOK(r)
    <3>1. msg[r] \in Emission
      OBVIOUS
    <3>2. msg[r].size \in Nat /\ msg[r].id \in Nat
      BY <3>1 DEF Emission
    <3>3. wire' \in [Requests -> Seq(Message)]
      BY <2>4, <3>1, EmissionIsMessage DEF WriteOK
    <3>4. bytes' \in [Requests -> Nat]
      BY <2>4, <3>2 DEF WriteOK
    <3>5. returned' \in [Requests -> Nat] /\ cursor' \in [Requests -> Nat]
      <4>1. \/ /\ returned' = [returned EXCEPT ![r] = @ + 1]
               /\ cursor' = [cursor EXCEPT ![r] = msg[r].id]
            \/ UNCHANGED <<returned, cursor>>
        BY <2>4, Zenon DEF WriteOK
      <4>2. returned' \in [Requests -> Nat]
        <5>1. returned[r] + 1 \in Nat
          OBVIOUS
        <5>2. CASE returned' = [returned EXCEPT ![r] = @ + 1]
          BY <5>1, <5>2
        <5>3. CASE UNCHANGED returned
          BY <5>3
        <5> QED
          BY <4>1, <5>2, <5>3
      <4>3. cursor' \in [Requests -> Nat]
        BY <3>2, <4>1
      <4> QED
        BY <4>2, <4>3
    <3> QED
      BY <2>4, <3>3, <3>4, <3>5 DEF WriteOK
  <2>5. CASE CancelProducer(r)
    BY <2>5 DEF CancelProducer
  <2>6. CASE SeeCtxDone(r)
    BY <2>6 DEF SeeCtxDone
  <2>7. CASE Join(r)
    <3>1. ctx[r] # "live"
      BY <2>7 DEF Join, RequestInv, Finish
    <3>2. \A e \in Errors : [finished[r] EXCEPT !.err = e] \in Results
      <4>1. finished[r] \in Results
        OBVIOUS
      <4> QED
        BY <4>1 DEF Results
    <3>3. ack[r] \in {"byte_limit", "closed"} => ack[r] \in Errors
      BY DEF Errors
    <3>4. ctx[r] \in Errors
      BY <3>1 DEF Errors
    <3>5. result' \in [Requests -> Results]
      BY <2>7, <3>2, <3>3, <3>4 DEF Join
    <3> QED
      BY <2>7, <3>5 DEF Join
  <2>8. CASE SeeFinished(r)
    <3>1. slots - 1 \in Nat
      <4>1. Active(r)
        BY <2>8 DEF SeeFinished, Active
      <4>2. slots \in Nat \ {0}
        BY <4>1, SlotHeld
      <4> QED
        BY <4>2
    <3>2. CASE Replayed(r)
      BY <2>8, <3>1, <3>2 DEF SeeFinished, Leave
    <3>3. CASE ~Replayed(r)
      <4>1. /\ began' = [began EXCEPT ![r] = @ \/ finished[r].err = "none"]
            /\ result' = [result EXCEPT ![r] = finished[r]]
            /\ stage' = [stage EXCEPT ![r] = "close"]
            /\ UNCHANGED <<slots, reply, ctx>>
            /\ UNCHANGED <<broken, wire, returned, bytes, cursor, producerVars,
                           kind, ack, gone>>
        BY <2>8, <3>3, Zenon DEF SeeFinished
      <4>2. began' \in [Requests -> BOOLEAN]
        BY <4>1
      <4> QED
        BY <4>1, <4>2
    <3> QED
      BY <3>2, <3>3
  <2>9. CASE EndStream(r)
    <3>1. slots - 1 \in Nat
      <4>1. Active(r)
        BY <2>9 DEF EndStream, Active
      <4>2. slots \in Nat \ {0}
        BY <4>1, SlotHeld
      <4> QED
        BY <4>2
    <3>2. /\ <<SuccessDone(r)>> \in Seq(Message)
          /\ <<ErrorMessage(result[r].err), FailedDone(r)>> \in Seq(Message)
      BY ClosingMessages
    <3>3. \/ UNCHANGED wire
          \/ WriteLast(r, <<SuccessDone(r)>>)
          \/ WriteLast(r, <<ErrorMessage(result[r].err), FailedDone(r)>>)
      BY <2>9 DEF EndStream
    <3>4. wire' \in [Requests -> Seq(Message)]
      BY <3>2, <3>3, WriteLastType
    <3>5. reply' \in [Requests -> {"none", "refused", "busy", "json",
                                   "nocontent"}]
      BY <2>9 DEF EndStream
    <3> QED
      BY <2>9, <3>1, <3>4, <3>5 DEF EndStream, Leave
  <2> QED
    BY <1>5, <2>1, <2>2, <2>3, <2>4, <2>5, <2>6, <2>7, <2>8, <2>9 DEF Handler
<1> QED
  BY <1>1, <1>2, <1>3, <1>4, <1>5 DEF Next

-----------------------------------------------------------------------------
(* A step of a request leaves the others alone.                            *)

\* What belongs to a request.
Own(r) ==
  <<stage[r], kind[r], began[r], wire[r], reply[r], returned[r], bytes[r],
    cursor[r], result[r], prod[r], offered[r], metaDone[r], msg[r], ack[r],
    perr[r], finished[r], ctx[r]>>

\* The invariant of a request reads nothing else.
LEMMA Frame ==
  ASSUME NEW r \in Requests, RequestInv(r), UNCHANGED Own(r)
  PROVE  RequestInv(r)'
<1> USE DEF Own
<1>1. /\ Sent(r)' = Sent(r)
      /\ \A n : CursorAfter(r, n)' = CursorAfter(r, n)
      /\ DoneCursor(r)' = DoneCursor(r) /\ Active(r)' = Active(r)
  BY DEF Sent, Is, CursorAfter, DoneCursor, Active
<1>2. SuccessDone(r)' = SuccessDone(r) /\ FailedDone(r)' = FailedDone(r)
  BY <1>1 DEF SuccessDone, FailedDone
<1>3. Body(r)'
  BY <1>1 DEF RequestInv, Body
<1>4. Closing(r)'
  BY <1>1, <1>2 DEF RequestInv, Closing
<1>5. Handover(r)'
  BY <1>1 DEF RequestInv, Handover
<1>6. Producer(r)'
  BY <1>1 DEF RequestInv, Producer
<1>7. Finish(r)'
  BY DEF RequestInv, Finish
<1> QED
  BY <1>3, <1>4, <1>5, <1>6, <1>7 DEF RequestInv

\* The steps of a request: those of Next but the end of everything.
Step(r) ==
  \/ Refuse(r) \/ Busy(r) \/ Start(r) \/ PingFails(r)
  \/ Handler(r) \/ ProducerStep(r) \/ Timeout(r) \/ ClientLeaves(r)

\* They change what belongs to that request, and slots.
LEMMA Local ==
  ASSUME TypeOK, NEW r \in Requests, NEW q \in Requests, q # r, Step(r)
  PROVE  UNCHANGED Own(q)
<1> USE DEF TypeOK, Own
<1>1. CASE Refuse(r) \/ Busy(r) \/ Start(r) \/ PingFails(r)
  BY <1>1 DEF Refuse, Busy, Start, PingFails, producerVars
<1>2. CASE Timeout(r) \/ ClientLeaves(r)
  BY <1>2 DEF Timeout, ClientLeaves, handlerVars, producerVars
<1>3. CASE ProducerStep(r)
  <2> USE DEF handlerVars
  <2>1. CASE Offer(r)
    BY <2>1 DEF Offer
  <2>2. CASE EmitCancelled(r) \/ EmitAcked(r)
    BY <2>2 DEF EmitCancelled, EmitAcked
  <2>3. CASE ProducerFails(r) \/ ProducerDone(r)
    BY <2>3 DEF ProducerFails, ProducerDone, ProducerEnd
  <2> QED
    BY <1>3, <2>1, <2>2, <2>3 DEF ProducerStep
<1>4. CASE Handler(r)
  <2> USE DEF producerVars
  <2>1. CASE Receive(r) \/ OverBudget(r) \/ WriteFails(r)
    BY <2>1 DEF Receive, OverBudget, WriteFails
  <2>2. CASE WriteOK(r)
    BY <2>2 DEF WriteOK
  <2>3. CASE CancelProducer(r) \/ SeeCtxDone(r) \/ Join(r)
    BY <2>3, SMTT(60) DEF CancelProducer, SeeCtxDone, Join
  <2>4. CASE SeeFinished(r)
    BY <2>4 DEF SeeFinished, Leave
  <2>5. CASE EndStream(r)
    BY <2>5 DEF EndStream, Leave, WriteLast
  <2> QED
    BY <1>4, <2>1, <2>2, <2>3, <2>4, <2>5 DEF Handler
<1> QED
  BY <1>1, <1>2, <1>3, <1>4 DEF Step

-----------------------------------------------------------------------------
(* Slots.                                                                  *)

ActiveSet == {r \in Requests : Active(r)}

\* One request more or less takes one slot more or less.
LEMMA ActiveCount ==
  ASSUME NEW r \in Requests
  PROVE  /\ Cardinality(ActiveSet) \in Nat
         /\ ~Active(r) => Cardinality(ActiveSet \cup {r}) = Cardinality(ActiveSet) + 1
         /\ Active(r) => Cardinality(ActiveSet \ {r}) = Cardinality(ActiveSet) - 1
<1>1. IsFiniteSet(ActiveSet)
  BY RequestsAssumption, FS_Subset DEF ActiveSet
<1> QED
  BY <1>1, FS_CardinalityType, FS_AddElement, FS_RemoveElement DEF ActiveSet

\* Only Start takes a slot, only the end of runStream gives it back.
LEMMA StepSlots ==
  ASSUME TypeOK, SlotsTaken, NEW r \in Requests, Step(r)
  PROVE  SlotsTaken'
<1>0. /\ slots = Cardinality(ActiveSet) /\ slots <= MaxStreams
      /\ Cardinality(ActiveSet) \in Nat
  BY ActiveCount DEF SlotsTaken, ActiveSet
<1>1. \A q \in Requests : q # r => Active(q)' = Active(q)
  BY Local DEF Own, Active
<1>2. ASSUME Active(r)' = Active(r), UNCHANGED slots
      PROVE  SlotsTaken'
  <2>1. {q \in Requests : Active(q)}' = {q \in Requests : Active(q)}
    BY <1>1, <1>2
  <2> QED
    BY <1>2, <2>1 DEF SlotsTaken
<1>3. ASSUME Active(r), ~Active(r)', slots' = slots - 1
      PROVE  SlotsTaken'
  <2>1. ActiveSet' = ActiveSet \ {r}
    BY <1>1, <1>3 DEF ActiveSet
  <2>2. Cardinality(ActiveSet') = Cardinality(ActiveSet) - 1
    BY <1>3, <2>1, ActiveCount
  <2>3. slots' = Cardinality(ActiveSet') /\ slots' <= MaxStreams
    BY <1>0, <1>3, <2>2
  <2> QED
    BY <2>3 DEF SlotsTaken, ActiveSet
<1>4. CASE Start(r)
  <2>1. ~Active(r) /\ Active(r)' /\ slots' = slots + 1 /\ slots < MaxStreams
    BY <1>4 DEF Start, Active, TypeOK
  <2>2. ActiveSet' = ActiveSet \cup {r}
    BY <1>1, <2>1 DEF ActiveSet
  <2>3. Cardinality(ActiveSet') = Cardinality(ActiveSet) + 1
    BY <2>1, <2>2, ActiveCount
  <2>4. slots' = Cardinality(ActiveSet') /\ slots' <= MaxStreams
    BY <1>0, <2>1, <2>3
  <2> QED
    BY <2>4 DEF SlotsTaken, ActiveSet
<1>5. CASE Leave(r) /\ Active(r)
  BY <1>3, <1>5 DEF Leave, Active, TypeOK
<1> USE DEF TypeOK, Active
<1>6. CASE Refuse(r) \/ Busy(r) \/ PingFails(r)
  BY <1>2, <1>6 DEF Refuse, Busy, PingFails
<1>7. CASE Timeout(r) \/ ClientLeaves(r) \/ ProducerStep(r)
  <2>1. UNCHANGED handlerVars
    BY <1>7 DEF Timeout, ClientLeaves, ProducerStep, Offer, EmitCancelled,
                EmitAcked, ProducerFails, ProducerDone, ProducerEnd
  <2> QED
    BY <1>2, <2>1 DEF handlerVars
<1>8. CASE Handler(r)
  <2>1. CASE Receive(r) \/ OverBudget(r) \/ WriteFails(r) \/ WriteOK(r)
    BY <1>2, <2>1 DEF Receive, OverBudget, WriteFails, WriteOK
  <2>2. CASE CancelProducer(r) \/ SeeCtxDone(r) \/ Join(r)
    BY <1>2, <2>2 DEF CancelProducer, SeeCtxDone, Join
  <2>3. CASE SeeFinished(r)
    BY <1>2, <1>5, <2>3 DEF SeeFinished
  <2>4. CASE EndStream(r)
    BY <1>5, <2>4 DEF EndStream
  <2> QED
    BY <1>8, <2>1, <2>2, <2>3, <2>4 DEF Handler
<1> QED
  BY <1>4, <1>6, <1>7, <1>8 DEF Step

-----------------------------------------------------------------------------
(* The invariant of a request, step by step.                               *)

\* The step neither writes nor answers nor ends the request.
Quiet(r) ==
  /\ stage[r] # "over" /\ stage'[r] # "over" /\ (began[r] => began'[r])
  /\ UNCHANGED <<wire[r], reply[r], returned[r], cursor[r], bytes[r], kind[r]>>

\* Such a step leaves the messages and the accounts as they are.
LEMMA QuietStep ==
  ASSUME NEW r \in Requests, RequestInv(r), Quiet(r)
  PROVE  /\ Body(r)' /\ Closing(r)'
         /\ Sent(r)' = Sent(r)
         /\ \A n : CursorAfter(r, n)' = CursorAfter(r, n)
<1>1. Sent(r)' = Sent(r) /\ \A n : CursorAfter(r, n)' = CursorAfter(r, n)
  BY DEF Quiet, Sent, Is, CursorAfter
<1>2. Body(r)'
  BY <1>1 DEF RequestInv, Body, Quiet
<1>3. Closing(r)'
  BY DEF Closing, Quiet
<1> QED
  BY <1>1, <1>2, <1>3

\* The steps of the outside and of the limiter.
LEMMA OutsideInv ==
  ASSUME TypeOK, NEW r \in Requests, RequestInv(r),
         Start(r) \/ PingFails(r) \/ Timeout(r) \/ ClientLeaves(r)
  PROVE  RequestInv(r)'
<1> USE DEF TypeOK, handlerVars, producerVars
<1>1. Quiet(r)
  BY DEF Quiet, Start, PingFails, Timeout, ClientLeaves, Active
<1>2. /\ Body(r)' /\ Closing(r)' /\ Sent(r)' = Sent(r)
      /\ \A n : CursorAfter(r, n)' = CursorAfter(r, n)
  BY <1>1, QuietStep
<1>3. Handover(r)'
  BY <1>2 DEF RequestInv, Handover, Producer, Start, PingFails, Timeout, ClientLeaves
<1>4. Producer(r)'
  BY <1>2 DEF RequestInv, Producer, Active, Start, PingFails, Timeout, ClientLeaves
<1>5. Finish(r)'
  BY <1>2 DEF RequestInv, Finish, Producer, Start, PingFails, Timeout, ClientLeaves
<1> QED
  BY <1>2, <1>3, <1>4, <1>5 DEF RequestInv

\* A request that is not served gets an answer and nothing else.
LEMMA TurnedAwayInv ==
  ASSUME TypeOK, NEW r \in Requests, RequestInv(r), Refuse(r) \/ Busy(r)
  PROVE  RequestInv(r)'
<1>1. /\ stage[r] = "new" /\ stage'[r] = "over"
      /\ UNCHANGED <<wire[r], returned[r], bytes[r], cursor[r], result[r],
                     prod[r], offered[r], metaDone[r], msg[r], perr[r],
                     finished[r], kind[r], ack[r], ctx[r]>>
  BY DEF Refuse, Busy, TypeOK, producerVars
<1>2. prod[r] = "none" /\ ~metaDone[r] /\ Sent(r) = 0 /\ wire[r] = <<>>
  <2>1. prod[r] = "none" /\ ~metaDone[r] /\ Sent(r) = 0
    BY <1>1 DEF RequestInv, Producer
  <2>2. wire[r] \in Seq(Message) /\ Len(wire[r]) = 0
    BY <1>1, <2>1 DEF RequestInv, Body, TypeOK
  <2> QED
    BY <2>1, <2>2
<1>3. Sent(r)' = Sent(r) /\ \A n : CursorAfter(r, n)' = CursorAfter(r, n)
  BY <1>1 DEF Sent, Is, CursorAfter
<1>4. Body(r)' /\ Closing(r)'
  BY <1>1, <1>2, <1>3 DEF RequestInv, Body, Closing
<1>5. Handover(r)'
  BY <1>1, <1>2, <1>3 DEF RequestInv, Handover
<1>6. Producer(r)'
  BY <1>1, <1>2, <1>3 DEF RequestInv, Producer, Active
<1>7. Finish(r)'
  BY <1>1, <1>2 DEF Finish
<1> QED
  BY <1>4, <1>5, <1>6, <1>7 DEF RequestInv

\* The producer: it offers the next emission when the last is on the wire,
\* and leaves emit with the error that emission was answered with.
LEMMA ProducerInv ==
  ASSUME TypeOK, NEW r \in Requests, RequestInv(r), ProducerStep(r)
  PROVE  RequestInv(r)'
<1> USE DEF TypeOK, handlerVars
<1>0. Active(r)
  BY DEF RequestInv, Producer, ProducerStep, Offer, EmitCancelled, EmitAcked,
         ProducerFails, ProducerDone
<1>1. Quiet(r)
  BY <1>0 DEF Quiet, Active, ProducerStep, Offer, EmitCancelled, EmitAcked,
              ProducerFails, ProducerDone, ProducerEnd
<1>2. /\ Body(r)' /\ Closing(r)' /\ Sent(r)' = Sent(r)
      /\ \A n : CursorAfter(r, n)' = CursorAfter(r, n)
  BY <1>1, QuietStep
<1>3. CASE Offer(r)
  <2>1. /\ Sent(r) = IF metaDone[r] THEN offered[r] + 1 ELSE 0
        /\ ~metaDone[r] => offered[r] = 0
        /\ stage[r] \notin {"handle", "fail", "new", "close"}
    BY <1>0, <1>3 DEF RequestInv, Producer, Handover, Offer, Active
  <2>2. PICK s \in Sizes :
          IF metaDone[r]
          THEN /\ offered[r] < MaxBatches
               /\ offered' = [offered EXCEPT ![r] = @ + 1]
               /\ msg' = [msg EXCEPT ![r] =
                           [type |-> "records", size |-> s,
                            id |-> CursorAfter(r, offered'[r])]]
          ELSE /\ msg' = [msg EXCEPT ![r] = [type |-> "meta", size |-> s,
                                            id |-> 0]]
               /\ UNCHANGED offered
    BY <1>3 DEF Offer
  <2>3. /\ prod'[r] = "offer" /\ ack'[r] = "none" /\ metaDone'[r]
        /\ UNCHANGED <<stage[r], perr[r], ctx[r], finished[r], result[r]>>
        /\ perr[r] = "none" /\ prod[r] = "work"
    BY <1>3 DEF Offer
  <2>4. /\ msg'[r].type = IF offered'[r] = 0 THEN "meta" ELSE "records"
        /\ offered'[r] > 0 => msg'[r].id = CursorAfter(r, offered'[r])
        /\ offered'[r] = Sent(r)
    <3>1. CASE metaDone[r]
      <4>1. offered'[r] = offered[r] + 1 /\ offered[r] \in Nat
        BY <2>2, <3>1
      <4>2. msg'[r] = [type |-> "records", size |-> s,
                       id |-> CursorAfter(r, offered'[r])]
        BY <2>2, <3>1
      <4> QED
        BY <2>1, <3>1, <4>1, <4>2
    <3>2. CASE ~metaDone[r]
      BY <2>1, <2>2, <3>2
    <3> QED
      BY <3>1, <3>2
  <2>5. Handover(r)'
    BY <1>2, <2>1, <2>3, <2>4 DEF Handover
  <2>6. Producer(r)' /\ Finish(r)'
    BY <1>0, <1>2, <2>1, <2>3 DEF RequestInv, Producer, Finish, Active
  <2> QED
    BY <1>2, <2>5, <2>6 DEF RequestInv
<1>4. CASE EmitCancelled(r)
  <2>1. Handover(r)'
    BY <1>2, <1>4 DEF RequestInv, Handover, EmitCancelled
  <2>2. Producer(r)'
    BY <1>2, <1>4 DEF RequestInv, Producer, Handover, Active, EmitCancelled
  <2>3. Finish(r)'
    BY <1>4 DEF RequestInv, Finish, EmitCancelled, Producer
  <2> QED
    BY <1>2, <2>1, <2>2, <2>3 DEF RequestInv
<1>5. CASE EmitAcked(r)
  <2>1. Handover(r)'
    BY <1>2, <1>5 DEF RequestInv, Handover, EmitAcked
  <2>2. Producer(r)'
    BY <1>2, <1>5 DEF RequestInv, Producer, Handover, Active, EmitAcked
  <2>3. Finish(r)'
    BY <1>5 DEF RequestInv, Finish, EmitAcked, Producer
  <2> QED
    BY <1>2, <2>1, <2>2, <2>3 DEF RequestInv
<1>6. ASSUME NEW res \in Results, ProducerEnd(r, res), prod[r] = "work",
             res.err = "none" <=> res.done # "none",
             res.err = "none" => perr[r] = "none"
      PROVE  RequestInv(r)'
  <2>1. Handover(r)'
    BY <1>2, <1>6 DEF RequestInv, Handover, ProducerEnd
  <2>2. Producer(r)'
    BY <1>2, <1>6 DEF RequestInv, Producer, Active, ProducerEnd
  <2>3. Finish(r)'
    BY <1>6 DEF RequestInv, Finish, ProducerEnd, Producer
  <2> QED
    BY <1>2, <2>1, <2>2, <2>3 DEF RequestInv
<1>7. CASE ProducerFails(r)
  <2>1. \A e \in Errors : [done |-> "none", err |-> e] \in Results
    BY DEF Results
  <2>2. PICK e \in Errors : /\ ProducerEnd(r, [done |-> "none", err |-> e])
                            /\ e # "none" /\ prod[r] = "work"
    BY <1>7 DEF ProducerFails, Errors
  <2> QED
    BY <1>6, <2>1, <2>2
<1>8. CASE ProducerDone(r)
  <2>1. PICK d \in {"complete", "limit"} :
          ProducerEnd(r, [done |-> d, err |-> "none"])
    BY <1>8 DEF ProducerDone
  <2>2. [done |-> d, err |-> "none"] \in Results
    BY DEF Results, Errors
  <2> QED
    BY <1>6, <1>8, <2>1, <2>2 DEF ProducerDone
<1> QED
  BY <1>3, <1>4, <1>5, <1>7, <1>8 DEF ProducerStep

\* The handler's steps that write nothing.
LEMMA QuietHandlerInv ==
  ASSUME TypeOK, NEW r \in Requests, RequestInv(r),
         \/ Receive(r) \/ OverBudget(r) \/ WriteFails(r) \/ CancelProducer(r)
         \/ SeeCtxDone(r) \/ Join(r)
  PROVE  RequestInv(r)'
<1> USE DEF TypeOK, producerVars
<1>1. Quiet(r)
  BY DEF Quiet, Receive, OverBudget, WriteFails, CancelProducer, SeeCtxDone, Join
<1>2. /\ Body(r)' /\ Closing(r)' /\ Sent(r)' = Sent(r)
      /\ \A n : CursorAfter(r, n)' = CursorAfter(r, n)
  BY <1>1, QuietStep
<1>3. CASE Receive(r)
  <2>1. Handover(r)'
    BY <1>2, <1>3 DEF RequestInv, Handover, Receive
  <2>2. Producer(r)' /\ Finish(r)'
    BY <1>2, <1>3 DEF RequestInv, Producer, Finish, Active, Receive, Handover
  <2> QED
    BY <1>2, <2>1, <2>2 DEF RequestInv
<1>4. CASE OverBudget(r) \/ WriteFails(r)
  <2>1. Handover(r)'
    BY <1>2, <1>4 DEF RequestInv, Handover, OverBudget, WriteFails
  <2>2. Producer(r)' /\ Finish(r)'
    BY <1>2, <1>4 DEF RequestInv, Producer, Finish, Active, OverBudget, WriteFails,
                      Handover
  <2> QED
    BY <1>2, <2>1, <2>2 DEF RequestInv
<1>5. CASE CancelProducer(r) \/ SeeCtxDone(r)
  <2>1. Handover(r)'
    BY <1>2, <1>5 DEF RequestInv, Handover, CancelProducer, SeeCtxDone
  <2>2. Producer(r)' /\ Finish(r)'
    BY <1>2, <1>5 DEF RequestInv, Producer, Finish, Active, CancelProducer,
                      SeeCtxDone, Handover
  <2> QED
    BY <1>2, <2>1, <2>2 DEF RequestInv
<1>6. CASE Join(r)
  <2>1. Handover(r)'
    BY <1>2, <1>6 DEF RequestInv, Handover, Join
  <2>2. Producer(r)'
    BY <1>2, <1>6 DEF RequestInv, Producer, Active, Join
  <2>3. result'[r].err # "none"
    <3>1. ctx[r] # "live" /\ ctx[r] # "none"
      BY <1>6 DEF RequestInv, Finish, Join
    <3>2. finished[r] \in Results
      OBVIOUS
    <3>3. \A e \in Errors : [finished[r] EXCEPT !.err = e].err = e
      BY <3>2 DEF Results
    <3>4. ctx[r] \in Errors /\ (ack[r] \in {"byte_limit", "closed"} => ack[r] \in Errors)
      BY <3>1 DEF Errors
    <3> QED
      BY <1>6, <3>1, <3>3, <3>4 DEF Join
  <2>4. Finish(r)'
    BY <1>6, <2>3 DEF RequestInv, Finish, Join
  <2> QED
    BY <1>2, <2>1, <2>2, <2>4 DEF RequestInv
<1> QED
  BY <1>3, <1>4, <1>5, <1>6

\* An emission that is written is the next one of the grammar.
LEMMA WriteInv ==
  ASSUME TypeOK, NEW r \in Requests, RequestInv(r), WriteOK(r)
  PROVE  RequestInv(r)'
<1> USE DEF TypeOK, producerVars
<1>1. /\ stage[r] = "handle" /\ stage'[r] = "select" /\ ack'[r] = "ok"
      /\ began'[r] /\ wire'[r] = Append(wire[r], msg[r])
      /\ bytes'[r] = bytes[r] + msg[r].size /\ bytes'[r] <= MaxBytes
      /\ UNCHANGED <<reply[r], result[r], kind[r], ctx[r], prod[r], offered[r],
                     metaDone[r], msg[r], perr[r], finished[r]>>
  BY DEF WriteOK
<1>2. /\ ack[r] = "none" /\ metaDone[r] /\ Sent(r) = offered[r]
      /\ prod[r] = "wait" \/ perr[r] # "none"
      /\ msg[r].type = IF offered[r] = 0 THEN "meta" ELSE "records"
      /\ offered[r] > 0 => msg[r].id = CursorAfter(r, offered[r])
      /\ Len(wire[r]) = Sent(r) /\ reply[r] = "none" /\ prod[r] # "none"
  BY <1>1 DEF RequestInv, Body, Handover, Producer
<1>3. \A n : CursorAfter(r, n)' = CursorAfter(r, n)
  BY <1>1 DEF CursorAfter
<1>4. /\ wire[r] \in Seq(Message) /\ offered[r] \in Nat /\ returned[r] \in Nat
      /\ wire'[r] # <<>> /\ Len(wire'[r]) = Len(wire[r]) + 1
      /\ wire'[r][Len(wire[r]) + 1] = msg[r]
      /\ \A k \in 1..Len(wire[r]) : wire'[r][k] = wire[r][k]
  <2>1. wire[r] \in Seq(Message) /\ msg[r] \in Message
    BY EmissionIsMessage
  <2> QED
    BY <1>1, <2>1
<1>5. ASSUME offered[r] = 0
      PROVE  Body(r)' /\ Sent(r)' = offered[r] + 1
  <2>1. wire[r] = <<>> /\ Len(wire[r]) = 0 /\ returned[r] = 0
    BY <1>2, <1>4, <1>5 DEF RequestInv, Body
  <2>2. returned'[r] = 0 /\ cursor'[r] = cursor[r]
    BY <1>2, <1>5, <2>1 DEF WriteOK
  <2>3. Is(r, 1, "meta")' /\ Sent(r)' = 1
    BY <1>2, <1>4, <1>5, <2>1, <2>2 DEF Is, Sent
  <2>4. Body(r)'
    BY <1>1, <1>2, <1>3, <1>4, <2>1, <2>2, <2>3 DEF RequestInv, Body, Is
  <2>5. Sent(r)' = offered[r] + 1
    BY <1>5, <2>3
  <2> QED
    BY <2>4, <2>5
<1>6. ASSUME offered[r] # 0
      PROVE  Body(r)' /\ Sent(r)' = offered[r] + 1
  <2>1. /\ Is(r, 1, "meta") /\ wire[r] # <<>> /\ returned[r] + 1 = offered[r]
        /\ Len(wire[r]) > 0
    BY <1>2, <1>4, <1>6 DEF Sent
  <2>2. returned'[r] = offered[r] /\ cursor'[r] = CursorAfter(r, offered[r])
    BY <1>2, <1>4, <1>6, <2>1 DEF WriteOK
  <2>3. Is(r, 1, "meta")' /\ Sent(r)' = offered[r] + 1
    <3>1. 1 \in 1..Len(wire[r])
      BY <1>4, <2>1
    <3>2. wire'[r][1] = wire[r][1]
      BY <1>4, <3>1
    <3> QED
      BY <1>4, <2>1, <2>2, <3>2 DEF Is, Sent
  <2>4. \A k \in 1..Sent(r)' :
          wire'[r][k].type = IF k = 1 THEN "meta" ELSE "records"
    <3>1. TAKE k \in 1..Sent(r)'
    <3>2. CASE k \in 1..Len(wire[r])
      BY <1>2, <1>4, <3>2 DEF RequestInv, Body
    <3>3. CASE k = Len(wire[r]) + 1
      BY <1>2, <1>4, <1>6, <2>1, <3>3
    <3> QED
      BY <1>2, <2>3, <3>1, <3>2, <3>3
  <2>5. Body(r)'
    BY <1>1, <1>2, <1>3, <1>4, <2>2, <2>3, <2>4 DEF Body
  <2> QED
    BY <2>3, <2>5
<1>7. Closing(r)'
  BY <1>1 DEF Closing
<1>8. Handover(r)'
  BY <1>1, <1>2, <1>5, <1>6 DEF RequestInv, Handover
<1>9. Producer(r)' /\ Finish(r)'
  BY <1>1, <1>2, <1>5, <1>6 DEF RequestInv, Producer, Finish, Active
<1> QED
  BY <1>5, <1>6, <1>7, <1>8, <1>9 DEF RequestInv

\* A producer that ended by itself: the result is its own, or a 204.
LEMMA SeeFinishedInv ==
  ASSUME TypeOK, NEW r \in Requests, RequestInv(r), SeeFinished(r)
  PROVE  RequestInv(r)'
<1> USE DEF TypeOK, producerVars
<1>1. CASE Replayed(r)
  <2>1. /\ ~began[r] /\ stage[r] = "select" /\ stage'[r] = "over"
        /\ prod[r] = "ended"
        /\ UNCHANGED <<wire[r], returned[r], bytes[r], cursor[r], result[r],
                       prod[r], offered[r], metaDone[r], msg[r], perr[r],
                       finished[r], kind[r], ack[r]>>
    BY <1>1 DEF SeeFinished, Leave, Replayed
  <2>2. wire[r] = <<>> /\ Sent(r) = 0 /\ Len(wire[r]) = 0
    BY <2>1 DEF RequestInv, Body, Sent
  <2>3. Sent(r)' = Sent(r) /\ \A n : CursorAfter(r, n)' = CursorAfter(r, n)
    BY <2>1 DEF Sent, Is, CursorAfter
  <2>4. Body(r)' /\ Closing(r)'
    BY <2>1, <2>2, <2>3 DEF RequestInv, Body, Closing
  <2>5. Handover(r)'
    BY <2>1, <2>3 DEF RequestInv, Handover
  <2>6. Producer(r)' /\ Finish(r)'
    BY <2>1, <2>3 DEF RequestInv, Producer, Finish, Active
  <2> QED
    BY <2>4, <2>5, <2>6 DEF RequestInv
<1>2. CASE ~Replayed(r)
  <2>1. /\ began' = [began EXCEPT ![r] = @ \/ finished[r].err = "none"]
        /\ result' = [result EXCEPT ![r] = finished[r]]
        /\ stage' = [stage EXCEPT ![r] = "close"]
        /\ UNCHANGED <<slots, reply, ctx>>
        /\ UNCHANGED <<broken, wire, returned, bytes, cursor, producerVars,
                       kind, ack, gone>>
        /\ stage[r] = "select" /\ prod[r] = "ended"
    BY <1>2, Zenon DEF SeeFinished
  <2>2. began[r] => began'[r]
    BY <2>1
  <2>3. Quiet(r)
    BY <2>1, <2>2 DEF Quiet
  <2>4. /\ Body(r)' /\ Closing(r)' /\ Sent(r)' = Sent(r)
        /\ \A n : CursorAfter(r, n)' = CursorAfter(r, n)
    BY <2>3, QuietStep
  <2>5. Handover(r)'
    BY <2>1, <2>4 DEF RequestInv, Handover
  <2>6. Producer(r)' /\ Finish(r)'
    BY <2>1, <2>4 DEF RequestInv, Producer, Finish, Active
  <2> QED
    BY <2>4, <2>5, <2>6 DEF RequestInv
<1> QED
  BY <1>1, <1>2

\* What the closing messages add to the wire.
LEMMA WriteLastAdds ==
  ASSUME TypeOK, NEW r \in Requests, NEW ms \in Seq(Message), WriteLast(r, ms)
  PROVE  \E k \in 0..Len(ms) :
           /\ wire'[r] \in Seq(Message) /\ Len(wire'[r]) = Len(wire[r]) + k
           /\ \A j \in 1..Len(wire[r]) : wire'[r][j] = wire[r][j]
           /\ \A j \in 1..k : wire'[r][Len(wire[r]) + j] = ms[j]
<1>1. PICK k \in 0..Len(ms) :
        wire' = [wire EXCEPT ![r] = @ \o SubSeq(ms, 1, k)]
  BY DEF WriteLast
<1>2. /\ SubSeq(ms, 1, k) \in Seq(Message) /\ Len(SubSeq(ms, 1, k)) = k
      /\ \A j \in 1..k : SubSeq(ms, 1, k)[j] = ms[j]
  OBVIOUS
<1>3. wire[r] \in Seq(Message) /\ wire'[r] = wire[r] \o SubSeq(ms, 1, k)
  BY <1>1 DEF TypeOK
<1>4. /\ wire'[r] \in Seq(Message) /\ Len(wire'[r]) = Len(wire[r]) + k
      /\ \A j \in 1..Len(wire[r]) : wire'[r][j] = wire[r][j]
      /\ \A j \in 1..k : wire'[r][Len(wire[r]) + j] = SubSeq(ms, 1, k)[j]
  <2> DEFINE t == SubSeq(ms, 1, k)
             w == wire[r]
  <2>1. t \in Seq(Message) /\ w \in Seq(Message) /\ Len(t) = k
    BY <1>2, <1>3
  <2> HIDE DEF t, w
  <2>2. /\ w \o t \in Seq(Message) /\ Len(w \o t) = Len(w) + k
        /\ \A j \in 1..Len(w) : (w \o t)[j] = w[j]
        /\ \A j \in 1..k : (w \o t)[Len(w) + j] = t[j]
    BY <2>1
  <2> QED
    BY <1>3, <2>2 DEF t, w
<1> QED
  BY <1>2, <1>4

\* The closing messages tell the result and the accounts of the wire.
LEMMA EndStreamInv ==
  ASSUME TypeOK, NEW r \in Requests, RequestInv(r), EndStream(r)
  PROVE  RequestInv(r)'
<1> USE DEF TypeOK, producerVars
<1>1. /\ stage[r] = "close" /\ stage'[r] = "over"
      /\ prod[r] = "ended"
      /\ UNCHANGED <<returned[r], bytes[r], cursor[r], result[r],
                     prod[r], offered[r], metaDone[r], msg[r], perr[r],
                     finished[r], kind[r], ack[r]>>
  BY DEF EndStream, Leave, RequestInv, Producer
<1>2. /\ Len(wire[r]) = Sent(r) /\ reply[r] = "none" /\ wire[r] \in Seq(Message)
      /\ Sent(r) \in Nat
      /\ result[r].err = "none" => result[r] = finished[r]
  BY <1>1 DEF RequestInv, Body, Finish, Sent
<1>3. \A n : CursorAfter(r, n)' = CursorAfter(r, n)
  BY <1>1 DEF CursorAfter
<1>4. SuccessDone(r)' = SuccessDone(r) /\ FailedDone(r)' = FailedDone(r)
  BY <1>1, <1>3 DEF SuccessDone, FailedDone, DoneCursor
<1>5. SuccessDone(r).type = "done" /\ ErrorMessage(result[r].err).type = "error"
  BY DEF SuccessDone, ErrorMessage
<1>6. /\ <<SuccessDone(r)>> \in Seq(Message)
      /\ <<ErrorMessage(result[r].err), FailedDone(r)>> \in Seq(Message)
  BY ClosingMessages
<1>7. ASSUME NEW k \in Nat, wire'[r] \in Seq(Message),
             Len(wire'[r]) = Len(wire[r]) + k,
             \A j \in 1..Len(wire[r]) : wire'[r][j] = wire[r][j],
             k > 0 => wire'[r][Len(wire[r]) + 1].type \in {"error", "done"},
             reply'[r] # "none" => wire'[r] = <<>>
      PROVE  Sent(r)' = Sent(r) /\ Body(r)'
  <2>1. CASE Sent(r) = 0
    <3>1. returned[r] = 0
      BY <2>1 DEF RequestInv, Body
    <3>2. wire'[r] = <<>> \/ wire'[r][1].type \in {"error", "done"}
      BY <1>2, <1>7, <2>1
    <3>3. Sent(r)' = 0
      BY <3>2 DEF Sent, Is
    <3> QED
      BY <1>1, <1>2, <1>3, <1>7, <2>1, <3>1, <3>3 DEF RequestInv, Body
  <2>2. CASE Sent(r) # 0
    <3>1. Is(r, 1, "meta") /\ Sent(r) = returned[r] + 1
      BY <2>2 DEF Sent
    <3>2. wire'[r] # <<>> /\ wire'[r][1] = wire[r][1]
      <4>1. 1 \in 1..Len(wire[r])
        BY <1>2, <2>2
      <4>2. Len(wire'[r]) # 0
        BY <1>2, <1>7, <2>2
      <4>3. wire'[r] # <<>>
        BY <4>2
      <4> QED
        BY <1>7, <4>1, <4>3
    <3>3. Sent(r)' = Sent(r)
      BY <1>1, <3>1, <3>2 DEF Sent, Is
    <3>4. \A j \in 1..Sent(r) : wire'[r][j] = wire[r][j]
      BY <1>2, <1>7
    <3>5. /\ Sent(r) <= Len(wire'[r])
          /\ \A j \in 1..Sent(r) :
               wire'[r][j].type = IF j = 1 THEN "meta" ELSE "records"
      BY <1>2, <1>7, <3>4, SMTT(30) DEF RequestInv, Body
    <3>6. cursor[r] = CursorAfter(r, returned[r]) /\ bytes[r] <= MaxBytes
      BY DEF RequestInv, Body
    <3> QED
      BY <1>1, <1>3, <1>7, <2>2, <3>3, <3>5, <3>6 DEF Body
  <2> QED
    BY <2>1, <2>2
<1>8. ASSUME Sent(r)' = Sent(r), Body(r)', Closing(r)'
      PROVE  RequestInv(r)'
  <2>1. Handover(r)'
    BY <1>1, <1>3, <1>8 DEF RequestInv, Handover
  <2>2. Producer(r)' /\ Finish(r)'
    BY <1>1, <1>8 DEF RequestInv, Producer, Finish, Active
  <2> QED
    BY <1>8, <2>1, <2>2 DEF RequestInv
<1>9. CASE result[r].err = "none" /\ WriteLast(r, <<SuccessDone(r)>>)
           /\ UNCHANGED reply
  <2>1. PICK k \in 0..1 :
          /\ wire'[r] \in Seq(Message) /\ Len(wire'[r]) = Len(wire[r]) + k
          /\ \A j \in 1..Len(wire[r]) : wire'[r][j] = wire[r][j]
          /\ \A j \in 1..k : wire'[r][Len(wire[r]) + j] = <<SuccessDone(r)>>[j]
    BY <1>6, <1>9, WriteLastAdds
  <2>2. k = 1 => wire'[r][Len(wire[r]) + 1] = SuccessDone(r)
    BY <2>1
  <2>3. Sent(r)' = Sent(r) /\ Body(r)'
    <3>1. k \in Nat /\ reply'[r] = "none"
      BY <1>2, <1>9
    <3>2. k > 0 => wire'[r][Len(wire[r]) + 1].type \in {"error", "done"}
      BY <1>5, <2>1, <2>2
    <3> QED
      BY <1>7, <2>1, <3>1, <3>2
  <2>4. Closing(r)'
    BY <1>1, <1>2, <1>4, <1>9, <2>1, <2>2, <2>3 DEF Closing
  <2> QED
    BY <1>8, <2>3, <2>4
<1>10. CASE UNCHANGED wire /\ (UNCHANGED reply \/ ~began[r])
  <2>1. ~began[r] => wire[r] = <<>>
    BY <1>1 DEF RequestInv, Body
  <2>2. /\ wire'[r] = wire[r] /\ Len(wire[r]) \in Nat
        /\ reply'[r] # "none" => wire'[r] = <<>>
    BY <1>2, <1>10, <2>1
  <2>3. Sent(r)' = Sent(r) /\ Body(r)'
    <3> DEFINE k == 0
    <3>1. /\ k \in Nat /\ Len(wire'[r]) = Len(wire[r]) + k /\ ~(k > 0)
          /\ \A j \in 1..Len(wire[r]) : wire'[r][j] = wire[r][j]
          /\ wire'[r] \in Seq(Message)
      BY <1>2, <2>2
    <3> HIDE DEF k
    <3> QED
      BY <1>7, <2>2, <3>1
  <2>4. Closing(r)'
    BY <1>2, <2>2, <2>3 DEF Closing
  <2> QED
    BY <1>8, <2>3, <2>4
<1>11. CASE /\ result[r].err # "none" /\ UNCHANGED reply
            /\ WriteLast(r, <<ErrorMessage(result[r].err), FailedDone(r)>>)
  <2> DEFINE ms == <<ErrorMessage(result[r].err), FailedDone(r)>>
  <2>1. PICK k \in 0..2 :
          /\ wire'[r] \in Seq(Message) /\ Len(wire'[r]) = Len(wire[r]) + k
          /\ \A j \in 1..Len(wire[r]) : wire'[r][j] = wire[r][j]
          /\ \A j \in 1..k : wire'[r][Len(wire[r]) + j] = ms[j]
    BY <1>6, <1>11, WriteLastAdds
  <2>2. /\ k > 0 => wire'[r][Len(wire[r]) + 1] = ErrorMessage(result[r].err)
        /\ k = 2 => wire'[r][Len(wire[r]) + 2] = FailedDone(r)
    <3>1. ms[1] = ErrorMessage(result[r].err) /\ ms[2] = FailedDone(r)
      OBVIOUS
    <3>2. (k > 0 => 1 \in 1..k) /\ (k = 2 => 2 \in 1..k)
      OBVIOUS
    <3> HIDE DEF ms
    <3> QED
      BY <2>1, <3>1, <3>2
  <2>3. Sent(r)' = Sent(r) /\ Body(r)'
    <3>1. k \in Nat /\ reply'[r] = "none"
      BY <1>2, <1>11
    <3>2. k > 0 => wire'[r][Len(wire[r]) + 1].type \in {"error", "done"}
      BY <1>5, <2>1, <2>2
    <3> QED
      BY <1>7, <2>1, <3>1, <3>2
  <2>4. Closing(r)'
    BY <1>1, <1>2, <1>4, <1>5, <1>11, <2>1, <2>2, <2>3 DEF Closing
  <2> QED
    BY <1>8, <2>3, <2>4
<1> QED
  BY <1>9, <1>10, <1>11 DEF EndStream

-----------------------------------------------------------------------------
(* The invariant holds.                                                    *)

LEMMA InitInv == Init => IInv
<1> SUFFICES ASSUME Init PROVE IInv
  OBVIOUS
<1>1. TypeOK
  BY InitType
<1>2. SlotsTaken
  <2>1. {r \in Requests : Active(r)} = {}
    BY DEF Init, Active
  <2>2. slots = 0 /\ Cardinality({}) = 0
    BY FS_EmptySet DEF Init
  <2> QED
    BY <2>1, <2>2 DEF SlotsTaken
<1>3. ASSUME NEW r \in Requests
      PROVE  RequestInv(r)
  <2>1. /\ stage[r] = "new" /\ wire[r] = <<>> /\ reply[r] = "none"
        /\ returned[r] = 0 /\ bytes[r] = 0 /\ cursor[r] = 0 /\ prod[r] = "none"
        /\ offered[r] = 0 /\ ~metaDone[r] /\ ack[r] = "none" /\ perr[r] = "none"
    BY DEF Init
  <2>2. Sent(r) = 0 /\ CursorAfter(r, 0) = 0
    BY <2>1 DEF Sent, CursorAfter
  <2>3. Body(r)
    BY <2>1, <2>2 DEF Body
  <2>4. Closing(r) /\ Handover(r) /\ Producer(r) /\ Finish(r)
    BY <2>1, <2>2 DEF Closing, Handover, Producer, Finish
  <2> QED
    BY <2>3, <2>4 DEF RequestInv
<1> QED
  BY <1>1, <1>2, <1>3 DEF IInv

\* A step is one of a request, or changes nothing.
LEMMA NextIsStep ==
  ASSUME [Next]_vars
  PROVE  UNCHANGED vars \/ \E r \in Requests : Step(r)
BY DEF Next, Terminated, Step

LEMMA NextInv == IInv /\ [Next]_vars => IInv'
<1> SUFFICES ASSUME IInv, [Next]_vars PROVE IInv'
  OBVIOUS
<1>1. TypeOK /\ SlotsTaken /\ \A r \in Requests : RequestInv(r)
  BY DEF IInv
<1>2. TypeOK'
  BY NextType
<1>3. CASE UNCHANGED vars
  <2>1. \A r \in Requests : UNCHANGED Own(r)
    BY <1>3 DEF vars, handlerVars, producerVars, Own
  <2>2. \A r \in Requests : RequestInv(r)'
    BY <1>1, <2>1, Frame
  <2>3. SlotsTaken'
    BY <1>1, <1>3 DEF SlotsTaken, Active, vars, handlerVars
  <2> QED
    BY <1>2, <2>2, <2>3 DEF IInv
<1>4. ASSUME NEW r \in Requests, Step(r)
      PROVE  IInv'
  <2>1. \A q \in Requests \ {r} : RequestInv(q)'
    BY <1>1, <1>4, Local, Frame
  <2>2. RequestInv(r)'
    BY <1>1, <1>4, OutsideInv, TurnedAwayInv, ProducerInv, QuietHandlerInv,
       WriteInv, SeeFinishedInv, EndStreamInv DEF Step, Handler
  <2>3. SlotsTaken'
    BY <1>1, <1>4, StepSlots
  <2> QED
    BY <1>2, <2>1, <2>2, <2>3 DEF IInv
<1> QED
  BY <1>3, <1>4, NextIsStep

\* The inductive invariant of the delivery loop: what is on the wire of a
\* request, what its producer has offered and been told, and what its result
\* says, at every moment and for any number of requests.
THEOREM LoopInvariant == Spec => []IInv
<1>1. Init => IInv
  BY InitInv
<1>2. IInv /\ [Next]_vars => IInv'
  BY NextInv
<1> QED
  BY <1>1, <1>2, PTL DEF Spec

\* Every variable of the loop keeps its type; in particular only messages of
\* the protocol are ever written.
THEOREM TypeCorrect == Spec => []TypeOK
<1>1. IInv => TypeOK
  BY DEF IInv
<1> QED
  BY <1>1, LoopInvariant, PTL

-----------------------------------------------------------------------------
(* What follows from it.                                                   *)

\* The batches on the wire are the emissions after the meta.
LEMMA Batches ==
  ASSUME TypeOK, NEW r \in Requests, RequestInv(r)
  PROVE  /\ BatchesOn(r) = 2..Sent(r)
         /\ Cardinality(BatchesOn(r)) = returned[r]
<1>1. /\ Sent(r) \in Nat /\ Sent(r) <= Len(wire[r]) /\ returned[r] \in Nat
      /\ wire[r] \in Seq(Message)
      /\ \A k \in 1..Sent(r) : wire[r][k].type = IF k = 1 THEN "meta" ELSE "records"
      /\ returned[r] = IF Sent(r) = 0 THEN 0 ELSE Sent(r) - 1
  BY DEF RequestInv, Body, Sent, TypeOK
<1>2. \A k \in DOMAIN wire[r] : k > Sent(r) => ~Is(r, k, "records")
  <2> TAKE k \in DOMAIN wire[r]
  <2> HAVE k > Sent(r)
  <2>1. CASE stage[r] # "over"
    BY <1>1, <2>1 DEF RequestInv, Body
  <2>2. CASE stage[r] = "over"
    BY <1>1, <2>2, SMTT(30) DEF RequestInv, Closing, Is, SuccessDone, FailedDone
  <2> QED
    BY <2>1, <2>2
<1>3. BatchesOn(r) = 2..Sent(r)
  BY <1>1, <1>2 DEF BatchesOn, Is
<1>4. Cardinality(2..Sent(r)) = IF 2 > Sent(r) THEN 0 ELSE Sent(r) - 2 + 1
  <2>1. 2 \in Int /\ Sent(r) \in Int
    BY <1>1
  <2> QED
    BY <2>1, FS_Interval, Zenon
<1> QED
  BY <1>1, <1>3, <1>4


\* The wire of a request: its emissions, then nothing, a done, or an error and
\* perhaps a done.
LEMMA WireShape ==
  ASSUME TypeOK, NEW r \in Requests, RequestInv(r)
  PROVE  /\ wire[r] \in Seq(Message) /\ Len(wire[r]) \in Nat /\ Sent(r) \in Nat
         /\ Is(r, 1, "meta") /\ wire[r] # <<>> <=> Sent(r) > 0
         /\ Sent(r) <= Len(wire[r])
         /\ \A k \in 1..Sent(r) :
              wire[r][k].type = IF k = 1 THEN "meta" ELSE "records"
         /\ \/ Len(wire[r]) = Sent(r)
            \/ Len(wire[r]) = Sent(r) + 1 /\ Is(r, Sent(r) + 1, "done")
            \/ Len(wire[r]) = Sent(r) + 1 /\ Is(r, Sent(r) + 1, "error")
            \/ /\ Len(wire[r]) = Sent(r) + 2 /\ Is(r, Sent(r) + 1, "error")
               /\ Is(r, Sent(r) + 2, "done")
<1>1. /\ Sent(r) \in Nat /\ wire[r] \in Seq(Message)
      /\ Is(r, 1, "meta") /\ wire[r] # <<>> <=> Sent(r) > 0
  BY DEF Sent, TypeOK
<1>2. SuccessDone(r).type = "done" /\ FailedDone(r).type = "done"
  BY DEF SuccessDone, FailedDone
<1>3. CASE stage[r] # "over"
  BY <1>1, <1>3 DEF RequestInv, Body
<1>4. CASE stage[r] = "over"
  BY <1>1, <1>2, <1>4 DEF RequestInv, Body, Closing, Is
<1> QED
  BY <1>3, <1>4

\* The order of the messages of every stream, however it is torn down
\* (runStream and endStream).
THEOREM AlwaysWireGrammar == Spec => []WireGrammar
<1>1. ASSUME TypeOK, NEW r \in Requests, RequestInv(r), NEW k \in DOMAIN wire[r]
      PROVE  /\ Is(r, k, "meta") <=> k = 1 /\ ~Is(r, 1, "done") /\ ~Is(r, 1, "error")
             /\ Is(r, k, "records") => Is(r, 1, "meta")
             /\ Is(r, k, "done") => k = Len(wire[r])
             /\ Is(r, k, "error") =>
                  k = Len(wire[r]) \/ (k + 1 = Len(wire[r]) /\ Is(r, k + 1, "done"))
  <2>1. k \in 1..Len(wire[r]) /\ wire[r] # <<>>
    BY <1>1 DEF TypeOK
  <2>2. CASE Sent(r) = 0
    BY <1>1, <2>1, <2>2, WireShape DEF Is
  <2>3. CASE Sent(r) > 0 /\ k \in 1..Sent(r)
    BY <1>1, <2>1, <2>3, WireShape DEF Is
  <2>4. CASE Sent(r) > 0 /\ k > Sent(r)
    <3>1. Is(r, 1, "meta") /\ k # 1
      BY <1>1, <2>1, <2>4, WireShape
    <3>2. \/ k = Len(wire[r]) /\ (Is(r, k, "done") \/ Is(r, k, "error"))
          \/ k + 1 = Len(wire[r]) /\ Is(r, k, "error") /\ Is(r, k + 1, "done")
      BY <1>1, <2>1, <2>4, WireShape
    <3> QED
      BY <3>1, <3>2 DEF Is
  <2> QED
    BY <1>1, <2>1, <2>2, <2>3, <2>4, WireShape
<1>2. IInv => WireGrammar
  <2> SUFFICES ASSUME IInv, NEW r \in Requests
               PROVE  /\ \A k \in DOMAIN wire[r] :
                           /\ Is(r, k, "meta") <=>
                                k = 1 /\ ~Is(r, 1, "done") /\ ~Is(r, 1, "error")
                           /\ Is(r, k, "records") => Is(r, 1, "meta")
                           /\ Is(r, k, "done") => k = Len(wire[r])
                           /\ Is(r, k, "error") =>
                                \/ k = Len(wire[r])
                                \/ k + 1 = Len(wire[r]) /\ Is(r, k + 1, "done")
                      /\ reply[r] # "none" => wire[r] = <<>>
    BY DEF WireGrammar
  <2>1. TypeOK /\ RequestInv(r)
    BY DEF IInv
  <2>2. reply[r] # "none" => wire[r] = <<>>
    BY <2>1 DEF RequestInv, Body
  <2> QED
    BY <1>1, <2>1, <2>2
<1> QED
  BY <1>2, LoopInvariant, PTL

\* A done is the last message of a request that is over, and one of the two
\* that endStream makes of its result.
LEMMA DoneIsLast ==
  ASSUME TypeOK, NEW r \in Requests, RequestInv(r), NEW k \in DOMAIN wire[r],
         Is(r, k, "done")
  PROVE  /\ stage[r] = "over"
         /\ \/ /\ k = Sent(r) + 1 /\ Len(wire[r]) = k
               /\ wire[r][k] = SuccessDone(r)
               /\ result[r] = finished[r] /\ result[r].err = "none"
               /\ prod[r] = "ended"
            \/ wire[r][k] = FailedDone(r) /\ result[r].err # "none"
<1>1. k \in 1..Len(wire[r])
  BY DEF TypeOK
<1>2. Sent(r) \in Nat /\ Len(wire[r]) \in Nat /\ k > Sent(r)
      /\ (stage[r] # "over" => Len(wire[r]) = Sent(r))
  BY <1>1, WireShape DEF Is, RequestInv, Body
<1>3. stage[r] = "over"
  BY <1>1, <1>2
<1> QED
  BY <1>1, <1>2, <1>3 DEF RequestInv, Closing, Is

\* The accounts of a done, of a success as of a failure, are those of the
\* wire: the records written, not those the producer has read.
THEOREM AlwaysDoneMatchesWire == Spec => []DoneMatchesWire
<1>1. ASSUME TypeOK, NEW r \in Requests, RequestInv(r), NEW k \in DOMAIN wire[r],
             Is(r, k, "done")
      PROVE  LET d == wire[r][k]
                 n == Cardinality(BatchesOn(r))
             IN /\ d.returned = n
                /\ d.bytes <= MaxBytes
                /\ Is(r, 1, "meta") => d.id = CursorAfter(r, n)
                /\ d.truncated => ~d.complete
  <2>1. /\ Cardinality(BatchesOn(r)) = returned[r] /\ bytes[r] <= MaxBytes
        /\ cursor[r] = CursorAfter(r, returned[r])
    BY <1>1, Batches DEF RequestInv, Body
  <2>2. CASE wire[r][k] = FailedDone(r)
    BY <2>1, <2>2 DEF FailedDone
  <2>3. CASE /\ wire[r][k] = SuccessDone(r) /\ prod[r] = "ended"
             /\ result[r] = finished[r] /\ result[r].err = "none"
    <3>1. Is(r, 1, "meta") => metaDone[r] /\ offered[r] = returned[r]
      <4>1. Sent(r) = IF metaDone[r] THEN offered[r] + 1 ELSE 0
        BY <1>1, <2>3 DEF RequestInv, Producer, Finish
      <4>2. wire[r] # <<>>
        BY <1>1 DEF TypeOK
      <4>3. offered[r] \in Nat /\ returned[r] \in Nat
        BY <1>1 DEF TypeOK
      <4> QED
        BY <4>1, <4>2, <4>3 DEF Sent
    <3>2. Is(r, 1, "meta") => DoneCursor(r) = CursorAfter(r, returned[r])
      BY <3>1 DEF DoneCursor
    <3>3. SuccessDone(r).id \in {cursor[r], DoneCursor(r)}
      BY DEF SuccessDone
    <3>4. /\ SuccessDone(r).returned = returned[r]
          /\ SuccessDone(r).bytes = bytes[r]
          /\ SuccessDone(r).truncated => ~SuccessDone(r).complete
      BY DEF SuccessDone
    <3> QED
      BY <2>1, <2>3, <3>2, <3>3, <3>4
  <2> QED
    BY <1>1, <2>2, <2>3, DoneIsLast
<1>2. IInv => DoneMatchesWire
  BY <1>1, Zenon DEF IInv, DoneMatchesWire
<1> QED
  BY <1>2, LoopInvariant, PTL

\* complete is only said when every batch the producer offered is on the wire
\* and no error is.
LEMMA CompleteAccounts == IInv => CompleteIsComplete
<1>1. ASSUME TypeOK, NEW r \in Requests, RequestInv(r), NEW k \in DOMAIN wire[r],
             Is(r, k, "done"), wire[r][k].complete
      PROVE  /\ Cardinality(BatchesOn(r)) = offered[r]
             /\ \A j \in DOMAIN wire[r] : ~Is(r, j, "error")
  <2>1. /\ k = Sent(r) + 1 /\ Len(wire[r]) = k /\ result[r] = finished[r]
        /\ result[r].err = "none" /\ prod[r] = "ended"
    <3>1. ~FailedDone(r).complete
      BY DEF FailedDone
    <3> QED
      BY <1>1, <3>1, DoneIsLast
  <2>2. Sent(r) = IF metaDone[r] THEN offered[r] + 1 ELSE 0
    BY <1>1, <2>1 DEF RequestInv, Producer, Finish
  <2>3. returned[r] = offered[r]
    BY <1>1, <2>2 DEF RequestInv, Producer, Body, Sent, TypeOK
  <2>4. \A j \in DOMAIN wire[r] : ~Is(r, j, "error")
    <3> TAKE j \in DOMAIN wire[r]
    <3>1. j \in 1..k
      BY <1>1, <2>1 DEF TypeOK
    <3>2. CASE j = k
      BY <1>1, <3>2 DEF Is
    <3>3. CASE j \in 1..Sent(r)
      BY <1>1, <3>3, WireShape DEF Is
    <3> QED
      BY <1>1, <2>1, <3>1, <3>2, <3>3, WireShape
  <2> QED
    BY <1>1, <2>3, <2>4, Batches
<1> QED
  BY <1>1, Zenon DEF IInv, CompleteIsComplete

\* The same in every behaviour: a stream that lost a batch to an error, a
\* timeout or a closed connection never says complete.
THEOREM AlwaysCompleteIsComplete == Spec => []CompleteIsComplete
BY CompleteAccounts, LoopInvariant, PTL

\* A request cannot hang between its two goroutines, for any number of
\* requests, sizes and batches: what either waits for is another's to do.
THEOREM AlwaysNoCircularWait == Spec => []NoCircularWait
<1>1. ASSUME NEW r \in Requests, RequestInv(r)
      PROVE  /\ stage[r] = "join" => ctx[r] # "live"
             /\ prod[r] = "wait" => stage[r] = "handle" \/ ack[r] # "none"
  BY <1>1 DEF RequestInv, Handover, Finish
<1>2. ASSUME TypeOK, NEW r \in Requests, RequestInv(r), prod[r] = "offer"
      PROVE  stage[r] = "select" \/ ctx[r] # "live"
  <2>1. stage[r] \in {"select", "join"}
    BY <1>2 DEF TypeOK, RequestInv, Handover, Producer, Active
  <2> QED
    BY <1>1, <1>2, <2>1
<1>3. IInv => NoCircularWait
  BY <1>1, <1>2 DEF IInv, NoCircularWait
<1> QED
  BY <1>3, LoopInvariant, PTL

\* A slot is held for as long as the producer it was taken for runs, so no
\* more than MaxStreams of them read from the backend.
THEOREM AlwaysSlotsCoverProducers == Spec => []SlotsCoverProducers
<1> DEFINE P == {r \in Requests : prod[r] \in {"work", "offer", "wait"}}
<1>1. ASSUME IInv PROVE SlotsCoverProducers
  <2>1. P \subseteq ActiveSet
    BY <1>1 DEF IInv, RequestInv, Producer, ActiveSet
  <2>2. IsFiniteSet(ActiveSet)
    BY RequestsAssumption, FS_Subset DEF ActiveSet
  <2>3. IsFiniteSet(P) /\ Cardinality(P) <= Cardinality(ActiveSet)
    BY <2>1, <2>2, FS_Subset
  <2>4. Cardinality(P) \in Nat /\ Cardinality(ActiveSet) \in Nat
    BY <2>2, <2>3, FS_CardinalityType
  <2>5. slots = Cardinality(ActiveSet) /\ slots <= MaxStreams
    BY <1>1 DEF IInv, SlotsTaken, ActiveSet
  <2>6. Cardinality(P) <= MaxStreams
    BY <2>3, <2>4, <2>5
  <2> QED
    BY <2>5, <2>6 DEF SlotsCoverProducers, ActiveSet
<1> QED
  BY <1>1, LoopInvariant, PTL

-----------------------------------------------------------------------------
(* The loop implements Delivery.                                           *)

\* The batches Delivery counts are those the handler counts.
BatchesCounted == \A r \in Requests : Cardinality(BatchesOn(r)) = returned[r]
LEMMA BatchCount == IInv => BatchesCounted
BY Batches, Zenon DEF IInv, BatchesCounted

\* A request is open for Delivery until runStream has returned.
LEMMA OutcomeOpen ==
  ASSUME NEW r \in Requests
  PROVE  /\ stage[r] # "over" => Outcome(r) = "open"
         /\ stage[r] = "over" => Outcome(r) \in {"complete", "incomplete", "silent"}
<1>1. CASE stage[r] # "over"
  BY <1>1 DEF Outcome
<1>2. CASE stage[r] = "over"
  <2> DEFINE Said(complete) ==
        LET w == wire[r]
        IN w # <<>> /\ Is(r, Len(w), "done") /\ w[Len(w)].complete = complete
  <2>1. Outcome(r) = CASE Said(TRUE) \/ reply[r] = "nocontent" -> "complete"
                       [] Said(FALSE) -> "incomplete"
                       [] OTHER -> "silent"
    BY <1>2 DEF Outcome
  <2> HIDE DEF Said
  <2> QED
    BY <1>2, <2>1
<1> QED
  BY <1>1, <1>2

\* A step of a request that is over does not exist.
LEMMA StepIsOpen ==
  ASSUME NEW r \in Requests, RequestInv(r), Step(r)
  PROVE  stage[r] # "over"
<1>1. CASE ProducerStep(r)
  BY <1>1 DEF RequestInv, Producer, Active, ProducerStep, Offer, EmitCancelled,
              EmitAcked, ProducerFails, ProducerDone
<1>2. CASE Handler(r)
  BY <1>2 DEF Handler, Receive, OverBudget, WriteFails, WriteOK, CancelProducer,
              SeeCtxDone, Join, SeeFinished, EndStream
<1> QED
  BY <1>1, <1>2 DEF Step, Refuse, Busy, Start, PingFails, Timeout, ClientLeaves, Active

\* What a step does to the numbers Delivery sees: one batch more is offered
\* when the last is on the wire, or one more written, and never after the end.
LEMMA StepCounts ==
  ASSUME TypeOK, NEW r \in Requests, RequestInv(r), Step(r)
  PROVE  \/ UNCHANGED <<offered[r], returned[r]>>
         \/ /\ offered'[r] = offered[r] + 1 /\ returned[r] = offered[r]
            /\ stage'[r] = stage[r] /\ UNCHANGED returned[r]
         \/ /\ returned'[r] = returned[r] + 1 /\ returned[r] < offered[r]
            /\ stage'[r] # "over" /\ UNCHANGED offered[r]
<1> USE DEF TypeOK
<1>1. CASE Offer(r)
  <2>1. CASE metaDone[r]
    <3>1. offered' = [offered EXCEPT ![r] = @ + 1]
      BY <1>1, <2>1 DEF Offer
    <3>2. Sent(r) = offered[r] + 1
      BY <1>1, <2>1 DEF Offer, RequestInv, Producer
    <3>3. returned[r] = offered[r]
      BY <3>2 DEF Sent
    <3> QED
      BY <1>1, <3>1, <3>3 DEF Offer, handlerVars
  <2>2. CASE ~metaDone[r]
    BY <1>1, <2>2 DEF Offer, handlerVars
  <2> QED
    BY <2>1, <2>2
<1>2. CASE WriteOK(r)
  <2>1. CASE msg[r].type = "records"
    <3>1. returned' = [returned EXCEPT ![r] = @ + 1]
      BY <1>2, <2>1 DEF WriteOK
    <3>2. Sent(r) = offered[r] /\ offered[r] # 0
      BY <1>2, <2>1 DEF WriteOK, RequestInv, Handover
    <3>3. returned[r] < offered[r]
      BY <3>2 DEF Sent
    <3> QED
      BY <1>2, <3>1, <3>3 DEF WriteOK, producerVars
  <2>2. CASE msg[r].type # "records"
    BY <1>2, <2>2 DEF WriteOK, producerVars
  <2> QED
    BY <2>1, <2>2
<1>3. CASE ProducerStep(r) /\ ~Offer(r)
  BY <1>3 DEF ProducerStep, EmitCancelled, EmitAcked, ProducerFails, ProducerDone,
              ProducerEnd, handlerVars
<1>4. CASE Handler(r) /\ ~WriteOK(r)
  BY <1>4 DEF Handler, Receive, OverBudget, WriteFails, CancelProducer, SeeCtxDone,
              Join, SeeFinished, EndStream, producerVars
<1> QED
  BY <1>1, <1>2, <1>3, <1>4 DEF Step, Refuse, Busy, Start, PingFails, Timeout,
                                ClientLeaves, handlerVars, producerVars

\* What is said at the end is "complete" only if everything is delivered.
LEMMA StepEnds ==
  ASSUME IInv, IInv', NEW r \in Requests, Step(r), stage'[r] = "over"
  PROVE  /\ UNCHANGED <<offered[r], returned[r]>>
         /\ Outcome(r)' = "complete" => returned[r] = offered[r]
<1>1. TypeOK /\ RequestInv(r) /\ TypeOK' /\ RequestInv(r)'
  BY DEF IInv
<1>2. stage[r] # "over" /\ reply[r] = "none"
  BY <1>1, StepIsOpen DEF RequestInv, Body
<1>3. UNCHANGED <<offered[r], returned[r]>>
  BY <1>1, <1>2, StepCounts
<1>4. CompleteIsComplete' /\ Cardinality(BatchesOn(r))' = returned'[r]
  <2>1. IInv' => CompleteIsComplete'
    BY CompleteAccounts, PTL
  <2>2. IInv' => BatchesCounted'
    BY BatchCount, PTL
  <2> QED
    BY <2>1, <2>2 DEF BatchesCounted
<1>5. ASSUME reply'[r] = "nocontent"
      PROVE  returned[r] = offered[r]
  <2>1. SeeFinished(r) /\ Replayed(r)
    BY <1>1, <1>2, <1>5, ZenonT(60) DEF TypeOK, Step, Refuse, Busy, Start, PingFails, Handler,
       Receive, OverBudget, WriteFails, WriteOK, CancelProducer, SeeCtxDone, Join,
       SeeFinished, EndStream, ProducerStep, Offer, EmitCancelled, EmitAcked,
       ProducerFails, ProducerDone, ProducerEnd, Timeout, ClientLeaves,
       handlerVars, producerVars
  <2>2. /\ prod[r] = "ended" /\ perr[r] = "none" /\ wire[r] = <<>>
    BY <1>1, <1>2, <2>1 DEF SeeFinished, Replayed, RequestInv, Finish, Body
  <2>3. Sent(r) = 0 /\ Sent(r) = IF metaDone[r] THEN offered[r] + 1 ELSE 0
    BY <1>1, <2>2 DEF Sent, RequestInv, Producer
  <2>4. offered[r] = 0 /\ returned[r] = 0
    BY <1>1, <2>3 DEF RequestInv, Producer, Body, TypeOK
  <2> QED
    BY <1>3, <2>4
<1>6. ASSUME reply'[r] # "nocontent", Outcome(r)' = "complete"
      PROVE  returned[r] = offered[r]
  <2> DEFINE w == wire'[r]
  <2>1. w # <<>> /\ w[Len(w)].type = "done" /\ w[Len(w)].complete = TRUE
    BY <1>6 DEF Outcome, Is
  <2>2. Len(w) \in DOMAIN w
    BY <1>1, <2>1 DEF TypeOK
  <2>3. Cardinality(BatchesOn(r))' = offered'[r]
    BY <1>4, <2>1, <2>2 DEF CompleteIsComplete, Is
  <2> QED
    BY <1>3, <1>4, <2>3
<1> QED
  BY <1>3, <1>5, <1>6

\* Another request looks the same to Delivery.
LEMMA OutcomeLocal ==
  ASSUME TypeOK, NEW r \in Requests, NEW q \in Requests, q # r, Step(r)
  PROVE  Outcome(q)' = Outcome(q) /\ UNCHANGED <<offered[q], returned[q]>>
<1>1. UNCHANGED Own(q)
  BY Local
<1> QED
  BY <1>1 DEF Own, Outcome, Is

\* The variables of Delivery in the terms of the handler.
Delivered == [r \in Requests |-> Cardinality(BatchesOn(r))]
Outcomes == [r \in Requests |-> Outcome(r)]

\* Every step of a request is a Produce, a Deliver, an End or a stutter.
LEMMA StepRefines ==
  ASSUME IInv, IInv', NEW r \in Requests, Step(r)
  PROVE  D!Next \/ UNCHANGED <<offered, Delivered, Outcomes>>
<1>1. /\ TypeOK /\ TypeOK' /\ RequestInv(r)
      /\ BatchesCounted /\ BatchesCounted'
  <2>1. BatchesCounted
    BY BatchCount
  <2>2. IInv' => BatchesCounted'
    BY BatchCount, PTL
  <2> QED
    BY <2>1, <2>2 DEF IInv
<1>2. /\ Delivered = returned /\ Delivered' = returned'
      /\ returned \in [Requests -> Nat] /\ returned' \in [Requests -> Nat]
      /\ offered \in [Requests -> Nat] /\ offered' \in [Requests -> Nat]
  BY <1>1 DEF TypeOK, BatchesCounted, Delivered
<1>3. \A q \in Requests : q # r =>
        Outcome(q)' = Outcome(q) /\ offered'[q] = offered[q] /\ returned'[q] = returned[q]
  BY <1>1, OutcomeLocal
<1>4. stage[r] # "over" /\ Outcome(r) = "open"
  BY <1>1, StepIsOpen, OutcomeOpen
<1>5. CASE stage'[r] = "over"
  <2>1. /\ UNCHANGED <<offered[r], returned[r]>>
        /\ Outcome(r)' = "complete" => returned[r] = offered[r]
    BY <1>5, StepEnds
  <2>2. Outcome(r)' \in {"complete", "incomplete", "silent"}
    BY <1>5 DEF Outcome
  <2>3. UNCHANGED <<offered, returned>>
    BY <1>2, <1>3, <2>1
  <2>4. Outcomes' = [Outcomes EXCEPT ![r] = Outcome(r)']
    BY <1>3 DEF Outcomes
  <2>5. D!End(r)
    BY <1>2, <1>4, <2>1, <2>2, <2>3, <2>4 DEF D!End, Outcomes, Delivered
  <2> QED
    BY <2>5 DEF D!Next
<1>6. CASE stage'[r] # "over"
  <2>1. Outcome(r)' = "open"
    BY <1>6 DEF Outcome
  <2>2. Outcomes' = Outcomes
    BY <1>3, <1>4, <2>1 DEF Outcomes
  <2>3. CASE UNCHANGED <<offered[r], returned[r]>>
    <3>1. UNCHANGED <<offered, returned>>
      BY <1>2, <1>3, <2>3
    <3> QED
      BY <1>2, <2>2, <3>1
  <2>4. CASE /\ offered'[r] = offered[r] + 1 /\ returned[r] = offered[r]
             /\ UNCHANGED returned[r]
    <3>1. offered' = [offered EXCEPT ![r] = @ + 1] /\ returned' = returned
      BY <1>2, <1>3, <2>4
    <3>2. D!Produce(r)
      BY <1>2, <1>4, <2>2, <2>4, <3>1 DEF D!Produce, Outcomes, Delivered
    <3> QED
      BY <3>2 DEF D!Next
  <2>5. CASE /\ returned'[r] = returned[r] + 1 /\ returned[r] < offered[r]
             /\ UNCHANGED offered[r]
    <3>1. returned' = [returned EXCEPT ![r] = @ + 1] /\ offered' = offered
      BY <1>2, <1>3, <2>5
    <3>2. D!Deliver(r)
      BY <1>2, <1>4, <2>2, <2>5, <3>1 DEF D!Deliver, Outcomes, Delivered
    <3> QED
      BY <3>2 DEF D!Next
  <2> QED
    BY <1>1, <2>3, <2>4, <2>5, StepCounts
<1> QED
  BY <1>5, <1>6

\* The loop implements Delivery: nothing is offered before the last batch is
\* on the wire, nothing moves once a request has ended, it ends once, and
\* "complete" only with everything delivered.
THEOREM LoopRefinesDelivery == Spec => RefinesDelivery
<1>1. Init => D!Init
  <2> SUFFICES ASSUME Init PROVE D!Init
    OBVIOUS
  <2>1. ASSUME NEW r \in Requests
        PROVE  Cardinality(BatchesOn(r)) = 0 /\ Outcome(r) = "open"
    <3>1. wire[r] = <<>> /\ stage[r] = "new"
      BY DEF Init
    <3>2. BatchesOn(r) = {}
      BY <3>1 DEF BatchesOn
    <3> QED
      BY <3>1, <3>2, FS_EmptySet, OutcomeOpen
  <2>2. offered = [r \in Requests |-> 0]
    BY DEF Init
  <2> QED
    BY <2>1, <2>2 DEF D!Init
<1>2. IInv /\ IInv' /\ [Next]_vars => [D!Next]_(D!deliveryVars)
  <2> SUFFICES ASSUME IInv, IInv', [Next]_vars
               PROVE  [D!Next]_(D!deliveryVars)
    OBVIOUS
  <2>1. CASE UNCHANGED vars
    BY <2>1 DEF vars, handlerVars, producerVars, D!deliveryVars, BatchesOn, Is, Outcome
  <2>2. ASSUME NEW r \in Requests, Step(r)
        PROVE  [D!Next]_(D!deliveryVars)
    BY <2>2, StepRefines DEF D!deliveryVars, Delivered, Outcomes
  <2> QED
    BY <2>1, <2>2, NextIsStep
<1> QED
  BY <1>1, <1>2, LoopInvariant, PTL DEF Spec, RefinesDelivery, D!Spec
=============================================================================
