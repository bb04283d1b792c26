----------------------------- MODULE StreamLoop ------------------------------
(***************************************************************************)
(* The consumer side of the streaming endpoints: StreamHandler.Raw and     *)
(* TimeSeries take a slot of the limiter and run runStream, whose select   *)
(* loop talks to the producer goroutine through an unbuffered channel of   *)
(* emissions and one buffered acknowledgement per emission, writes to the  *)
(* client, counts bytes, and ends with endStream.  Every select with       *)
(* several ready cases may take any of them.                               *)
(*                                                                         *)
(* A cursor is the number of records of the snapshot before it, 0 being    *)
(* none; every batch carries one record.  The producer (StreamRaw and      *)
(* StreamTimeSeries, see RawStream) is any goroutine that emits a meta and *)
(* then batches, returns an error emit gave it, and otherwise returns a    *)
(* StreamDone or an error of its own.                                      *)
(***************************************************************************)
EXTENDS Integers, Sequences, FiniteSets

CONSTANTS
  Requests,    \* the streaming requests that arrive
  Kinds,       \* what they ask for: [format, resumable, base], see below
  MaxStreams,  \* TAP_MAX_CONCURRENT_STREAMS
  MaxBytes,    \* TAP_STREAM_MAX_BYTES
  Sizes,       \* encoded sizes of a message, newline included
  MaxBatches   \* bound: batches a producer emits

ASSUME LimitsAssumption ==
  /\ MaxStreams \in Nat \ {0} /\ MaxBytes \in Nat \ {0} /\ MaxBatches \in Nat
\* format is "sse" or "ndjson"; resumable: a raw stream of one cluster, whose
\* batches carry a cursor; base: the cursor the request came with.
ASSUME KindsAssumption ==
  /\ Kinds \subseteq [format : {"sse", "ndjson"}, resumable : BOOLEAN,
                      base : Nat]
  /\ \A k \in Kinds : k.base # 0 => k.resumable
ASSUME SizesAssumption == Sizes # {} /\ Sizes \subseteq Nat \ {0}
ASSUME RequestsAssumption == IsFiniteSet(Requests)

VARIABLES
  \* the handler goroutine of a request
  stage,      \* where it is
  slots,      \* tokens in Limiter.sem
  kind,       \* what it asks for
  gone,       \* the client has closed the connection
  began,      \* sw # nil
  broken,     \* sw.failed
  wire,       \* the messages written to the client
  reply,      \* what else it was answered with
  returned, bytes, cursor,  \* progress
  result,     \* what endStream is told: the StreamDone and the error
  \* the producer goroutine and what it shares with the handler
  prod,       \* where it is
  offered,    \* batches it has offered
  metaDone,   \* it has offered the meta message
  msg,        \* the emission it has offered
  ack,        \* the emission's channel: "none" while it is empty
  perr,       \* the error emit returned to it
  finished,   \* the finished channel
  ctx         \* "live", "cancelled" or "timedout"

handlerVars == <<stage, slots, began, broken, wire, reply, returned, bytes,
                 cursor, result>>
producerVars == <<prod, offered, metaDone, msg, perr, finished>>
vars == <<handlerVars, producerVars, kind, ack, ctx, gone>>

Errors == {"none", "search", "byte_limit", "closed", "cancelled", "timedout"}
Results == [done : {"none", "complete", "limit"}, err : Errors]
NoResult == [done |-> "none", err |-> "none"]

\* streamErrorFrom: an error that is neither of the search, of the service
\* nor a passed deadline is a "stream_failed".
Kind(e) == CASE e = "timedout" -> "query_timeout"
             [] e \in {"cancelled", "closed"} -> "stream_failed"
             [] OTHER -> e

\* The id of the n-th batch, and the cursor of a StreamDone after n batches.
CursorAfter(r, n) == IF kind[r].resumable /\ n > 0 THEN kind[r].base + n ELSE 0

Active(r) == stage[r] \notin {"new", "over"}

\* What a handler puts on the wire, and what a producer offers it.
Emission == [type : {"meta", "records"}, size : Sizes, id : Nat]
Message ==
  Emission
  \cup [type : {"error"}, kind : {Kind(e) : e \in Errors}]
  \cup [type : {"done"}, status : {"success", "partial", "failed"},
        complete : BOOLEAN, truncated : BOOLEAN, returned : Nat, bytes : Nat,
        id : Nat,
        reason : {"exhausted", "record_limit"} \cup {Kind(e) : e \in Errors}]

TypeOK ==
  /\ stage \in [Requests -> {"new", "select", "handle", "fail", "join",
                             "close", "over"}]
  /\ slots \in Nat
  /\ kind \in [Requests -> Kinds]
  /\ gone \in [Requests -> BOOLEAN]
  /\ began \in [Requests -> BOOLEAN] /\ broken \in [Requests -> BOOLEAN]
  /\ reply \in [Requests -> {"none", "refused", "busy", "json", "nocontent"}]
  /\ returned \in [Requests -> Nat] /\ bytes \in [Requests -> Nat]
  /\ cursor \in [Requests -> Nat]
  /\ result \in [Requests -> Results] /\ finished \in [Requests -> Results]
  /\ prod \in [Requests -> {"none", "work", "offer", "wait", "ended"}]
  /\ offered \in [Requests -> Nat] /\ metaDone \in [Requests -> BOOLEAN]
  /\ msg \in [Requests -> Emission]
  /\ ack \in [Requests -> {"none", "ok", "byte_limit", "closed"}]
  /\ perr \in [Requests -> Errors]
  /\ ctx \in [Requests -> {"live", "cancelled", "timedout"}]
  /\ wire \in [Requests -> Seq(Message)]

Init ==
  /\ stage = [r \in Requests |-> "new"] /\ slots = 0
  /\ kind \in [Requests -> Kinds]
  /\ gone = [r \in Requests |-> FALSE]
  /\ began = [r \in Requests |-> FALSE] /\ broken = [r \in Requests |-> FALSE]
  /\ wire = [r \in Requests |-> <<>>] /\ reply = [r \in Requests |-> "none"]
  /\ returned = [r \in Requests |-> 0] /\ bytes = [r \in Requests |-> 0]
  /\ cursor = [r \in Requests |-> 0]
  /\ result = [r \in Requests |-> NoResult]
  /\ finished = [r \in Requests |-> NoResult]
  /\ prod = [r \in Requests |-> "none"]
  /\ offered = [r \in Requests |-> 0]
  /\ metaDone = [r \in Requests |-> FALSE]
  /\ msg = [r \in Requests |-> [type |-> "meta", id |-> 0,
                                 size |-> CHOOSE s \in Sizes : TRUE]]
  /\ ack = [r \in Requests |-> "none"] /\ perr = [r \in Requests |-> "none"]
  /\ ctx = [r \in Requests |-> "live"]

-----------------------------------------------------------------------------
(* Raw and TimeSeries up to runStream.                                     *)

\* A request that does not bind (parameters, POST body, format, clusters).
Refuse(r) ==
  /\ stage[r] = "new"
  /\ stage' = [stage EXCEPT ![r] = "over"]
  /\ reply' = [reply EXCEPT ![r] = "refused"]
  /\ UNCHANGED <<slots, began, broken, wire, returned, bytes, cursor, result,
                 producerVars, kind, ack, ctx, gone>>

\* Limiter.Acquire does not wait: without a free slot it is a 429.
Busy(r) ==
  /\ stage[r] = "new" /\ slots >= MaxStreams
  /\ stage' = [stage EXCEPT ![r] = "over"]
  /\ reply' = [reply EXCEPT ![r] = "busy"]
  /\ UNCHANGED <<slots, began, broken, wire, returned, bytes, cursor, result,
                 producerVars, kind, ack, ctx, gone>>

Start(r) ==
  /\ stage[r] = "new" /\ slots < MaxStreams
  /\ slots' = slots + 1
  /\ stage' = [stage EXCEPT ![r] = "select"]
  /\ prod' = [prod EXCEPT ![r] = "work"]
  /\ UNCHANGED <<began, broken, wire, reply, returned, bytes, cursor, result,
                 offered, metaDone, msg, perr, finished,
                 kind, ack, ctx, gone>>

-----------------------------------------------------------------------------
(* The producer goroutine and the emit function it is given.               *)

\* emit(): a new emission with an empty acknowledgement channel.
Offer(r) ==
  /\ prod[r] = "work" /\ perr[r] = "none"
  /\ \E s \in Sizes :
       IF metaDone[r]
       THEN /\ offered[r] < MaxBatches
            /\ offered' = [offered EXCEPT ![r] = @ + 1]
            /\ msg' = [msg EXCEPT ![r] = [type |-> "records", size |-> s,
                                          id |-> CursorAfter(r, offered'[r])]]
       ELSE /\ msg' = [msg EXCEPT ![r] = [type |-> "meta", size |-> s,
                                          id |-> 0]]
            /\ UNCHANGED offered
  /\ metaDone' = [metaDone EXCEPT ![r] = TRUE]
  /\ prod' = [prod EXCEPT ![r] = "offer"]
  /\ ack' = [ack EXCEPT ![r] = "none"]
  /\ UNCHANGED <<handlerVars, perr, finished, kind, ctx, gone>>

\* MUTANT of EmitCancelled: the send of the emission has no ctx.Done case.
EmitCancelledWaiting(r) ==
  /\ prod[r] = "wait" /\ ctx[r] # "live"
  /\ prod' = [prod EXCEPT ![r] = "work"]
  /\ perr' = [perr EXCEPT ![r] = ctx[r]]
  /\ UNCHANGED <<handlerVars, offered, metaDone, msg, finished,
                 kind, ack, ctx, gone>>

\* emit() in either select, with the context done: it returns ctx.Err().
EmitCancelled(r) ==
  /\ prod[r] \in {"offer", "wait"} /\ ctx[r] # "live"
  /\ prod' = [prod EXCEPT ![r] = "work"]
  /\ perr' = [perr EXCEPT ![r] = ctx[r]]
  /\ UNCHANGED <<handlerVars, offered, metaDone, msg, finished,
                 kind, ack, ctx, gone>>

EmitAcked(r) ==
  /\ prod[r] = "wait" /\ ack[r] # "none"
  /\ prod' = [prod EXCEPT ![r] = "work"]
  /\ perr' = [perr EXCEPT ![r] = IF ack[r] = "ok" THEN "none" ELSE ack[r]]
  /\ UNCHANGED <<handlerVars, offered, metaDone, msg, finished,
                 kind, ack, ctx, gone>>

\* The producer is through and puts its result into the finished channel.
ProducerEnd(r, res) ==
  /\ prod' = [prod EXCEPT ![r] = "ended"]
  /\ finished' = [finished EXCEPT ![r] = res]
  /\ UNCHANGED <<handlerVars, offered, metaDone, msg, perr,
                 kind, ack, ctx, gone>>

\* The error of emit, of a search, or of the context.
ProducerFails(r) ==
  /\ prod[r] = "work"
  /\ \/ perr[r] # "none" /\ ProducerEnd(r, [done |-> "none", err |-> perr[r]])
     \/ /\ perr[r] = "none" /\ ctx[r] # "live"
        /\ ProducerEnd(r, [done |-> "none", err |-> ctx[r]])
     \/ perr[r] = "none" /\ ProducerEnd(r, [done |-> "none", err |-> "search"])

\* A StreamDone after the meta and some batches, or, for the cursor of a
\* completed stream, before anything (StreamRaw's replay of a done cursor).
ProducerDone(r) ==
  /\ prod[r] = "work" /\ perr[r] = "none"
  /\ \E d \in {"complete", "limit"} :
       /\ \/ metaDone[r] /\ (d = "limit" => offered[r] > 0)
          \/ ~metaDone[r] /\ kind[r].base # 0 /\ d = "complete"
       /\ ProducerEnd(r, [done |-> d, err |-> "none"])

\* The cursor of that StreamDone: resumeToken of the last record, or, when
\* the stream was a replay, the request's own.
DoneCursor(r) == IF metaDone[r] THEN CursorAfter(r, offered[r]) ELSE kind[r].base

-----------------------------------------------------------------------------
(* The select loop of runStream.                                           *)

Receive(r) ==
  /\ stage[r] = "select" /\ prod[r] = "offer"
  /\ stage' = [stage EXCEPT ![r] = "handle"]
  /\ prod' = [prod EXCEPT ![r] = "wait"]
  /\ UNCHANGED <<slots, began, broken, wire, reply, returned, bytes, cursor,
                 result, offered, metaDone, msg, perr, finished,
                 kind, ack, ctx, gone>>

\* The emission is written and acknowledged, unless the budget is exhausted
\* or the write fails; write() begins the stream on first use.
OverBudget(r) ==
  /\ stage[r] = "handle" /\ bytes[r] + msg[r].size > MaxBytes
  /\ ack' = [ack EXCEPT ![r] = "byte_limit"]
  /\ stage' = [stage EXCEPT ![r] = "fail"]
  /\ UNCHANGED <<slots, began, broken, wire, reply, returned, bytes, cursor,
                 result, producerVars, kind, ctx, gone>>

\* MUTANT of WriteFails: a write that fails is acknowledged as if it had not.
WriteFailsAcked(r) ==
  /\ stage[r] = "handle" /\ bytes[r] + msg[r].size <= MaxBytes
  /\ began' = [began EXCEPT ![r] = TRUE]
  /\ broken' = [broken EXCEPT ![r] = TRUE]
  /\ ack' = [ack EXCEPT ![r] = "ok"]
  /\ stage' = [stage EXCEPT ![r] = "fail"]
  /\ UNCHANGED <<slots, wire, reply, returned, bytes, cursor,
                 result, producerVars, kind, ctx, gone>>

WriteFails(r) ==
  /\ stage[r] = "handle" /\ bytes[r] + msg[r].size <= MaxBytes
  /\ began' = [began EXCEPT ![r] = TRUE]
  /\ broken' = [broken EXCEPT ![r] = TRUE]
  /\ ack' = [ack EXCEPT ![r] = "closed"]
  /\ stage' = [stage EXCEPT ![r] = "fail"]
  /\ UNCHANGED <<slots, wire, reply, returned, bytes, cursor,
                 result, producerVars, kind, ctx, gone>>

WriteOK(r) ==
  /\ stage[r] = "handle" /\ bytes[r] + msg[r].size <= MaxBytes /\ ~broken[r]
  /\ began' = [began EXCEPT ![r] = TRUE]
  /\ wire' = [wire EXCEPT ![r] = Append(@, msg[r])]
  /\ bytes' = [bytes EXCEPT ![r] = @ + msg[r].size]
  /\ IF msg[r].type = "records"
     THEN /\ returned' = [returned EXCEPT ![r] = @ + 1]
          /\ cursor' = [cursor EXCEPT ![r] = msg[r].id]
     ELSE UNCHANGED <<returned, cursor>>
  /\ ack' = [ack EXCEPT ![r] = "ok"]
  /\ stage' = [stage EXCEPT ![r] = "select"]
  /\ UNCHANGED <<slots, broken, reply, result, producerVars, kind, ctx,
                 gone>>

\* MUTANT of CancelProducer: the producer is waited for without cancel().
CancelProducerNot(r) ==
  /\ stage[r] = "fail" /\ stage' = [stage EXCEPT ![r] = "join"]
  /\ UNCHANGED <<slots, began, broken, wire, reply, returned, bytes, cursor,
                 result, producerVars, kind, ack, ctx, gone>>

\* After a failed emission: cancel(), then wait for the producer.
CancelProducer(r) ==
  /\ stage[r] = "fail"
  /\ ctx' = [ctx EXCEPT ![r] = IF @ = "live" THEN "cancelled" ELSE @]
  /\ stage' = [stage EXCEPT ![r] = "join"]
  /\ UNCHANGED <<slots, began, broken, wire, reply, returned, bytes, cursor,
                 result, producerVars, kind, ack, gone>>

\* MUTANT of SeeCtxDone: the handler leaves without waiting for the producer.
SeeCtxDoneNoJoin(r) ==
  /\ stage[r] = "select" /\ ctx[r] # "live"
  /\ stage' = [stage EXCEPT ![r] = "close"]
  /\ result' = [result EXCEPT ![r] = [done |-> "none", err |-> ctx[r]]]
  /\ UNCHANGED <<slots, began, broken, wire, reply, returned, bytes, cursor,
                 producerVars, kind, ack, ctx, gone>>

\* The context case of the select.
SeeCtxDone(r) ==
  /\ stage[r] = "select" /\ ctx[r] # "live"
  /\ stage' = [stage EXCEPT ![r] = "join"]
  /\ UNCHANGED <<slots, began, broken, wire, reply, returned, bytes, cursor,
                 result, producerVars, kind, ack, ctx, gone>>

\* The producer's own error wins over what made the handler stop.
Join(r) ==
  /\ stage[r] = "join" /\ prod[r] = "ended"
  /\ LET cause == IF ack[r] \in {"byte_limit", "closed"} THEN ack[r]
                                                         ELSE ctx[r]
     IN result' = [result EXCEPT ![r] =
          IF finished[r].err = "none" THEN [finished[r] EXCEPT !.err = cause]
                                      ELSE finished[r]]
  /\ stage' = [stage EXCEPT ![r] = "close"]
  /\ UNCHANGED <<slots, began, broken, wire, reply, returned, bytes, cursor,
                 producerVars, kind, ack, ctx, gone>>

\* runStream returns: the slot is released and the context cancelled.
Leave(r) == /\ stage' = [stage EXCEPT ![r] = "over"]
            /\ slots' = slots - 1
            /\ ctx' = [ctx EXCEPT ![r] = IF @ = "live" THEN "cancelled" ELSE @]

\* MUTANT of Replayed: also when the stream has begun.
ReplayedAnyTime(r) ==
  /\ finished[r].err = "none" /\ kind[r].format = "sse"
  /\ finished[r].done = "complete" /\ DoneCursor(r) # 0

\* A completed SSE stream is replayed from its cursor.
Replayed(r) ==
  /\ ~began[r] /\ finished[r].err = "none" /\ kind[r].format = "sse"
  /\ finished[r].done = "complete" /\ DoneCursor(r) # 0

\* The producer has finished by itself.  A replayed stream gets a 204;
\* otherwise the stream is begun, even
\* for a StreamDone alone.
SeeFinished(r) ==
  /\ stage[r] = "select" /\ prod[r] = "ended"
  /\ IF Replayed(r)
     THEN /\ reply' = [reply EXCEPT ![r] = "nocontent"]
          /\ Leave(r)
          /\ UNCHANGED <<began, result>>
     ELSE /\ began' = [began EXCEPT ![r] = @ \/ finished[r].err = "none"]
          /\ result' = [result EXCEPT ![r] = finished[r]]
          /\ stage' = [stage EXCEPT ![r] = "close"]
          /\ UNCHANGED <<slots, reply, ctx>>
  /\ UNCHANGED <<broken, wire, returned, bytes, cursor, producerVars,
                 kind, ack, gone>>

\* The heartbeat fails; a ping that is written changes nothing.
PingFails(r) ==
  /\ stage[r] = "select" /\ began[r] /\ ~broken[r]
  /\ broken' = [broken EXCEPT ![r] = TRUE]
  /\ UNCHANGED <<stage, slots, began, wire, reply, returned, bytes, cursor,
                 result, producerVars, kind, ack, ctx, gone>>

-----------------------------------------------------------------------------
(* endStream.                                                              *)

ErrorMessage(e) == [type |-> "error", kind |-> Kind(e)]

\* MUTANT of FailedDone: the cursor is that of the producer's last batch.
FailedDoneOffered(r) ==
  [type |-> "done", status |-> IF returned[r] > 0 THEN "partial" ELSE "failed",
   complete |-> FALSE, reason |-> Kind(result[r].err),
   truncated |-> result[r].err = "byte_limit",
   returned |-> returned[r], bytes |-> bytes[r],
   id |-> CursorAfter(r, offered[r])]

\* The final message of a stream that failed, and of one that did not; an
\* absent cursor is filled in with the last one written unless complete.
FailedDone(r) ==
  [type |-> "done", status |-> IF returned[r] > 0 THEN "partial" ELSE "failed",
   complete |-> FALSE, reason |-> Kind(result[r].err),
   truncated |-> result[r].err = "byte_limit",
   returned |-> returned[r], bytes |-> bytes[r], id |-> cursor[r]]
SuccessDone(r) ==
  LET complete == result[r].done = "complete"
  IN [type |-> "done", status |-> "success", complete |-> complete,
      reason |-> IF complete THEN "exhausted" ELSE "record_limit",
      truncated |-> ~complete,
      returned |-> returned[r], bytes |-> bytes[r],
      id |-> IF DoneCursor(r) = 0 /\ ~complete THEN cursor[r]
                                               ELSE DoneCursor(r)]

\* sw.write of the closing messages: the first k of them get through.
WriteLast(r, messages) ==
  \E k \in 0..Len(messages) :
    /\ broken[r] => k = 0
    /\ wire' = [wire EXCEPT ![r] = @ \o SubSeq(messages, 1, k)]

EndStream(r) ==
  /\ stage[r] = "close" /\ Leave(r)
  /\ \/ /\ result[r].err = "none"
        /\ WriteLast(r, <<SuccessDone(r)>>) /\ UNCHANGED reply
     \/ /\ result[r].err # "none" /\ gone[r] /\ UNCHANGED <<wire, reply>>
     \/ /\ result[r].err # "none" /\ ~gone[r] /\ ~began[r]
        /\ reply' = [reply EXCEPT ![r] = "json"] /\ UNCHANGED wire
     \/ /\ result[r].err # "none" /\ ~gone[r] /\ began[r]
        /\ WriteLast(r, <<ErrorMessage(result[r].err), FailedDone(r)>>)
        /\ UNCHANGED reply
  /\ UNCHANGED <<began, broken, returned, bytes, cursor, result,
                 producerVars, kind, ack, gone>>

-----------------------------------------------------------------------------
(* The outside: the deadline of the stream and the client.                 *)

Timeout(r) ==
  /\ Active(r) /\ ctx[r] = "live"
  /\ ctx' = [ctx EXCEPT ![r] = "timedout"]
  /\ UNCHANGED <<handlerVars, producerVars, kind, ack, gone>>

ClientLeaves(r) ==
  /\ Active(r) /\ ~gone[r]
  /\ gone' = [gone EXCEPT ![r] = TRUE]
  /\ ctx' = [ctx EXCEPT ![r] = IF @ = "live" THEN "cancelled" ELSE @]
  /\ UNCHANGED <<handlerVars, producerVars, kind, ack>>

Terminated == (\A r \in Requests : stage[r] = "over") /\ UNCHANGED vars

Handler(r) ==
  \/ Receive(r) \/ OverBudget(r) \/ WriteFails(r) \/ WriteOK(r)
  \/ CancelProducer(r) \/ SeeCtxDone(r) \/ Join(r) \/ SeeFinished(r)
  \/ EndStream(r)
ProducerStep(r) ==
  Offer(r) \/ EmitCancelled(r) \/ EmitAcked(r) \/ ProducerFails(r)
  \/ ProducerDone(r)

Next ==
  \/ Terminated
  \/ \E r \in Requests :
       \/ Refuse(r) \/ Busy(r) \/ Start(r) \/ PingFails(r)
       \/ Handler(r) \/ ProducerStep(r) \/ Timeout(r) \/ ClientLeaves(r)

Spec == Init /\ [][Next]_vars

\* Requests are served, writes have a deadline and the timer runs.  The
\* backend may hang: the producer is only sure to move once its context is
\* done, or out of emit() when it has its acknowledgement.
Fairness ==
  \A r \in Requests :
    /\ WF_vars(Start(r) \/ Busy(r) \/ Refuse(r))
    /\ WF_vars(Handler(r)) /\ WF_vars(Timeout(r))
    /\ WF_vars(ctx[r] # "live" /\ ProducerStep(r))
    /\ WF_vars(EmitAcked(r))

FairSpec == Spec /\ Fairness

-----------------------------------------------------------------------------
(* What the endpoints promise.                                             *)

Is(r, k, t) == wire[r][k].type = t
BatchesOn(r) == {k \in DOMAIN wire[r] : Is(r, k, "records")}

\* The order of the messages: one meta before every batch, at most one error
\* and only right before the done, nothing after the done; a done may stand
\* alone when a completed stream is replayed.  A request that was answered in
\* another way gets no message at all (API.md, "Order").
WireGrammar ==
  \A r \in Requests :
    /\ \A k \in DOMAIN wire[r] :
         /\ Is(r, k, "meta") <=> k = 1 /\ ~Is(r, 1, "done") /\ ~Is(r, 1, "error")
         /\ Is(r, k, "records") => Is(r, 1, "meta")
         /\ Is(r, k, "done") => k = Len(wire[r])
         /\ Is(r, k, "error") =>
              k = Len(wire[r]) \/ (k + 1 = Len(wire[r]) /\ Is(r, k + 1, "done"))
    /\ reply[r] # "none" => wire[r] = <<>>

\* The accounts in the done are those of the wire, however the producer's
\* view and the handler's have drifted apart when they were torn down:
\* returned counts the batches written, bytes stays within the budget, and
\* a client that resumes from the last id neither misses a record nor gets
\* one twice (endStream reports progress, not the producer's numbers).
DoneMatchesWire ==
  \A r \in Requests : \A k \in DOMAIN wire[r] :
    Is(r, k, "done") =>
      LET d == wire[r][k]
          n == Cardinality(BatchesOn(r))
      IN /\ d.returned = n
         /\ d.bytes <= MaxBytes
         /\ Is(r, 1, "meta") => d.id = CursorAfter(r, n)
         /\ d.truncated => ~d.complete

\* complete is never claimed for a stream that lost something: every batch
\* the producer offered is on the wire and no error is.
CompleteIsComplete ==
  \A r \in Requests : \A k \in DOMAIN wire[r] :
    Is(r, k, "done") /\ wire[r][k].complete =>
      /\ Cardinality(BatchesOn(r)) = offered[r]
      /\ \A j \in DOMAIN wire[r] : ~Is(r, j, "error")

\* A slot is held from the moment a producer is started until it has ended,
\* so that never more than MaxStreams producers are reading from the backend
\* (the deferred join of runStream before the deferred Release).
SlotsCoverProducers ==
  /\ slots = Cardinality({r \in Requests : Active(r)})
  /\ Cardinality({r \in Requests : prod[r] \in {"work", "offer", "wait"}})
       <= MaxStreams

\* The handler and the producer never wait for each other: a handler waits
\* only for a producer that has been told to stop, and a producer with an
\* emission in hand only for a handler that is about to take it or to
\* answer it, unless it has been told to stop (cancel() before <-finished, and
\* one acknowledgement for every emission received, whatever has failed).
NoCircularWait ==
  \A r \in Requests :
    /\ stage[r] = "join" => ctx[r] # "live"
    /\ prod[r] = "offer" => stage[r] = "select" \/ ctx[r] # "live"
    /\ prod[r] = "wait" => stage[r] = "handle" \/ ack[r] # "none"

\* What has become of a request, as its client sees it.
Outcome(r) ==
  LET w == wire[r]
      Said(complete) == w # <<>> /\ Is(r, Len(w), "done")
                        /\ w[Len(w)].complete = complete
  IN IF stage[r] # "over" THEN "open"
     ELSE CASE Said(TRUE) \/ reply[r] = "nocontent" -> "complete"
            [] Said(FALSE) -> "incomplete"
            [] OTHER -> "silent"

D == INSTANCE Delivery WITH
       produced <- offered,
       delivered <- [r \in Requests |-> Cardinality(BatchesOn(r))],
       outcome <- [r \in Requests |-> Outcome(r)]

\* The loop implements Delivery: a producer goes on to the next batch only
\* when its last one is on the wire, so an emission is acknowledged for what
\* happened to it; nothing is written, and nothing more is produced, once a
\* request has ended; it ends once.
RefinesDelivery == D!Spec

\* Whatever the backend, the client and the timer do, every request comes to
\* its end, gives its slot back, and its producer has ended.
EveryRequestEnds ==
  <>[](/\ \A r \in Requests : stage[r] = "over" /\ prod[r] \in {"none", "ended"}
       /\ slots = 0)

-----------------------------------------------------------------------------
(* Why they hold: an inductive invariant, request by request.              *)

\* Emissions on the wire: the meta and the batches counted as returned.
Sent(r) == IF wire[r] # <<>> /\ Is(r, 1, "meta") THEN returned[r] + 1 ELSE 0

\* The wire starts with them, and the handler's progress is theirs.
Body(r) ==
  /\ Sent(r) <= Len(wire[r])
  /\ \A k \in 1..Sent(r) : wire[r][k].type = IF k = 1 THEN "meta" ELSE "records"
  /\ Sent(r) = 0 => returned[r] = 0
  /\ cursor[r] = CursorAfter(r, returned[r])
  /\ bytes[r] <= MaxBytes
  /\ stage[r] # "over" => Len(wire[r]) = Sent(r)
  /\ stage[r] # "over" /\ ~began[r] => wire[r] = <<>>
  /\ reply[r] # "none" => stage[r] = "over" /\ wire[r] = <<>>

\* After them come the closing messages, as far as they got through.
Closing(r) ==
  LET n == Sent(r)
      m == Len(wire[r])
  IN stage[r] = "over" =>
       \/ m = n
       \/ /\ m = n + 1 /\ wire[r][m] = SuccessDone(r)
          /\ result[r] = finished[r] /\ result[r].err = "none"
          /\ prod[r] = "ended"
       \/ /\ m \in {n + 1, n + 2} /\ wire[r][n + 1].type = "error"
          /\ result[r].err # "none"
          /\ m = n + 2 => wire[r][m] = FailedDone(r)

\* An emission that waits for the handler, and what it was acknowledged with.
Handover(r) ==
  /\ prod[r] \in {"offer", "wait"} => metaDone[r] /\ perr[r] = "none"
  /\ prod[r] = "offer" =>
       ack[r] = "none" /\ stage[r] \notin {"handle", "fail"} /\ Sent(r) = offered[r]
  /\ stage[r] = "handle" =>
       /\ ack[r] = "none" /\ metaDone[r] /\ Sent(r) = offered[r]
       /\ prod[r] = "wait" \/ perr[r] # "none"
  /\ prod[r] = "offer" \/ stage[r] = "handle" =>
       /\ msg[r].type = IF offered[r] = 0 THEN "meta" ELSE "records"
       /\ offered[r] > 0 => msg[r].id = CursorAfter(r, offered[r])
  /\ prod[r] = "wait" =>
       /\ ack[r] = "none" => stage[r] = "handle"
       /\ ack[r] = "ok" => Sent(r) = offered[r] + 1
  /\ ack[r] \in {"byte_limit", "closed"} => prod[r] = "wait" \/ perr[r] # "none"
  /\ stage[r] = "fail" => ack[r] \in {"byte_limit", "closed"}

\* A producer that has met no error has every emission on the wire.
Producer(r) ==
  /\ stage[r] = "new" => prod[r] = "none"
  /\ prod[r] = "none" =>
       stage[r] \in {"new", "over"} /\ ~metaDone[r] /\ perr[r] = "none"
  /\ prod[r] \in {"work", "offer", "wait"} => Active(r)
  /\ stage[r] = "close" => prod[r] = "ended"
  /\ ~metaDone[r] => offered[r] = 0 /\ Sent(r) = 0
  /\ perr[r] # "none" => metaDone[r]
  /\ perr[r] = "none" /\ prod[r] \in {"work", "ended"} =>
       Sent(r) = IF metaDone[r] THEN offered[r] + 1 ELSE 0

\* The result is the producer's own unless the handler was stopped.
Finish(r) ==
  /\ prod[r] = "ended" =>
       /\ finished[r].err = "none" <=> finished[r].done # "none"
       /\ finished[r].err = "none" => perr[r] = "none"
  /\ stage[r] = "join" => ctx[r] # "live"
  /\ stage[r] = "close" /\ result[r].err = "none" => result[r] = finished[r]

SlotsTaken ==
  /\ slots = Cardinality({r \in Requests : Active(r)})
  /\ slots <= MaxStreams

RequestInv(r) == Body(r) /\ Closing(r) /\ Handover(r) /\ Producer(r) /\ Finish(r)
IInv == TypeOK /\ SlotsTaken /\ \A r \in Requests : RequestInv(r)
=============================================================================
