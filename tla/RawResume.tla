----------------------------- MODULE RawResume -------------------------------
(***************************************************************************)
(* One client that follows a single-cluster GET /data/raw/stream over      *)
(* several connections.  Each connection is a run of StreamRaw; what they  *)
(* share is the client's last cursor (the id of the last message it got)   *)
(* and the point-in-time snapshots in Elasticsearch, whose leases run out. *)
(* A connection that the client has lost goes on at the server until it    *)
(* notices, so an old connection and its successor overlap.  The server    *)
(* may be restarted: its process takes every connection with it, and no    *)
(* deferred call of theirs runs, but the snapshots stay.                   *)
(*                                                                         *)
(* This is RawStream at the granularity of batches: the page after the one *)
(* just taken is prefetched and applied before the batch goes out.  A      *)
(* snapshot is named by the connection that opened it and holds the        *)
(* records 1..total.                                                       *)
(***************************************************************************)
EXTENDS Integers, Sequences

CONSTANTS
  MaxConns,   \* bound: connections the client makes
  Totals,     \* how many records a snapshot may hold
  PageSize,   \* req.Size
  MaxRecords, \* records of one stream
  KeepAlive,  \* TAP_STREAM_PIT_KEEP_ALIVE
  MaxStarts,  \* bound: processes of the server
  MaxTime     \* bound: ticks of the clock

ASSUME BoundsAssumption ==
  /\ MaxConns \in Nat /\ MaxTime \in Nat /\ MaxStarts \in Nat /\ Totals \subseteq Nat
  /\ PageSize \in Nat \ {0} /\ MaxRecords \in Nat \ {0}
  /\ KeepAlive \in Nat \ {0}

Conns == 1..MaxConns

VARIABLES
  now,       \* the time, of the server and of Elasticsearch
  stableKey, \* TAP_STREAM_CURSOR_KEY is set
  process,   \* the server's process, by number
  up,        \* it runs
  \* Elasticsearch, per snapshot
  pit,       \* "none", "open" or "closed"
  total,     \* its records
  keptUntil, \* when its lease runs out unless a search extends it
  \* the server, per connection
  stage,     \* where StreamRaw is
  snap,      \* it.pitID
  base,      \* the cursor's After, 0 for a new stream
  taken,     \* committedAfter, 0 if no record was taken
  after,     \* searchAfter: the end of the buffer
  short,     \* it.done
  fetched,   \* what prefetchCh holds: "none", "page", "gone" or "failed"
  lease,     \* it.leaseUntil
  acked,     \* the last record whose emission was acknowledged
  \* the client
  link,      \* the connection it listens to, 0 if none
  lastId,    \* the cursor it holds
  log,       \* the records it has received, in order
  client     \* "following", "complete", "expired" or "rejected"

processVars == <<stableKey, process, up>>
serverVars == <<snap, base, taken, after, short, fetched, lease, acked>>
esVars == <<pit, total, keptUntil>>
clientVars == <<link, lastId, log, client>>
vars == <<now, processVars, stage, serverVars, esVars, clientVars>>

Cursors == [pit : Nat, after : Nat, expires : Nat, done : BOOLEAN, key : Nat]
NoCursor == [pit |-> 0, after |-> 0, expires |-> 0, done |-> FALSE, key |-> 0]

TypeOK ==
  /\ now \in Nat
  /\ stableKey \in BOOLEAN /\ process \in Nat /\ up \in BOOLEAN
  /\ pit \in [Conns -> {"none", "open", "closed"}]
  /\ total \in [Conns -> Nat] /\ keptUntil \in [Conns -> Nat]
  /\ stage \in [Conns -> {"unused", "meta", "first", "take", "next", "emit",
                          "flush", "finish", "close", "closed"}]
  /\ snap \in [Conns -> Nat] /\ base \in [Conns -> Nat]
  /\ taken \in [Conns -> Nat] /\ after \in [Conns -> Nat]
  /\ short \in [Conns -> BOOLEAN] /\ lease \in [Conns -> Nat]
  /\ fetched \in [Conns -> {"none", "page", "gone", "failed"}]
  /\ acked \in [Conns -> Nat]
  /\ link \in Nat /\ lastId \in Cursors
  /\ log \in Seq(Nat)
  /\ client \in {"following", "complete", "expired", "rejected"}

Init ==
  /\ now = 0
  /\ stableKey \in BOOLEAN /\ process = 1 /\ up = TRUE
  /\ pit = [i \in Conns |-> "none"] /\ total = [i \in Conns |-> 0]
  /\ keptUntil = [i \in Conns |-> 0]
  /\ stage = [i \in Conns |-> "unused"] /\ snap = [i \in Conns |-> 0]
  /\ base = [i \in Conns |-> 0] /\ taken = [i \in Conns |-> 0]
  /\ after = [i \in Conns |-> 0] /\ short = [i \in Conns |-> FALSE]
  /\ fetched = [i \in Conns |-> "none"] /\ lease = [i \in Conns |-> 0]
  /\ acked = [i \in Conns |-> 0]
  /\ link = 0 /\ lastId = NoCursor /\ log = <<>> /\ client = "following"

Goto(i, s) == stage' = [stage EXCEPT ![i] = s]

-----------------------------------------------------------------------------
(* Connecting: the cursor is checked before anything is read.              *)

IsNext(i) == /\ up /\ stage[i] = "unused" /\ link = 0
             /\ \A j \in 1..(i - 1) : stage[j] # "unused"
HasCursor == lastId.pit # 0
\* newCursorSigner: without a configured key every process makes its own.
Key == IF stableKey THEN 0 ELSE process

\* decode's checks, in its order: the signature, then the expiry.
Signed(c) == c.key = Key
Fresh(c) == now < c.expires

\* Without a cursor a new snapshot is opened.
Opened(i) ==
  /\ IsNext(i) /\ client = "following" /\ ~HasCursor
  /\ pit' = [pit EXCEPT ![i] = "open"]
  /\ \E n \in Totals : total' = [total EXCEPT ![i] = n]
  /\ keptUntil' = [keptUntil EXCEPT ![i] = now + KeepAlive]
  /\ UNCHANGED <<now, processVars, base, taken, after, short, fetched, acked,
                 lastId, log, client>>

ConnectFresh(i) ==
  /\ Opened(i) /\ Goto(i, "meta") /\ link' = i
  /\ snap' = [snap EXCEPT ![i] = i]
  /\ lease' = [lease EXCEPT ![i] = now + KeepAlive]

\* OpenPIT's answer is lost or late: the request fails, and nobody knows of
\* the snapshot.
ConnectOpenLost(i) ==
  /\ Opened(i) /\ Goto(i, "closed") /\ UNCHANGED <<link, snap, lease>>

\* MUTANT of ConnectResumed: a new snapshot is read on from the old place.
ConnectResumedAnew(i) ==
  /\ IsNext(i) /\ client = "following"
  /\ HasCursor /\ Signed(lastId) /\ Fresh(lastId) /\ ~lastId.done
  /\ Goto(i, "meta") /\ link' = i
  /\ pit' = [pit EXCEPT ![i] = "open"]
  /\ \E n \in Totals : total' = [total EXCEPT ![i] = n]
  /\ keptUntil' = [keptUntil EXCEPT ![i] = now + KeepAlive]
  /\ snap' = [snap EXCEPT ![i] = i]
  /\ base' = [base EXCEPT ![i] = lastId.after]
  /\ after' = [after EXCEPT ![i] = lastId.after]
  /\ lease' = [lease EXCEPT ![i] = now + KeepAlive]
  /\ UNCHANGED <<now, processVars, taken, short, fetched, acked, lastId, log,
                 client>>

ConnectResumed(i) ==
  /\ IsNext(i) /\ client = "following"
  /\ HasCursor /\ Signed(lastId) /\ Fresh(lastId) /\ ~lastId.done
  /\ Goto(i, "meta") /\ link' = i
  /\ snap' = [snap EXCEPT ![i] = lastId.pit]
  /\ base' = [base EXCEPT ![i] = lastId.after]
  /\ after' = [after EXCEPT ![i] = lastId.after]
  /\ lease' = [lease EXCEPT ![i] = lastId.expires]
  /\ UNCHANGED <<now, processVars, esVars, taken, short, fetched, acked,
                 lastId, log, client>>

\* Nothing is read: the client only learns that it is `outcome`.
Answered(i, outcome) ==
  /\ IsNext(i) /\ HasCursor /\ Goto(i, "closed") /\ client' = outcome
  /\ UNCHANGED <<now, processVars, esVars, serverVars, link, lastId, log>>

\* The cursor of a completed stream: a StreamDone and nothing else.
ConnectReplay(i) ==
  Signed(lastId) /\ Fresh(lastId) /\ lastId.done /\ Answered(i, "complete")
\* 410 cursor_expired.
ConnectExpired(i) ==
  /\ client # "expired" /\ Signed(lastId) /\ ~Fresh(lastId)
  /\ Answered(i, "expired")
\* 400, the signature is another process's.
ConnectRejected(i) ==
  client # "rejected" /\ ~Signed(lastId) /\ Answered(i, "rejected")

-----------------------------------------------------------------------------
(* Reading.                                                                *)

Alive(s) == pit[s] = "open" /\ now < keptUntil[s]
Lesser(a, b) == IF a <= b THEN a ELSE b
PageEnd(i) == Lesser(after[i] + PageSize, total[snap[i]])
\* SearchPIT extends the lease of the snapshot.
Extend(s) == keptUntil' = [keptUntil EXCEPT ![s] = now + KeepAlive]

\* A stream that ends with an error; the client, if it still listens, hears
\* of it, and a 410 makes it give up.  The done carries the last id again.
Fails(i, expired) ==
  /\ link' = IF link = i THEN 0 ELSE link
  /\ client' = IF link = i /\ expired THEN "expired" ELSE client

EmitMeta(i) ==
  /\ stage[i] = "meta" /\ Goto(i, "first")
  /\ UNCHANGED <<now, processVars, esVars, serverVars, clientVars>>

\* applyPITPage: the cursors' lease counts from here.
ApplyPage(i) ==
  /\ after' = [after EXCEPT ![i] = PageEnd(i)]
  /\ short' = [short EXCEPT ![i] = PageEnd(i) - after[i] < PageSize]
  /\ lease' = [lease EXCEPT ![i] = now + KeepAlive]

\* The first page is read in line.
FirstPage(i) ==
  /\ stage[i] = "first"
  /\ \/ /\ Alive(snap[i]) /\ ApplyPage(i) /\ Extend(snap[i])
        /\ Goto(i, "take") /\ UNCHANGED <<link, client>>
     \/ /\ ~Alive(snap[i]) /\ Fails(i, TRUE) /\ Goto(i, "close")
        /\ UNCHANGED <<after, short, lease, keptUntil>>
  /\ UNCHANGED <<now, processVars, snap, base, taken, fetched, acked, pit, total,
                 lastId, log>>

\* The goroutine started with the last page comes back.
Prefetch(i) ==
  /\ stage[i] \in {"take", "next", "emit"} /\ ~short[i]
  /\ fetched[i] = "none"
  /\ \/ /\ Alive(snap[i]) /\ Extend(snap[i])
        /\ fetched' = [fetched EXCEPT ![i] = "page"]
     \/ /\ fetched' = [fetched EXCEPT ![i] =
                         IF Alive(snap[i]) THEN "failed" ELSE "gone"]
        /\ UNCHANGED keptUntil
  /\ UNCHANGED <<now, processVars, stage, snap, base, taken, after, short, lease, acked,
                 pit, total, clientVars>>

Position(i) == IF taken[i] = 0 THEN base[i] ELSE taken[i]

\* The merge loop up to the next batch: the buffer, or what MaxRecords
\* leaves of it.  An empty last page ends the stream.
Take(i) ==
  /\ stage[i] = "take"
  /\ IF Position(i) < after[i]
     THEN /\ taken' = [taken EXCEPT ![i] =
                         Lesser(after[i], base[i] + MaxRecords)]
          /\ Goto(i, IF taken'[i] = after[i] /\ ~short[i]
                     THEN "next" ELSE "emit")
     ELSE Goto(i, "finish") /\ UNCHANGED taken
  /\ UNCHANGED <<now, processVars, snap, base, after, short, fetched, lease, acked,
                 esVars, clientVars>>

\* ensure() at the end of the buffer.
NextPage(i) ==
  /\ stage[i] = "next" /\ fetched[i] # "none"
  /\ IF fetched[i] = "page"
     THEN /\ ApplyPage(i) /\ Goto(i, "emit")
          /\ fetched' = [fetched EXCEPT ![i] = "none"]
     ELSE Goto(i, "flush") /\ UNCHANGED <<after, short, lease, fetched>>
  /\ UNCHANGED <<now, processVars, snap, base, taken, acked, esVars, clientVars>>

-----------------------------------------------------------------------------
(* Emitting, and the end of a connection.                                  *)

\* MUTANT of Cursor: searchAfter, which the next page has moved, is sent.
CursorSearchAfter(i, done) == [pit |-> snap[i], after |-> after[i],
                               expires |-> lease[i], done |-> done, key |-> Key]

\* resumeToken
Cursor(i, done) == [pit |-> snap[i], after |-> taken[i],
                    expires |-> lease[i], done |-> done, key |-> Key]
LastAcked(i) == IF acked[i] = 0 THEN base[i] ELSE acked[i]
BatchOf(i) == [k \in 1..(taken[i] - LastAcked(i)) |-> LastAcked(i) + k]

Deliver(i) ==
  /\ acked' = [acked EXCEPT ![i] = taken[i]]
  /\ IF link = i THEN lastId' = Cursor(i, FALSE) /\ log' = log \o BatchOf(i)
                 ELSE UNCHANGED <<lastId, log>>

Emit(i) ==
  /\ stage[i] = "emit" /\ Deliver(i)
  /\ Goto(i, IF taken[i] - base[i] >= MaxRecords \/ taken[i] = after[i]
             THEN "finish" ELSE "take")
  /\ UNCHANGED <<now, processVars, snap, base, taken, after, short, fetched, lease,
                 esVars, link, client>>

\* The page after the batch was not to be had: the batch, then the error.
EmitThenFail(i) ==
  /\ stage[i] = "flush" /\ Deliver(i)
  /\ Fails(i, fetched[i] = "gone") /\ Goto(i, "close")
  /\ UNCHANGED <<now, processVars, snap, base, taken, after, short, fetched, lease,
                 esVars>>

\* The heap is empty.
Drained(i) == Position(i) = after[i]

\* StreamDone; truncated if the heap still has a head.  Its cursor is a done
\* cursor when nothing is left.
Finish(i) ==
  /\ stage[i] = "finish" /\ Goto(i, "close")
  /\ LET complete == Drained(i)
     IN IF link = i
        THEN /\ link' = 0
             /\ lastId' = IF taken[i] # 0 THEN Cursor(i, complete) ELSE lastId
             /\ client' = IF complete THEN "complete" ELSE client
        ELSE UNCHANGED <<link, lastId, client>>
  /\ UNCHANGED <<now, processVars, serverVars, esVars, log>>

\* A failed write, a deadline, an exhausted byte budget, a failed search.
Fail(i) ==
  /\ stage[i] \in {"meta", "first", "take", "next", "emit", "flush"}
  /\ Fails(i, FALSE) /\ Goto(i, "close")
  /\ UNCHANGED <<now, processVars, serverVars, esVars, lastId, log>>

\* StreamRaw returns and its iterator is no more.
Return(i) ==
  /\ stage[i] = "close" /\ Goto(i, "closed")
  /\ base' = [base EXCEPT ![i] = 0] /\ taken' = [taken EXCEPT ![i] = 0]
  /\ after' = [after EXCEPT ![i] = 0] /\ short' = [short EXCEPT ![i] = FALSE]
  /\ fetched' = [fetched EXCEPT ![i] = "none"]
  /\ lease' = [lease EXCEPT ![i] = 0]

\* MUTANT of ClosePIT: the snapshot is closed with its connection.
ClosePITAlways(i) ==
  /\ Return(i)
  /\ pit' = [pit EXCEPT ![snap[i]] = "closed"]
  /\ UNCHANGED <<now, processVars, snap, acked, total, keptUntil, clientVars>>

\* The deferred closePIT: the snapshot is closed unless a record was taken,
\* or unless closing it fails, which is only logged.
ClosePIT(i) ==
  /\ Return(i)
  /\ \/ taken[i] = 0 /\ pit' = [pit EXCEPT ![snap[i]] = "closed"]
     \/ pit' = pit
  /\ UNCHANGED <<now, processVars, snap, acked, total, keptUntil, clientVars>>

\* The connection is lost; the server will notice later, or never.
Drop ==
  /\ link # 0 /\ link' = 0
  /\ UNCHANGED <<now, processVars, stage, serverVars, esVars, lastId, log, client>>

\* The process ends: it is killed, or five seconds after SIGTERM main returns
\* although streams run (no connection is accepted in between, which takes
\* behaviours away).
Exit ==
  /\ up /\ process < MaxStarts /\ up' = FALSE /\ link' = 0
  /\ stage' = [i \in Conns |-> IF stage[i] = "unused" THEN "unused"
                                                     ELSE "closed"]
  /\ LET none == [i \in Conns |-> 0]
     IN /\ base' = none /\ taken' = none /\ after' = none /\ lease' = none
        /\ short' = [i \in Conns |-> FALSE]
        /\ fetched' = [i \in Conns |-> "none"]
  /\ UNCHANGED <<now, stableKey, process, snap, acked, esVars, lastId, log,
                 client>>

Start ==
  /\ ~up /\ up' = TRUE /\ process' = process + 1
  /\ UNCHANGED <<now, stableKey, stage, serverVars, esVars, clientVars>>

Tick ==
  /\ now < MaxTime /\ now' = now + 1
  /\ UNCHANGED <<processVars, stage, serverVars, esVars, clientVars>>

\* Every connection has ended, and the client may well make no other.
Stopped == /\ \A i \in Conns : stage[i] \in {"unused", "closed"}
           /\ UNCHANGED vars

Next ==
  \/ Drop \/ Tick \/ Exit \/ Start \/ Stopped
  \/ \E i \in Conns :
       \/ ConnectFresh(i) \/ ConnectOpenLost(i) \/ ConnectResumed(i)
       \/ ConnectReplay(i) \/ ConnectExpired(i) \/ ConnectRejected(i)
       \/ EmitMeta(i) \/ FirstPage(i) \/ Prefetch(i)
       \/ Take(i) \/ NextPage(i) \/ Emit(i) \/ EmitThenFail(i) \/ Finish(i)
       \/ Fail(i) \/ ClosePIT(i)

Spec == Init /\ [][Next]_vars

-----------------------------------------------------------------------------
(* What a client that resumes may rely on.                                 *)

\* Over all its connections the client receives the records of one snapshot
\* in order, none missing and none twice, and its cursor is behind the last
\* of them (messages are received whole; resumeToken and StreamRaw's resume).
ReceivedInOrder ==
  /\ \A k \in DOMAIN log : log[k] = k
  /\ HasCursor => lastId.after = Len(log) /\ log # <<>>
  /\ log # <<>> => HasCursor

\* A client that was told "complete" has every record of the snapshot its
\* cursor names, across truncated, failed and lost connections.
CompleteMeansAll ==
  client = "complete" /\ HasCursor => Len(log) = total[lastId.pit]

\* As long as every connection that has ended on a snapshot acknowledged a
\* batch, an unexpired cursor's snapshot is still open, whichever of the
\* overlapping connections issued the cursor (closePIT keeps the snapshot).
\* Without the proviso it is false, whatever the comment in closePIT says of
\* the lease: a resumed connection that ends before its first batch closes
\* the snapshot of the cursor it was resumed with.
DeliveredCursorUsable ==
  /\ HasCursor /\ ~lastId.done /\ Fresh(lastId)
  /\ \A i \in Conns : stage[i] = "closed" /\ snap[i] = lastId.pit => acked[i] # 0
  => pit[lastId.pit] = "open"

\* Connections, restarts and retries come to one read of one snapshot from
\* its first record to its last, that completes or is refused for good.
Reading == IF HasCursor THEN total[lastId.pit]
           ELSE IF link # 0 THEN total[snap[link]] ELSE 0
OneRead == INSTANCE ResumedRead WITH size <- Reading, got <- log,
                                     outcome <- client
RefinesRead == OneRead!Spec

-----------------------------------------------------------------------------
(* The inductive invariant behind these: a connection's positions are in   *)
(* order, the one the client listens to is where the client's log ends, and*)
(* only a connection that took nothing closes a snapshot.                  *)

Active == {"meta", "first", "take", "next", "emit", "flush", "finish"}
Running(i) == stage[i] \in Active \cup {"close"}

\* Which snapshots there are, and who closed one.
SnapshotsOK ==
  /\ \A i \in Conns : Running(i) => snap[i] # 0
  /\ \A i \in Conns : snap[i] # 0 => snap[i] \in Conns /\ pit[snap[i]] # "none"
  /\ \A s \in Conns : pit[s] = "closed" =>
       \E i \in Conns : stage[i] = "closed" /\ snap[i] = s /\ acked[i] = 0

Unused(i) ==
  /\ pit[i] = "none" /\ snap[i] = 0
  /\ base[i] = 0 /\ taken[i] = 0 /\ after[i] = 0 /\ acked[i] = 0
  /\ ~short[i] /\ fetched[i] = "none"

\* base <= acked <= taken <= after <= total, 0 standing for "not yet".
PositionsOK(i) ==
  /\ base[i] <= LastAcked(i) /\ LastAcked(i) <= Position(i)
  /\ Position(i) <= after[i] /\ after[i] <= total[snap[i]]
  /\ taken[i] = 0 => acked[i] = 0
  /\ short[i] => after[i] = total[snap[i]]

\* What a stage adds: whether a batch is pending, whether the buffer may be
\* at its end.
StageOK(i) ==
  /\ stage[i] \in {"meta", "first"} => taken[i] = 0 /\ ~short[i]
  /\ stage[i] \in {"meta", "first", "take", "finish"} =>
       LastAcked(i) = Position(i)
  /\ stage[i] \in {"next", "emit", "flush"} => LastAcked(i) < taken[i]
  /\ stage[i] = "take" => Position(i) < base[i] + MaxRecords
  /\ stage[i] \in {"take", "emit", "finish"} /\ Position(i) = after[i] =>
       short[i]

ConnectionOK(i) == /\ stage[i] = "unused" => Unused(i)
                   /\ Running(i) => PositionsOK(i) /\ StageOK(i)
ConnectionsOK == \A i \in Conns : ConnectionOK(i)

\* The cursor is for the end of the log, in a snapshot that exists.
CursorOK ==
  HasCursor => /\ lastId.pit \in Conns /\ pit[lastId.pit] # "none"
               /\ Len(log) <= total[lastId.pit]
               /\ lastId.done => Len(log) = total[lastId.pit]

ListeningOK ==
  link # 0 => /\ link \in Conns /\ stage[link] \in Active /\ client = "following"
              /\ LastAcked(link) = Len(log)
              /\ HasCursor => lastId.pit = snap[link]

IInv == /\ TypeOK /\ SnapshotsOK /\ ConnectionsOK /\ CursorOK /\ ListeningOK
        /\ ReceivedInOrder /\ CompleteMeansAll

\* The refinement needs beside it why a refusal is final: the cursor that was
\* refused stays expired or another process's, and the client gets no other.
RefusedOK ==
  /\ lastId.key <= process
  /\ lastId.done => HasCursor /\ link = 0
  /\ client = "expired" => ~lastId.done \/ ~Fresh(lastId)
  /\ client = "rejected" => ~Signed(lastId)
=============================================================================
