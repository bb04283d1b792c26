----------------------------- MODULE ResumedRead -----------------------------
(***************************************************************************)
(* What a client that resumes GET /data/raw/stream may rely on, without    *)
(* connections, cursors, leases or processes: it reads one snapshot from   *)
(* its first record to its last, and what it is told of the end is true    *)
(* and final: a read that was refused does not become complete.            *)
(***************************************************************************)
EXTENDS Naturals, Sequences

VARIABLES
  size,    \* how many records the snapshot has, 0 while there is none
  got,     \* the records received
  outcome  \* "following", "complete", "expired" or "rejected"

readVars == <<size, got, outcome>>

First(n) == [k \in 1..n |-> k]
Rank == [following |-> 0, complete |-> 1, expired |-> 2, rejected |-> 3]

Init == size = 0 /\ got = <<>> /\ outcome = "following"

\* Until a record was received the read may begin again, on a new snapshot.
Begin ==
  /\ outcome = "following" /\ got = <<>> /\ size' \in Nat
  /\ UNCHANGED <<got, outcome>>

\* With the next records the client may learn that the rest is gone.
Receive ==
  /\ outcome = "following" /\ outcome' \in {"following", "expired"}
  /\ \E n \in 1..size : Len(got) < n /\ got' = First(n)
  /\ UNCHANGED size

Complete ==
  /\ outcome = "following" /\ outcome' = "complete" /\ Len(got) = size
  /\ UNCHANGED <<size, got>>

\* The cursor is refused, that of a complete read too.
Refuse ==
  /\ outcome' \in {"expired", "rejected"} /\ Rank[outcome] < Rank[outcome']
  /\ got = <<>> \/ UNCHANGED size
  /\ UNCHANGED got

Next == Begin \/ Receive \/ Complete \/ Refuse
Spec == Init /\ [][Next]_readVars
=============================================================================
