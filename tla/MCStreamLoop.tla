---------------------------- MODULE MCStreamLoop -----------------------------
(* Two requests that compete for one slot: a resumed raw stream over         *)
(* server-sent events, and a stream without cursors over NDJSON.             *)
EXTENDS StreamLoop
CONSTANTS r1, r2
TwoRequests == {r1, r2}
TwoKinds == {[format |-> "sse", resumable |-> TRUE, base |-> 1],
             [format |-> "ndjson", resumable |-> FALSE, base |-> 0]}
=============================================================================
