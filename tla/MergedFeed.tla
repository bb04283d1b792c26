------------------------------ MODULE MergedFeed ------------------------------
(***************************************************************************)
(* What a consumer of GET /data/raw/stream may rely on, without pages,     *)
(* heaps or goroutines: the records of all snapshots arrive as one         *)
(* sequence, newest first, that is at all times a prefix of a merge of the *)
(* snapshots; and the stream says truthfully how it ended.                 *)
(***************************************************************************)
EXTENDS Integers, Sequences

CONSTANT Clusters

VARIABLES
  view,    \* per cluster the times of its records, newest first
  start,   \* per cluster the position the stream continues from
  sent,    \* the records delivered, each a cluster and a position
  status   \* "opening", "streaming", "complete", "truncated", "failed"

vars == <<view, start, sent, status>>

Time(r) == view[r[1]][r[2]]
Due(c) == (start[c] + 1)..Len(view[c])
IsSent(s, r) == \E k \in DOMAIN s : s[k] = r

\* s is a prefix of a merge of the snapshots.
MergePrefix(s) ==
  /\ \A k \in DOMAIN s : s[k][2] \in Due(s[k][1])
  /\ \A k, l \in DOMAIN s :
       k < l => /\ Time(s[k]) >= Time(s[l])
                /\ s[k][1] = s[l][1] => s[k][2] < s[l][2]
  \* nothing newer is withheld, and no cluster is sent with a gap
  /\ \A k \in DOMAIN s : \A c \in Clusters : \A i \in Due(c) :
       ~IsSent(s, <<c, i>>) => /\ Time(s[k]) >= view[c][i]
                               /\ s[k][1] = c => s[k][2] < i

AllSent == \A c \in Clusters : \A i \in Due(c) : IsSent(sent, <<c, i>>)

Init == sent = <<>> /\ status = "opening"

\* The snapshots are being opened; the request may be refused, or answered
\* from the cursor of a stream that was complete.
Open ==
  /\ status = "opening" /\ UNCHANGED sent
  /\ status' \in {"opening", "streaming", "failed", "complete"}
  /\ status' = "complete" => AllSent'

Deliver ==
  /\ status = "streaming" /\ status' \in {"streaming", "failed"}
  /\ Len(sent) < Len(sent') /\ SubSeq(sent', 1, Len(sent)) = sent
  /\ MergePrefix(sent')
  /\ UNCHANGED <<view, start>>

End ==
  /\ status = "streaming"
  /\ \/ status' = "complete" /\ AllSent
     \/ status' = "truncated" /\ ~AllSent
     \/ status' = "failed"
  /\ UNCHANGED <<view, start, sent>>

Next == Open \/ Deliver \/ End

Spec == Init /\ [][Next]_vars
=============================================================================
