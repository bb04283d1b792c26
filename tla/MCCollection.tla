----------------------------- MODULE MCCollection ----------------------------
(* Two nodes, and scripts that print none, one, both or one of them twice.   *)
EXTENDS Collection
CONSTANTS n1, n2
TwoNodes == {n1, n2}
Lists == {<<>>, <<n1>>, <<n1, n2>>, <<n1, n1>>}
=============================================================================
