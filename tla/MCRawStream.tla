----------------------------- MODULE MCRawStream ------------------------------
(* Small instances of RawStream.  The snapshots hold ties, a newest and an   *)
(* oldest record and up to two pages, so that clusters interleave, tie, and  *)
(* run dry at and off a page boundary.                                       *)
EXTENDS RawStream
CONSTANTS c1, c2
TwoClusters == {c1, c2}
OneCluster == {c1}
SmallViews == { <<>>, <<2>>, <<3, 1>>, <<2, 2, 1>> }
LongViews == { <<>>, <<2>>, <<2, 1>>, <<2, 2, 1>>, <<3, 2, 2, 1>>,
               <<4, 3, 2, 2, 1>> }
=============================================================================
