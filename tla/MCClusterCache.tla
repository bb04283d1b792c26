--------------------------- MODULE MCClusterCache ----------------------------
(* The alias al moves from n1, on u1, to n2, on u2, which was disabled.       *)
(* Requests ask for n2 and for the alias; only one makes two calls.           *)
EXTENDS ClusterCache
CONSTANTS t1, t2, bg, n1, n2, al, u1, u2
TwoCallers == {t1, t2}
OneFetcher == {bg}
TwoNames == {n1, n2}
OneAlias == {al}
OneCaller == {t1}
NameAndAlias == {n2, al}
TwoUrls == {u1, u2}
Entry(n, a, u, e) == [name |-> n, alias |-> a, url |-> u, enabled |-> e]
MovingScheme ==
  << [n \in TwoNames |-> IF n = n1 THEN Entry(n1, al, u1, TRUE)
                                   ELSE Entry(n2, al, u2, FALSE)],
     [n \in TwoNames |-> IF n = n1 THEN Entry(n1, None, u1, TRUE)
                                   ELSE Entry(n2, al, u2, TRUE)] >>
=============================================================================
