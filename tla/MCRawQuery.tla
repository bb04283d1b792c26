------------------------------ MODULE MCRawQuery ------------------------------
(* Two clusters with up to four records, ties inside and between them, over  *)
(* the midnight between the days 1 and 2; ranges that are full, relative,    *)
(* fixed and reversed.                                                       *)
EXTENDS RawQuery
CONSTANTS c1, c2
TwoClusters == {c1, c2}
Lists == {<<>>, <<c1, Blank>>, <<c1, c2>>, <<c1, c1>>, <<Wildcard>>}
Alone == {<<c1>>}
Between(a, b) == [full |-> FALSE, from |-> a, to |-> b]
Fixed(t) == [ago |-> FALSE, time |-> t]
Back(t) == [ago |-> TRUE, time |-> t]
SomeRanges == {[full |-> TRUE, from |-> Back(0), to |-> Back(0)],
               Between(Back(3), Back(0)), Between(Fixed(3), Fixed(5)),
               Between(Fixed(4), Fixed(2))}
FirstStores == {<<>>, <<4, 4, 2>>, <<1, 5, 3, 3>>, <<6, 3, 5, 2>>}
SecondStores == {<<>>, <<5, 2>>}
SomeStores == {[c \in TwoClusters |-> IF c = c1 THEN a ELSE b] :
                 a \in FirstStores, b \in SecondStores}
=============================================================================
