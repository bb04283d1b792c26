-------------------------- MODULE MCTimeSeries -------------------------
(* Two collectors, ranges of up to six instants that start on and off a      *)
(* bucket boundary, before and after the epoch, and values below zero.       *)
EXTENDS TimeSeriesQuery
NegativeValue(d) == (((d[1] + 7) * 3 + d[2]) % 5) - 3
SomeDocuments ==
  {{}, {<<1, 1>>}, {<<0, 1>>, <<2, 2>>}, {<<3, 2>>}, {<<-1, 1>>, <<4, 3>>},
   {<<0, 1>>, <<0, 2>>, <<1, 1>>, <<1, 3>>}, {<<t, 1>> : t \in -1..4},
   {<<2, 1>>, <<2, 2>>, <<2, 3>>, <<1, 3>>}}
MinusOneToOne == {-1, 0, 1}
=============================================================================
