------------------------------- MODULE QueryPlan -----------------------------
(***************************************************************************)
(* How a query finds its clusters, its time range and its indices: the     *)
(* part of a request that is worked out before anything is searched.       *)
(* Writers put a record into the index of its UTC day, one per collector;  *)
(* an index is named here by its day, since every collector of a request   *)
(* gets the same days.  Times are integers, Day of them are a day.         *)
(***************************************************************************)
EXTENDS Integers, FiniteSets, FiniteSetsExt, SequencesExt

CONSTANTS
  Day,       \* the length of a day
  MaxRange,  \* MaxTimeRangeDays, as a length of time
  Blank,     \* a part of the cluster parameter without a name
  Wildcard   \* "*", of the cluster parameter and of the indices

ASSUME DayAssumption == Day \in Nat \ {0} /\ MaxRange \in Nat

\* What the cluster parameter may become: its parts without the blank ones,
\* or the enabled clusters in the random order of a map.
ParseClusterParam(parts, enabled) ==
  IF parts = <<Wildcard>> THEN SetToSeqs(enabled)
  ELSE {SelectSeq(parts, LAMBDA p : p # Blank)}

\* A time is given, or counted back from now, read anew for each call.
ParseTime(input, now) == IF input.ago THEN now - input.time ELSE input.time

ValidateTimeRange(from, to) == from <= to /\ to - from <= MaxRange

\* MUTANT of generateDateRange: days are counted from the start of the range.
generateDateRangeFrom(from, to) ==
  {t \div Day : t \in {u \in from..to : (u - from) % Day = 0}}

\* Every day that has a part in the range, first and last included.
generateDateRange(from, to) == (from \div Day)..(to \div Day)

ResolveIndices(from, to) == generateDateRange(from, to)
ResolveWildcardIndices == {Wildcard}

\* Whether a record of that time is in one of the indices.
InIndices(time, indices) == Wildcard \in indices \/ (time \div Day) \in indices

\* min and max over all records of the job; NoDataError if there are none.
DiscoverJobTimeRange(times) ==
  [from |-> Min(times), to |-> Max(times), empty |-> FALSE]
=============================================================================
