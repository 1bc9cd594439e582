--------------------------- MODULE MCScheduledTick ---------------------------
(***************************************************************************)
(* Small instances of ScheduledTick.  A content is the set of its lines.   *)
(***************************************************************************)
EXTENDS ScheduledTick, TLC

CONSTANTS s1, s2, s3, t1, t2

\* Three prices on one page: each edit replaces a line.
Prices == {{"9"}, {"12"}, {"15"}}
TwoPrices == {{"9"}, {"12"}}
\* Pages that may also lose a line.
Shrinking == {{"9"}, {"9", "seat"}}
Pages == TwoPrices \cup Shrinking

EveryInstant == [s \in Sources |-> 1]
EveryOther == [s \in Sources |-> 2]
\* s3's cadence cannot be parsed.
EveryOtherButS3 == [s \in Sources |-> IF s = s3 THEN 0 ELSE 2]

\* Overlapping ticks run the same code.
TickSymmetry == Permutations(Ticks)
=============================================================================
