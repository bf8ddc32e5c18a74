--------------------------- MODULE MCReservations ---------------------------
(***************************************************************************)
(* Instances of Reservations for TLC.  Hours are counted from 0; a period  *)
(* of one hour, the next hour, and the two together are enough for         *)
(* "same", "adjacent" and "partly overlapping".                            *)
(***************************************************************************)
EXTENDS Reservations, TLC

First  == [from |-> 1, to |-> 2]
Second == [from |-> 2, to |-> 3]
Both   == [from |-> 1, to |-> 3]

OnePeriod          == {First}
TwoPeriods         == {First, Second}
OverlappingPeriods == {First, Both}

\* Sound for the safety runs: reservations and request handlers are only
\* compared for equality.
Symmetry == Permutations(Reservation) \cup Permutations(Api)
=============================================================================
