------------------------------ MODULE MCBookingTx ------------------------------
(***************************************************************************)
(* Instances of BookingTx for TLC.  A behaviour is about one subject:      *)
(* three bookings and nothing else, or two that are moved, cancelled and   *)
(* lost as well.                                                           *)
(***************************************************************************)
EXTENDS BookingTx

CONSTANTS c1, c2, b1, b2, b3

VARIABLE subject

allVars == <<vars, subject>>

First  == [from |-> 1, to |-> 2]
Both   == [from |-> 1, to |-> 3]
Second == [from |-> 2, to |-> 3]

ThreePeriods == {First, Second, Both}

\* The index of the primary key returns the courts in ascending order.
OneScan == {[c \in {c1, c2} |-> IF c = c1 THEN 1 ELSE 2]}

Asked(b) == pc[b] # "idle" \/ result[b] # "none"

MCInit == Init /\ subject \in {"bookings", "moves"}

Rank(w) == 8 * w.period.from + 4 * w.period.to + Cardinality(w.courts \cap {c1})
             + 2 * Cardinality(w.courts) + 32 * Cardinality(w.coach)

\* The bookings differ in nothing but their names, so that one order of the
\* requests by what they ask for stands for all.
Sorted(b, u) == Asked(b) /\ Asked(u) => Rank(want[b]) <= Rank(want[u])

OnSubject ==
    CASE subject = "bookings" -> /\ moves' = moves
                                 /\ \A b \in Booking : /\ result'[b] \notin {"lost", "cancelled"}
                                                       /\ result[b] # "none" => pc'[b] = "idle"
                                 /\ Sorted(b1, b2)' /\ Sorted(b2, b3)' /\ Sorted(b1, b3)'
      [] subject = "moves"    -> /\ pc'[b3] = "idle"
                                 /\ \A b \in Booking : want'[b] # want[b] => want'[b].period = First

MCNext == Next /\ OnSubject /\ UNCHANGED subject

MCSpec == MCInit /\ [][MCNext]_allVars /\ Fairness
===============================================================================
