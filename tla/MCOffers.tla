------------------------------- MODULE MCOffers -------------------------------
(***************************************************************************)
(* Instances of Offers for TLC.  A behaviour is about one subject: the     *)
(* price of a slot under changing rules and discounts; the slots that are  *)
(* free under changing hours, settings and bookings; or one booking that   *)
(* is made, moved and cancelled as time goes by.  What is not the subject  *)
(* is set up and then left alone.                                          *)
(***************************************************************************)
EXTENDS Offers

CONSTANTS c1, p1

VARIABLE subject

allVars == <<vars, subject>>

Rule(court, from, to, since, until, cents, priority) ==
    [court |-> court, service |-> FALSE, today |-> TRUE, from |-> from, to |-> to,
     since |-> since, until |-> until, per |-> 2, cents |-> cents, priority |-> priority,
     active |-> TRUE]

Base == Rule(AnyCourt, 0, 6, 0, 2, 5, 0)

\* A price for every hour, one that ends with the day before, one that begins with
\* the day after, one for one court, one for the evening that goes first, and two
\* that never match.
SomeRules ==
    {Base,
     Rule(AnyCourt, 0, 6, 0, 1, 7, 0),
     Rule(AnyCourt, 0, 6, 2, 2, 8, 0),
     Rule(c1, 0, 6, 1, 2, 9, 0),
     Rule(AnyCourt, 4, 6, 0, 2, 20, 1),
     [Base EXCEPT !.service = TRUE, !.cents = 1],
     [Base EXCEPT !.active = FALSE, !.cents = 2]}

Day == [from |-> 0, to |-> 6]
SomeHours == {{Day}, {[from |-> 1, to |-> 4], [from |-> 4, to |-> 6]}, {}}
SomeLengths == {{2}, {1, 3}, {2, 4}}
SomeTiers == {[before |-> 6, percent |-> 100], [before |-> 2, percent |-> 50], [before |-> 0, percent |-> 0]}

\* An hour is two units.  The clocks go forward, or back, east and west of UTC.
Spring == [change |-> 2, shift |-> -2, late |-> TRUE, utc |-> 1]
AutumnEast == [change |-> 4, shift |-> 2, late |-> TRUE, utc |-> 1]
AutumnWest == [change |-> 4, shift |-> 2, late |-> FALSE, utc |-> -1]
SomeZones == {Spring, AutumnEast, AutumnWest}

SomeClosures == {[from |-> 1, to |-> 4]}

Settled == hours = [c \in Court |-> {Day}] /\ least = [c \in Court |-> 1]

MCInit ==
    /\ Init
    /\ subject \in {"prices", "slots", "booking"}
    /\ subject # "slots" => Settled /\ offered = {2} /\ interval = 1
    /\ \A c \in Court \ {c1} : hours[c] = {Day} /\ least[c] = 1
    /\ discount = [p \in Plan |-> 50]
    /\ subject = "booking" => zone = Spring
    /\ subject = "prices" => zone = AutumnWest

Same(f, g) == f = g

OnSubject ==
    CASE subject = "prices"  -> /\ Same(<<settings, taken>>', <<settings, taken>>)
                                /\ now' <= -2 /\ (now < -2 => now' > now)
                                /\ booking' # Nothing => ~booking'.moved /\ booking'.refund = NoPrice
                                /\ shown' # Nothing => shown'.slot.court = c1 /\ shown'.slot.start = 4
                                /\ created' = 2 => rules'[1] # NoRule
      [] subject = "slots"   -> /\ Same(<<booking, discount, granted>>', <<booking, discount, granted>>)
                                /\ shown' = Nothing
                                /\ \A c \in Court \ {c1} : Same(hours'[c], hours[c]) /\ Same(least'[c], least[c])
                                /\ created' <= 1 /\ rules'[1] \in {NoRule, Base}
                                /\ Cardinality(taken') <= 1 /\ \A t \in taken' : t.court = c1
                                /\ closed' # {} => hours'[c1] = {Day}
                                /\ now' <= 1 /\ (now < -2 => now' > now)
      [] subject = "booking" -> /\ Same(<<settings, taken, discount>>', <<settings, taken, discount>>)
                                /\ granted' \subseteq {p1}
                                /\ \A i \in 1 .. created' : rules'[i] # NoRule
                                /\ created' = 2 => rules'[2].priority = 1
                                /\ created' >= 1 => rules'[1] = Base
                                /\ shown' # Nothing =>
                                      created = 2 /\ shown'.slot.court = c1 /\ shown'.slot.start \in {0, 4}
                                /\ booking' # Nothing => booking'.slot.length = 2

MCNext == Next /\ OnSubject /\ UNCHANGED subject

MCSpec == MCInit /\ [][MCNext]_allVars
===============================================================================
