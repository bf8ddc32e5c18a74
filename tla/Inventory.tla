------------------------------- MODULE Inventory -------------------------------
(***************************************************************************)
(* What the booking engine promises, whatever the handlers do: a ledger of *)
(* the places each booking holds.  One step changes the entry of one       *)
(* booking, as a whole, and never lets two bookings hold the same place at *)
(* overlapping times.                                                      *)
(***************************************************************************)
EXTENDS Naturals

CONSTANTS Booking,   \* who can hold something
          Place,     \* what can be held: a court or a coach
          Period     \* for how long: half-open intervals [from, to)

VARIABLE held        \* held[b]: the slots that booking b holds

Slot == [room: Place, period: Period]

Conflict(x, y) ==
    /\ x.room = y.room
    /\ x.period.from < y.period.to
    /\ y.period.from < x.period.to

Exclusive(h) ==
    \A a, b \in Booking : a # b =>
        \A x \in h[a], y \in h[b] : ~ Conflict(x, y)

TypeOK == held \in [Booking -> SUBSET Slot]

Init == held = [b \in Booking |-> {}]

\* Booking b takes, moves or gives back its slots, at nobody's expense.
Change(b) ==
    /\ held' \in [Booking -> SUBSET Slot]
    /\ \A o \in Booking \ {b} : held'[o] = held[o]
    /\ Exclusive(held')

Next == \E b \in Booking : Change(b)

Spec == Init /\ [][Next]_held
===============================================================================
