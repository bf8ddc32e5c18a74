--------------------------- MODULE ReservationsHistory ---------------------------
(***************************************************************************)
(* Reservations with a history variable: the reservations on which a       *)
(* handler was overtaken.  It had read the reservation and decided what to *)
(* do, and before it wrote somebody else changed the status or the rows.   *)
(*                                                                         *)
(* The service checks a status when it reads and not when it writes, so    *)
(* that what its comments say of a reservation can only be expected of     *)
(* those on which that never happened, whatever became of the others.      *)
(***************************************************************************)
EXTENDS Reservations

VARIABLE overtaken

watchedVars == <<vars, overtaken>>

\* The steps at which a handler has decided and is yet to write.
Deciding == {"confirm", "noShow", "release", "move", "moving", "cancel",
             "expire", "paid", "failed"}

Rewritten(r) == status'[r] # status[r] \/ moves'[r] # moves[r]

Waiting(p) == req[p].op \in Deciding /\ req'[p] = req[p]

Overtaken == {req[p].res : p \in {q \in Process : Waiting(q) /\ Rewritten(req[q].res)}}

WatchedInit == Init /\ overtaken = {}

WatchedNext == Next /\ overtaken' = overtaken \cup Overtaken

WatchedSpec == WatchedInit /\ [][WatchedNext]_watchedVars

-----------------------------------------------------------------------------

\* The rows of a reservation say what it says, unless a handler was overtaken on it:
\* a cancelled one blocks nobody and nobody's rows lie at hours it has left.
RowsFollowUnlessOvertaken == \A r \in Reservation \ overtaken : RowsFollow(r)

\* Every change of status is one the state machine has, unless a handler was
\* overtaken on the reservation.
LegalUnlessOvertaken == [][\A r \in Reservation \ overtaken : LegalStep(r)]_watchedVars

\* The expiry job cancels nothing but unpaid bookings, unless it was overtaken.
UnpaidUnlessOvertaken ==
    [][\A w \in Worker : req[w] # Idle /\ req[w].res \notin overtaken => ExpiresUnpaid(w)]_watchedVars

\* The PSP is asked at most once to give the money of a reservation back, unless a
\* handler was overtaken on it: two cancellations are, and an approval that brings
\* a cancelled booking back to life.
RefundedOnceUnlessOvertaken == \A r \in Reservation \ overtaken : refunds[r] <= 1
===============================================================================
