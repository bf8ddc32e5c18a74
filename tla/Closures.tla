------------------------------- MODULE Closures -------------------------------
(***************************************************************************)
(* The calendar of a club: its courts and their hours (ResourcesService,   *)
(* and updateMyHours of CoachingService), its special days (createClosure  *)
(* and deleteClosure of ClubsService) and the bookings that must keep out  *)
(* of them (resolveSlot of ReservationsService).                           *)
(*                                                                         *)
(* Whether a slot is open and whether a day is free to be closed are       *)
(* questions asked before anything is written, on either side.  What a     *)
(* handler has found out is in req[p]; it is stale once somebody else      *)
(* changes what it asked about.                                            *)
(*                                                                         *)
(* Time is what the clocks of the club show: a line of days of DayLength   *)
(* units, of which those from GapFrom to GapTo are skipped when the clocks *)
(* go forward.  A rule for a weekday is one for its day, and the calendar  *)
(* is within MAX_ADVANCE_DAYS.  In the hour that is repeated in autumn a   *)
(* bound is one of two moments that the clocks show alike; there is one    *)
(* here.                                                                   *)
(***************************************************************************)
EXTENDS Integers, FiniteSets

CONSTANTS
    Court,
    Coach,         \* coaches' resources: they have hours, and no closures
    Booking,
    Days,          \* the calendar is that of the days 0 .. Days - 1
    DayLength,
    GapFrom,       \* the clocks go forward from GapFrom to GapTo
    GapTo,
    Timed,         \* the windows of a day a closure may be entered for
    Slot,          \* the periods that may be asked for
    Kind,          \* a subset of BookingKinds
    Reason,        \* what a closure is entered for
    DefaultHours,  \* the hours of a new court
    Hours,         \* the sets of windows that are saved as hours
    Api,           \* request handlers in flight at the same time
    MaxClosures,   \* bound on the closures entered
    MaxSaves       \* bound on how often the hours of a resource are saved

BookingKinds == {"COURT", "EVENT", "BLOCK"}

Window == [from: Nat, to: Nat]

ASSUME ConstantsAssumption ==
    /\ Court \cap Coach = {} /\ IsFiniteSet(Court)
    /\ Days \in Nat /\ DayLength \in Nat \ {0}
    \* The clocks do not go forward at midnight.
    /\ GapFrom \in Nat /\ GapTo \in Nat /\ GapFrom <= GapTo
    /\ \E d \in 0 .. GapTo : d * DayLength <= GapFrom - (GapTo - GapFrom) /\ GapTo <= (d + 1) * DayLength
    \* What is asked for when they do is in Offers.
    /\ \A t \in Slot : t \in Window /\ (t.to <= GapFrom \/ GapTo <= t.from)
    /\ Timed \subseteq {w \in Window : w.from < w.to /\ w.to <= DayLength}
    /\ DefaultHours \subseteq Window
    /\ Hours \subseteq SUBSET Window
    /\ Kind \subseteq BookingKinds
    /\ MaxClosures \in Nat /\ MaxSaves \in Nat

VARIABLES
    now,
    court,     \* Resource.status of the courts, "none" before the row exists
    hours,     \* the AvailabilityRule rows of a resource, and the save they are of
    saves,     \* how often the hours of a resource were saved
    closures,  \* the ResourceException rows
    entered,   \* how many closures were entered
    booking,   \* the reservations
    req,       \* what each handler in flight has read and will do next
    stale      \* handlers whose question was answered differently since

vars == <<now, court, hours, saves, closures, entered, booking, req, stale>>

Resource == Court \cup Coach

Rules == [save: Nat, window: Window]

Exceptions == [id: Nat, room: Court, window: Window, reason: Reason]

NoBooking == [status |-> "none"]

Bookings == [status: {"PENDING_APPROVAL", "CONFIRMED", "CANCELLED"},
             kind: BookingKinds, rooms: SUBSET Court, at: Window]

Idle == [op |-> "idle"]

Requests ==
    [op: {"check", "insert"}, windows: SUBSET Window, rooms: SUBSET Court, reason: Reason]
      \cup [op: {"book", "move"}, on: Booking, row: Bookings]
      \cup [op: {"hours"}, on: Resource, old: SUBSET Rules, new: SUBSET Window]
      \cup {Idle}

TypeOK ==
    /\ now \in Nat
    /\ court \in [Court -> {"none", "ACTIVE", "INACTIVE"}]
    /\ hours \in [Resource -> SUBSET Rules]
    /\ saves \in [Resource -> Nat]
    /\ closures \subseteq Exceptions
    /\ entered \in Nat
    /\ booking \in [Booking -> Bookings \cup {NoBooking}]
    /\ req \in [Api -> Requests]
    /\ stale \subseteq Api

Saved(n, W) == [save: {n}, window: W]

Init ==
    /\ now = 0
    /\ court = [c \in Court |-> "none"]
    /\ hours = [r \in Resource |-> IF r \in Coach THEN Saved(0, DefaultHours) ELSE {}]
    /\ saves = [r \in Resource |-> 0]
    /\ closures = {}
    /\ entered = 0
    /\ booking = [b \in Booking |-> NoBooking]
    /\ req = [p \in Api |-> Idle]
    /\ stale = {}

Begin(p, next) == req[p] = Idle /\ req' = [req EXCEPT ![p] = next]

At(p, op) == req[p].op = op

Continue(p, op) == req' = [req EXCEPT ![p].op = op]

Finish(p) == req' = [req EXCEPT ![p] = Idle]

\* Mutant: a window that only touches another one overlaps it, one that holds it does not.
Overlap_Inside(v, w) == v.from < w.to /\ w.from <= v.from

Overlap(v, w) == v.from < w.to /\ w.from < v.to

Within(v, w) == w.from <= v.from /\ v.to <= w.to

-----------------------------------------------------------------------------
(***************************************************************************)
(* Courts and hours.                                                       *)
(***************************************************************************)

CreateCourt(p, c) ==
    /\ req[p] = Idle
    /\ court[c] = "none"
    /\ court' = [court EXCEPT ![c] = "ACTIVE"]
    /\ hours' = [hours EXCEPT ![c] = Saved(0, DefaultHours)]
    /\ UNCHANGED <<saves, closures, entered, booking, req>>

\* Whatever is booked on it.
SetCourtStatus(p, c, status) ==
    /\ req[p] = Idle
    /\ court[c] # "none"
    /\ court' = [court EXCEPT ![c] = status]
    /\ UNCHANGED <<hours, saves, closures, entered, booking, req>>

\* Mutant: the old hours are not deleted.
Doomed_None(r) == {}

Doomed(r) == hours[r]

\* setAvailability and updateMyHours replace all hours in one transaction, but
\* its DELETE takes the rows that were there when it began, and waits for whoever
\* is deleting them already.
DeleteHours(p, r, W) ==
    /\ r \in Court => court[r] # "none"
    /\ saves[r] < MaxSaves
    /\ Begin(p, [op |-> "hours", on |-> r, old |-> Doomed(r), new |-> W])
    /\ UNCHANGED <<court, hours, saves, closures, entered, booking>>

InsertHours(p) ==
    /\ At(p, "hours")
    /\ LET r == req[p].on
       IN  /\ saves' = [saves EXCEPT ![r] = @ + 1]
           /\ hours' = [hours EXCEPT ![r] =
                           (@ \ req[p].old) \cup Saved(saves'[r], req[p].new)]
    /\ Finish(p)
    /\ UNCHANGED <<court, closures, entered, booking>>

-----------------------------------------------------------------------------
(***************************************************************************)
(* Closures.                                                               *)
(***************************************************************************)

OnDay(d, w) == [from |-> d * DayLength + w.from, to |-> d * DayLength + w.to]

AllDay(from, to) == {[from |-> from * DayLength, to |-> (to + 1) * DayLength]}

\* One window per day: a single one would close the nights in between.
EachDay(from, to, w) == {OnDay(d, w) : d \in from .. to}

\* instantFromDayMinutes: a time that the clocks skip is taken for the one as
\* much earlier as they skip.
AsRead(t) == IF GapFrom <= t /\ t < GapTo THEN t - (GapTo - GapFrom) ELSE t

\* The rows of the windows that are entered.
Resolved(windows) == {[from |-> AsRead(w.from), to |-> AsRead(w.to)] : w \in windows}

\* Mutant: approvals are not looked at, as they were not before migration 20261011120100.
LiveStatuses_NoApprovals == {"CONFIRMED"}

LiveStatuses == {"PENDING_APPROVAL", "CONFIRMED"}

\* Mutant: blocks keep a day from being closed, and only they do.
Customers_Blocks == {"BLOCK"}

Customers == {"COURT", "EVENT"}

\* assertNoLiveBookings looks at the whole club.
Swallowed(windows) ==
    {b \in Booking :
        /\ booking[b].status \in LiveStatuses
        /\ booking[b].kind \in Customers
        /\ \E w \in windows : Overlap(booking[b].at, w)}

ActiveCourts == {c \in Court : court[c] = "ACTIVE"}

CloseRead(p, windows, reason) ==
    /\ \A w \in Resolved(windows) : w.from < w.to
    /\ ActiveCourts # {}
    /\ Begin(p, [op |-> "check", windows |-> windows, rooms |-> ActiveCourts, reason |-> reason])
    /\ UNCHANGED <<court, hours, saves, closures, entered, booking>>

CloseCheck(p) ==
    /\ At(p, "check")
    /\ IF Swallowed(Resolved(req[p].windows)) = {} THEN Continue(p, "insert") ELSE Finish(p)
    /\ UNCHANGED <<court, hours, saves, closures, entered, booking>>

CloseInsert(p) ==
    /\ At(p, "insert")
    /\ entered < MaxClosures
    /\ entered' = entered + 1
    /\ closures' = closures \cup [id: {entered'}, room: req[p].rooms,
                                  window: Resolved(req[p].windows), reason: {req[p].reason}]
    /\ Finish(p)
    /\ UNCHANGED <<court, hours, saves, booking>>

\* The rows of every court within the range, of one reason or of any.
Deleted(range, reasons) ==
    {e \in closures : Within(e.window, range) /\ e.reason \in reasons}

DeleteClosure(p, range, reasons) ==
    /\ req[p] = Idle
    /\ closures' = closures \ Deleted(range, reasons)
    /\ UNCHANGED <<court, hours, saves, entered, booking, req>>

-----------------------------------------------------------------------------
(***************************************************************************)
(* Bookings.                                                               *)
(***************************************************************************)

\* Mutant: hours that overlap the slot are taken for hours that cover it.
OpenAt_Touching(c, slot) == \E h \in hours[c] : Overlap(slot, h.window)

OpenAt(c, slot) == \E h \in hours[c] : Within(slot, h.window)

\* Mutant: a court is closed only from the moment its closure begins.
ClosedAt_FromStart(c, slot) ==
    \E e \in closures : e.room = c /\ e.window.from <= slot.from /\ slot.from < e.window.to

ClosedAt(c, slot) == \E e \in closures : e.room = c /\ Overlap(e.window, slot)

\* resolveSlot, of which the hours bind only those whose booking follows them.
Resolves(rooms, slot, enforceHours) ==
    /\ slot.from > now
    /\ \A c \in rooms : court[c] = "ACTIVE" /\ ~ ClosedAt(c, slot)
    /\ enforceHours => \A c \in rooms : OpenAt(c, slot)

\* createReservation, createManual and createBlock.
ResolveNew(p, b, kind, rooms, slot, status) ==
    /\ booking[b] = NoBooking
    /\ Resolves(rooms, slot, kind # "BLOCK")
    /\ Begin(p, [op |-> "book", on |-> b,
                 row |-> [status |-> status, kind |-> kind, rooms |-> rooms, at |-> slot]])
    /\ UNCHANGED <<court, hours, saves, closures, entered, booking>>

\* reschedule
ResolveMove(p, b, rooms, slot) ==
    /\ booking[b].status \in LiveStatuses
    /\ Resolves(rooms, slot, booking[b].kind = "COURT")
    /\ Begin(p, [op |-> "move", on |-> b,
                 row |-> [status |-> booking[b].status, kind |-> booking[b].kind,
                          rooms |-> rooms, at |-> slot]])
    /\ UNCHANGED <<court, hours, saves, closures, entered, booking>>

Taken(b, rooms, slot) ==
    \E o \in Booking \ {b} :
        /\ booking[o].status \in LiveStatuses
        /\ booking[o].rooms \cap rooms # {}
        /\ Overlap(booking[o].at, slot)

\* The transactions of runBookingTransaction and reschedule: only other bookings
\* are looked at.  A move leaves the status alone.
WriteBooking(p) ==
    /\ req[p].op \in {"book", "move"}
    /\ LET b == req[p].on
           row == IF At(p, "move") THEN [req[p].row EXCEPT !.status = booking[b].status]
                  ELSE req[p].row
       IN  booking' = IF Taken(b, row.rooms, row.at) THEN booking
                      ELSE [booking EXCEPT ![b] = row]
    /\ Finish(p)
    /\ UNCHANGED <<court, hours, saves, closures, entered>>

CancelBooking(p, b) ==
    /\ req[p] = Idle
    /\ booking[b].status \in LiveStatuses
    /\ booking' = [booking EXCEPT ![b].status = "CANCELLED"]
    /\ UNCHANGED <<court, hours, saves, closures, entered, req>>

-----------------------------------------------------------------------------

Arrive(p) ==
    \/ \E c \in Court : CreateCourt(p, c)
    \/ \E c \in Court, s \in {"ACTIVE", "INACTIVE"} : SetCourtStatus(p, c, s)
    \/ \E r \in Resource, W \in Hours : DeleteHours(p, r, W)
    \/ \E from \in 0 .. Days - 1, reason \in Reason : \E to \in from .. Days - 1 :
          \/ CloseRead(p, AllDay(from, to), reason)
          \/ \E w \in Timed : CloseRead(p, EachDay(from, to, w), reason)
    \/ \E from \in {e.window.from : e \in closures}, to \in {e.window.to : e \in closures},
          reasons \in {{r} : r \in Reason} \cup {Reason} :
          DeleteClosure(p, [from |-> from, to |-> to], reasons)
    \/ \E b \in Booking, R \in (SUBSET Court) \ {{}}, t \in Slot :
          \/ \E k \in Kind, s \in {"PENDING_APPROVAL", "CONFIRMED"} : ResolveNew(p, b, k, R, t, s)
          \/ ResolveMove(p, b, R, t)
    \/ \E b \in Booking : CancelBooking(p, b)

Proceed(p) ==
    \/ InsertHours(p)
    \/ CloseCheck(p) \/ CloseInsert(p)
    \/ WriteBooking(p)

\* What the answer of a handler that is about to write depends on.
Changed(q) ==
    CASE At(q, "hours")            -> hours'[req[q].on] # hours[req[q].on]
      [] At(q, "insert")           -> booking' # booking
      [] req[q].op \in {"book", "move"} -> closures' # closures
      [] OTHER                     -> FALSE

Notice ==
    stale' = {q \in Api : req'[q] # Idle /\ (q \in stale \/ (req'[q] = req[q] /\ Changed(q)))}

Tick ==
    /\ now < Days * DayLength
    /\ now' = IF GapFrom <= now + 1 /\ now + 1 < GapTo THEN GapTo ELSE now + 1
    /\ UNCHANGED <<court, hours, saves, closures, entered, booking, req, stale>>

Next ==
    \/ (\E p \in Api : Arrive(p) \/ Proceed(p)) /\ Notice /\ UNCHANGED now
    \/ Tick

Spec == Init /\ [][Next]_vars

-----------------------------------------------------------------------------

\* Live bookings of customers on a court that is closed at their time.
Buried == {b \in Booking :
              /\ booking[b].status \in {"PENDING_APPROVAL", "CONFIRMED"}
              /\ booking[b].kind # "BLOCK"
              /\ \E c \in booking[b].rooms : ClosedAt(c, booking[b].at)}

\* No closure swallows a booking, and no booking is made or moved into a closed
\* window, by a handler whose answer still holds when it writes (QA-04).
NothingBuriedUnlessRaced ==
    [][\A p \in Api \ stale : req'[p] # req[p] => Buried' \subseteq Buried]_vars

\* Saving hours replaces all of them: the rules of a resource are those of one save,
\* as long as no two saves raced.
HoursReplacedUnlessRaced ==
    [][\A p \in Api \ stale, r \in Resource :
          req'[p] # req[p] /\ hours'[r] # hours[r]
            => \A g, h \in hours'[r] : g.save = h.save]_vars
===============================================================================
