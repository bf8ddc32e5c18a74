----------------------------- MODULE Registrations -----------------------------
(***************************************************************************)
(* Capacity-limited registration: the club events of ProgramsService and   *)
(* the coach's group sessions of GroupSessionsService, with the account    *)
(* suspension of ModerationService that takes registrations away.          *)
(*                                                                         *)
(* A group session stands on a reservation of the booking engine, made     *)
(* before the session exists and released before it is cancelled; of that  *)
(* reservation its status matters here, and whose active rows it has.      *)
(* Each query is a step; the count and the insert of a registration share  *)
(* a transaction, but under READ COMMITTED that makes them no more than    *)
(* two steps.                                                              *)
(***************************************************************************)
EXTENDS Naturals, FiniteSets

CONSTANTS
    Event,        \* club events
    Session,      \* group sessions
    User,
    Capacities,   \* the capacities an activity may be given
    Api,          \* request handlers in flight at the same time
    Crashes       \* whether a handler may die between two steps

Activity == Event \cup Session

ASSUME ConstantsAssumption ==
    /\ Event \cap Session = {}
    /\ IsFiniteSet(Api) /\ Api # {}
    /\ Capacities \subseteq Nat \ {0}
    /\ Crashes \in BOOLEAN

VARIABLES
    state,       \* the row of the activity: none, open, hidden or cancelled
    phase,       \* where its hours are: ahead, running or over
    capacity,
    registered,  \* EventRegistration and GroupSessionRegistration rows
    backing,     \* the status of a session's reservation
    holding,     \* what its active ReservationResource rows hold
    overtaken,   \* sessions whose reservation was moved after it was given up
    suspended,   \* users with suspendedAt set
    told,        \* who was mailed that the session is off
    req          \* what each handler in flight has read and will do next

calendar == <<backing, holding, overtaken>>
vars == <<state, phase, capacity, registered, calendar, suspended, told, req>>

Idle == [op |-> "idle"]

Requests ==
    [op: {"standing", "count", "insert"}, on: Activity, user: User, cap: Capacities \cup {0}]
      \cup [op: {"create"}, on: Session, cap: Capacities]
      \cup [op: {"release", "mark", "mail"}, on: Session, seen: SUBSET User]
      \cup [op: {"move", "noshow"}, on: Session]
      \cup {Idle}

Phases == {"ahead", "running", "over"}

TypeOK ==
    /\ state \in [Activity -> {"none", "open", "hidden", "cancelled"}]
    /\ phase \in [Activity -> Phases]
    /\ capacity \in [Activity -> Capacities \cup {0}]
    /\ registered \in [Activity -> SUBSET User]
    /\ backing \in [Session -> {"none", "CONFIRMED", "CANCELLED", "NO_SHOW"}]
    /\ holding \in [Session -> SUBSET {"coach", "court"}]
    /\ overtaken \subseteq Session
    /\ suspended \subseteq User
    /\ told \in [Session -> SUBSET User]
    /\ req \in [Api -> Requests]

Init ==
    /\ state = [a \in Activity |-> "none"]
    /\ phase = [a \in Activity |-> "ahead"]
    /\ capacity = [a \in Activity |-> 0]
    /\ registered = [a \in Activity |-> {}]
    /\ backing = [s \in Session |-> "none"]
    /\ holding = [s \in Session |-> {}]
    /\ overtaken = {}
    /\ suspended = {}
    /\ told = [s \in Session |-> {}]
    /\ req = [p \in Api |-> Idle]

Begin(p, next) == req[p] = Idle /\ req' = [req EXCEPT ![p] = next]

At(p, op) == req[p].op = op

Continue(p, op) == req' = [req EXCEPT ![p].op = op]

Finish(p) == req' = [req EXCEPT ![p] = Idle]

-----------------------------------------------------------------------------
(***************************************************************************)
(* Events.                                                                 *)
(***************************************************************************)

Published(b) == IF b THEN "open" ELSE "hidden"

CreateEvent(p, e, n, hours, published) ==
    /\ req[p] = Idle
    /\ state[e] = "none"
    /\ state' = [state EXCEPT ![e] = Published(published)]
    /\ capacity' = [capacity EXCEPT ![e] = n]
    /\ phase' = [phase EXCEPT ![e] = hours]
    /\ UNCHANGED <<registered, calendar, suspended, told, req>>

\* ProgramsService.update: capacity and hours are what the form says, whoever is
\* registered already.
UpdateEvent(p, e, n, hours, published) ==
    /\ req[p] = Idle
    /\ state[e] # "none"
    /\ state' = [state EXCEPT ![e] = Published(published)]
    /\ capacity' = [capacity EXCEPT ![e] = n]
    /\ phase' = [phase EXCEPT ![e] = hours]
    /\ UNCHANGED <<registered, calendar, suspended, told, req>>

-----------------------------------------------------------------------------
(***************************************************************************)
(* Group sessions.                                                         *)
(***************************************************************************)

\* create: the coach and a court are reserved ...
ReserveSession(p, s, n) ==
    /\ backing[s] = "none"
    /\ phase[s] = "ahead"
    /\ backing' = [backing EXCEPT ![s] = "CONFIRMED"]
    /\ holding' = [holding EXCEPT ![s] = {"coach", "court"}]
    /\ Begin(p, [op |-> "create", on |-> s, cap |-> n])
    /\ UNCHANGED <<state, phase, capacity, registered, overtaken, suspended, told>>

\* ... and the session is put on them.
CreateSession(p) ==
    /\ At(p, "create")
    /\ state' = [state EXCEPT ![req[p].on] = "open"]
    /\ capacity' = [capacity EXCEPT ![req[p].on] = req[p].cap]
    /\ Finish(p)
    /\ UNCHANGED <<phase, registered, calendar, suspended, told>>

CancelRead(p, s) ==
    /\ state[s] = "open"
    /\ Begin(p, [op |-> "release", on |-> s, seen |-> registered[s]])
    /\ UNCHANGED <<state, phase, capacity, registered, calendar, suspended, told>>

\* sync_reservation_resource_active: rows follow the status, when it changes.
Follow(s, status) ==
    /\ backing' = [backing EXCEPT ![s] = status]
    /\ holding' = IF backing[s] = status THEN holding ELSE [holding EXCEPT ![s] = {}]

\* Mutant: the reservation is forgotten.
Free_Not(s) == UNCHANGED <<backing, holding>>

\* Mutant: the reservation is deleted where its status belongs changed.
Free_Deleted(s) == Follow(s, "deleted")

Free(s) == Follow(s, "CANCELLED")

\* releaseReservation
ReleaseBacking(p) ==
    /\ At(p, "release")
    /\ Free(req[p].on)
    /\ Continue(p, "mark")
    /\ UNCHANGED <<state, phase, capacity, registered, overtaken, suspended, told>>

MarkCancelled(p) ==
    /\ At(p, "mark")
    /\ state' = [state EXCEPT ![req[p].on] = "cancelled"]
    /\ Continue(p, "mail")
    /\ UNCHANGED <<phase, capacity, registered, calendar, suspended, told>>

MailRegistrants(p) ==
    /\ At(p, "mail")
    /\ told' = [told EXCEPT ![req[p].on] = @ \cup req[p].seen]
    /\ Finish(p)
    /\ UNCHANGED <<state, phase, capacity, registered, calendar, suspended>>

-----------------------------------------------------------------------------
(***************************************************************************)
(* Staff work on the session's reservation in the calendar, like on any    *)
(* other; the session is not looked at.                                    *)
(***************************************************************************)

\* cancel; so does the UPDATE of moderation when the coach is suspended.
CalendarCancel(p, s) ==
    /\ req[p] = Idle
    /\ backing[s] = "CONFIRMED"
    /\ Follow(s, "CANCELLED")
    /\ UNCHANGED <<state, phase, capacity, registered, overtaken, suspended, told, req>>

\* markNoShow asks that the reservation has begun, which a move may have brought
\* forward; it writes its status over whatever it is by then.
NoShowRead(p, s) ==
    /\ backing[s] = "CONFIRMED"
    /\ phase[s] # "ahead" \/ holding[s] = {"court"}
    /\ Begin(p, [op |-> "noshow", on |-> s])
    /\ UNCHANGED <<state, phase, capacity, registered, calendar, suspended, told>>

NoShowCommit(p) ==
    /\ At(p, "noshow")
    /\ Follow(req[p].on, "NO_SHOW")
    /\ Finish(p)
    /\ UNCHANGED <<state, phase, capacity, registered, overtaken, suspended, told>>

MoveRead(p, s) ==
    /\ backing[s] = "CONFIRMED"
    /\ Begin(p, [op |-> "move", on |-> s])
    /\ UNCHANGED <<state, phase, capacity, registered, calendar, suspended, told>>

\* reschedule deletes the rows and inserts those of the courts in the request, as
\* active as the reservation was when it was read.
MoveCommit(p) ==
    /\ At(p, "move")
    /\ LET s == req[p].on
       IN  /\ holding' = [holding EXCEPT ![s] = {"court"}]
           /\ overtaken' = IF backing[s] = "CONFIRMED" THEN overtaken ELSE overtaken \cup {s}
    /\ Finish(p)
    /\ UNCHANGED <<state, phase, capacity, registered, backing, suspended, told>>

\* No such slot, or it is taken: the transaction is rolled back.
MoveRefused(p) ==
    /\ At(p, "move")
    /\ Finish(p)
    /\ UNCHANGED <<state, phase, capacity, registered, calendar, suspended, told>>

-----------------------------------------------------------------------------
(***************************************************************************)
(* Registration.                                                           *)
(***************************************************************************)

\* Mutant: a cancelled session still takes players.
Takes_Any(a) == state[a] # "none" /\ phase[a] # "over"

Takes(a) == state[a] = "open" /\ phase[a] # "over"

\* Only a group session asks for the user's standing next.
RegisterRead(p, a, u) ==
    /\ Takes(a)
    /\ Begin(p, [op |-> IF a \in Session THEN "standing" ELSE "count",
                 on |-> a, user |-> u, cap |-> capacity[a]])
    /\ UNCHANGED <<state, phase, capacity, registered, calendar, suspended, told>>

\* Mutant: the standing of the account is not looked up.
InGoodStanding_Always(u) == TRUE

InGoodStanding(u) == u \notin suspended

\* assertInGoodStanding
CheckStanding(p) ==
    /\ At(p, "standing")
    /\ IF InGoodStanding(req[p].user) THEN Continue(p, "count") ELSE Finish(p)
    /\ UNCHANGED <<state, phase, capacity, registered, calendar, suspended, told>>

\* Mutant: off by one.
Full_OneMore(a, cap) == Cardinality(registered[a]) > cap

Full(a, cap) == Cardinality(registered[a]) >= cap

\* SELECT count(*) ..., against the capacity read before the transaction.
CountRegistrations(p) ==
    /\ At(p, "count")
    /\ IF Full(req[p].on, req[p].cap) THEN Finish(p) ELSE Continue(p, "insert")
    /\ UNCHANGED <<state, phase, capacity, registered, calendar, suspended, told>>

\* INSERT; the unique index turns a second registration into a success.
InsertRegistration(p) ==
    /\ At(p, "insert")
    /\ registered' = [registered EXCEPT ![req[p].on] = @ \cup {req[p].user}]
    /\ Finish(p)
    /\ UNCHANGED <<state, phase, capacity, calendar, suspended, told>>

Unregister(p, a, u) ==
    /\ req[p] = Idle
    /\ u \in registered[a]
    /\ registered' = [registered EXCEPT ![a] = @ \ {u}]
    /\ UNCHANGED <<state, phase, capacity, calendar, suspended, told, req>>

-----------------------------------------------------------------------------

\* The user's places in group sessions that have not begun; events keep theirs.
WithoutUpcoming(u) ==
    [a \in Activity |-> IF a \in Session /\ phase[a] = "ahead"
                          THEN registered[a] \ {u} ELSE registered[a]]

\* ModerationService.suspend, with or without cancelUpcoming.
Suspend(p, u, cancelUpcoming) ==
    /\ req[p] = Idle
    /\ suspended' = suspended \cup {u}
    /\ registered' = IF cancelUpcoming THEN WithoutUpcoming(u) ELSE registered
    /\ UNCHANGED <<state, phase, capacity, calendar, told, req>>

Reinstate(p, u) ==
    /\ req[p] = Idle
    /\ u \in suspended
    /\ suspended' = suspended \ {u}
    /\ UNCHANGED <<state, phase, capacity, registered, calendar, told, req>>

Crash(p) ==
    /\ Crashes
    /\ req[p] # Idle
    /\ Finish(p)
    /\ UNCHANGED <<state, phase, capacity, registered, calendar, suspended, told>>

\* The hours of an activity come and go.
Pass(a) ==
    /\ state[a] # "none"
    /\ phase[a] # "over"
    /\ phase' = [phase EXCEPT ![a] = IF @ = "ahead" THEN "running" ELSE "over"]
    /\ UNCHANGED <<state, capacity, registered, calendar, suspended, told, req>>

Arrive(p) ==
    \/ \E e \in Event, n \in Capacities, ph \in Phases, b \in BOOLEAN :
          CreateEvent(p, e, n, ph, b) \/ UpdateEvent(p, e, n, ph, b)
    \/ \E s \in Session, n \in Capacities : ReserveSession(p, s, n)
    \/ \E s \in Session : CancelRead(p, s) \/ CalendarCancel(p, s)
    \/ \E s \in Session : NoShowRead(p, s) \/ MoveRead(p, s)
    \/ \E a \in Activity, u \in User : RegisterRead(p, a, u) \/ Unregister(p, a, u)
    \/ \E u \in User : Reinstate(p, u)
    \/ \E u \in User, b \in BOOLEAN : Suspend(p, u, b)

Proceed(p) ==
    \/ CreateSession(p)
    \/ ReleaseBacking(p) \/ MarkCancelled(p) \/ MailRegistrants(p)
    \/ NoShowCommit(p) \/ MoveCommit(p) \/ MoveRefused(p)
    \/ CheckStanding(p) \/ CountRegistrations(p) \/ InsertRegistration(p)

Next ==
    \/ \E p \in Api : Arrive(p) \/ Proceed(p) \/ Crash(p)
    \/ \E a \in Activity : Pass(a)

Spec == Init /\ [][Next]_vars

-----------------------------------------------------------------------------

\* A cancelled session holds neither coach nor court, wherever the handler that
\* cancelled it died, and whatever staff did to its reservation: unless they moved
\* it with what they had read before it was cancelled (see overtaken).
CancelledHoldsNothing ==
    \A s \in Session \ overtaken : state[s] = "cancelled" => holding[s] = {}

Inserting(s) == {p \in Api : At(p, "insert") /\ req[p].on = s}

\* The transaction around the count does not serialise the handlers, but the
\* count bounds what they can do: a session is oversold by no more than the
\* handlers that race each other, less the one that is right.
OversoldByRacersOnly ==
    \A s \in Session :
        Cardinality(registered[s]) + Cardinality(Inserting(s))
          < capacity[s] + Cardinality(Api)

-----------------------------------------------------------------------------
(***************************************************************************)
(* What comments in the code state of one activity.  It holds of those on  *)
(* which no handler was disturbed (see RegistrationsHistory).              *)
(***************************************************************************)

Joining(a) == registered'[a] \ registered[a]

InGoodStandingOnly(s) == Joining(s) \cap suspended = {}

Told(s) ==
    state[s] = "cancelled" /\ (\A p \in Api : ~ At(p, "mail"))
      => registered[s] \subseteq told[s]
===============================================================================
