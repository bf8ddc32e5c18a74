------------------------------- MODULE BookingTx -------------------------------
(***************************************************************************)
(* The transactions of the booking engine, statement by statement:         *)
(* runBookingTransaction, the transaction of reschedule, and the UPDATE    *)
(* that gives the rows of a booking back, under READ COMMITTED.            *)
(*                                                                         *)
(* Reservations takes each of these for one step.  This module says why    *)
(* that is right and what the parts are for: SELECT ... FOR UPDATE orders  *)
(* the transactions over the same court, the conflict query finds what is  *)
(* committed, and the constraint catches what neither sees, the rows of a  *)
(* coach, whose Resource has no clubId and is not locked.                  *)
(*                                                                         *)
(* Each booking runs its transactions one after the other; two reschedules *)
(* of one booking at the same time are in Reservations.                    *)
(***************************************************************************)
EXTENDS Naturals, FiniteSets

CONSTANTS
    Booking,     \* the bookings, each with at most one transaction open
    Court,       \* resources of the club
    Coach,       \* shared COACH resources, of no club
    CourtSets,   \* the court selections a request may name
    CoachSets,   \* the coaches a request may add: none, or one
    Period,      \* half-open periods
    Scans,       \* the orders in which FOR UPDATE may meet the courts: their ranks
    MaxMoves,    \* bound on the reschedules of one booking
    Cancels,     \* whether bookings are cancelled in this instance
    Crashes      \* whether a connection may be lost in a transaction

ASSUME ConstantsAssumption ==
    /\ Period \subseteq [from: Nat, to: Nat]
    /\ CourtSets \subseteq (SUBSET Court) \ {{}}
    /\ CoachSets \subseteq SUBSET Coach
    /\ Court \cap Coach = {}
    /\ Scans \subseteq [Court -> Nat]
    /\ MaxMoves \in Nat
    /\ Cancels \in BOOLEAN /\ Crashes \in BOOLEAN
    /\ "nobody" \notin Booking

VARIABLES
    pc,       \* the statement a booking's transaction is at
    want,     \* what it asks for
    todo,     \* the courts whose row lock it still needs, with their ranks
    locked,   \* who holds the row lock of a court
    ins,      \* the resources for which it has inserted a row
    last,     \* the row whose index entry is being checked
    rows,     \* the committed active rows
    result,   \* what the last request of the booking was answered
    moves     \* how often it was rescheduled

vars == <<pc, want, todo, locked, ins, last, rows, result, moves>>

Statements == {"idle", "delete", "lock", "check", "insert", "verify", "update"}

Results == {"none", "done", "overlap", "deadlock", "lost", "cancelled"}

Place == Court \cup Coach

Wish == [courts: SUBSET Court, coach: SUBSET Coach, period: [from: Nat, to: Nat]]

Row == [of: Booking, room: Place, period: Period]

TypeOK ==
    /\ pc \in [Booking -> Statements]
    /\ want \in [Booking -> Wish]
    /\ \A b \in Booking : pc[b] # "idle" => want[b].period \in Period
    /\ DOMAIN todo = Booking
    /\ \A b \in Booking : DOMAIN todo[b] \subseteq Court /\ todo[b] \in [DOMAIN todo[b] -> Nat]
    /\ locked \in [Court -> Booking \cup {"nobody"}]
    /\ ins \in [Booking -> SUBSET Place]
    /\ last \in [Booking -> Place \cup {"none"}]
    /\ \A b \in Booking : pc[b] = "verify" => last[b] \in ins[b]
    /\ rows \subseteq Row
    /\ result \in [Booking -> Results]
    /\ moves \in [Booking -> 0..MaxMoves]

NoCourts == [c \in {} |-> 0]

NoWish == [courts |-> {}, coach |-> {}, period |-> [from |-> 0, to |-> 0]]

Init ==
    /\ pc = [b \in Booking |-> "idle"]
    /\ want = [b \in Booking |-> NoWish]
    /\ todo = [b \in Booking |-> NoCourts]
    /\ locked = [c \in Court |-> "nobody"]
    /\ ins = [b \in Booking |-> {}]
    /\ last = [b \in Booking |-> "none"]
    /\ rows = {}
    /\ result = [b \in Booking |-> "none"]
    /\ moves = [b \in Booking |-> 0]

-----------------------------------------------------------------------------

Overlap(s, t) == s.from < t.to /\ t.from < s.to

\* Mutant: [slot.resourceIds, coachResourceId], the spread forgotten.
Rooms_NotSpread(b) == {want[b].courts} \cup want[b].coach

Rooms(b) == want[b].courts \cup want[b].coach

Held(b) == {x \in rows : x.of = b}

\* The DELETE of a reschedule is not committed before its transaction is: the
\* old rows are there for everybody else, on their way out.
Leaving(b) == IF pc[b] \in {"lock", "check", "insert", "verify", "update"}
                THEN Held(b) ELSE {}

\* Committed rows of others that stand in the way of b on the resources X.
Committed(b, X) ==
    {x \in rows : /\ x.of # b
                  /\ x.room \in X
                  /\ Overlap(x.period, want[b].period)}

\* The other open transactions that inserted, or are deleting, such a row.
Pending(b, X) ==
    {u \in Booking \ {b} :
        \/ ins[u] \cap X # {} /\ Overlap(want[u].period, want[b].period)
        \/ Leaving(u) \cap Committed(b, X) # {}}

\* Mutant: the connection goes back to the pool with the transaction open.
Released_Not(b) == locked

Released(b) == [c \in Court |-> IF locked[c] = b THEN "nobody" ELSE locked[c]]

\* COMMIT and ROLLBACK: the row locks go, and the transaction is over.
End(b, answer) ==
    /\ pc' = [pc EXCEPT ![b] = "idle"]
    /\ locked' = Released(b)
    /\ ins' = [ins EXCEPT ![b] = {}]
    /\ todo' = [todo EXCEPT ![b] = NoCourts]
    /\ result' = [result EXCEPT ![b] = answer]
    /\ UNCHANGED <<want, last>>

Rollback(b, answer) == End(b, answer) /\ UNCHANGED <<rows, moves>>

Goto(b, statement) == pc' = [pc EXCEPT ![b] = statement]

-----------------------------------------------------------------------------

\* The courts with the order in which the scan returns them.
Scanned(R, scan) == [c \in R |-> scan[c]]

\* The court whose row comes next.
NextCourts(b) ==
    {c \in DOMAIN todo[b] : \A d \in DOMAIN todo[b] : todo[b][c] <= todo[b][d]}

Open(b, R, K, t, statement) ==
    /\ want' = [want EXCEPT ![b] = [courts |-> R, coach |-> K, period |-> t]]
    /\ \E scan \in Scans : todo' = [todo EXCEPT ![b] = Scanned(R, scan)]
    /\ Goto(b, statement)
    /\ UNCHANGED <<locked, ins, last, rows, result>>

\* runBookingTransaction starts.
BeginBooking(b, R, K, t) ==
    /\ pc[b] = "idle" /\ result[b] = "none"
    /\ Open(b, R, K, t, "lock")
    /\ UNCHANGED moves

\* The transaction of reschedule starts; its new rows are courts only.
BeginMove(b, R, t) ==
    /\ pc[b] = "idle" /\ Held(b) # {}
    /\ moves[b] < MaxMoves
    /\ Open(b, R, {}, t, "delete")
    /\ moves' = [moves EXCEPT ![b] = @ + 1]

\* DELETE FROM "ReservationResource" WHERE "reservationId" = ...
DeleteRows(b) ==
    /\ pc[b] = "delete"
    /\ Goto(b, "lock")
    /\ UNCHANGED <<want, todo, locked, ins, last, rows, result, moves>>

\* Mutant: FOR UPDATE was dropped from the SELECT.
LockFree_Always(b, c) == TRUE

LockFree(b, c) == locked[c] \in {"nobody", b}

\* SELECT id FROM "Resource" ... FOR UPDATE, one row after the other.
LockCourt(b) ==
    /\ pc[b] = "lock"
    /\ \E c \in NextCourts(b) :
         /\ LockFree(b, c)
         /\ locked' = [locked EXCEPT ![c] = b]
         /\ todo' = [todo EXCEPT ![b] = [d \in DOMAIN todo[b] \ {c} |-> todo[b][d]]]
         /\ Goto(b, IF DOMAIN todo[b] = {c} THEN "check" ELSE "lock")
    /\ UNCHANGED <<want, ins, last, rows, result, moves>>

\* Mutant: the conflict query has lost its period.
Conflicts_AnyTime(b) == {x \in rows : x.of # b /\ x.room \in Rooms(b)}

\* SELECT 1 FROM "ReservationResource" WHERE "isActive" AND ... LIMIT 1
Conflicts(b) == Committed(b, Rooms(b))

CheckConflicts(b) ==
    /\ pc[b] = "check"
    /\ \/ /\ Conflicts(b) = {}
          /\ Goto(b, "insert")
          /\ UNCHANGED <<want, todo, locked, ins, last, rows, result, moves>>
       \/ /\ Conflicts(b) # {}
          /\ Rollback(b, "overlap")

\* resourceIds lists the coach after the courts.
NextRooms(b) ==
    LET left == Rooms(b) \ ins[b]
    IN  IF left \cap Court # {} THEN left \cap Court ELSE left

\* INSERT INTO "ReservationResource": the row and its index entry are written
\* first, and then checked against the constraint.
InsertRow(b, x) ==
    /\ pc[b] = "insert"
    /\ ins' = [ins EXCEPT ![b] = @ \cup {x}]
    /\ last' = [last EXCEPT ![b] = x]
    /\ Goto(b, "verify")
    /\ UNCHANGED <<want, todo, locked, rows, result, moves>>

\* The open transactions the row has to wait for.
Against(b) == Pending(b, {last[b]})

\* Mutant: the constraint does not see the committed rows.
Violates_Never(b) == {}

\* The committed rows that refuse it.
Violates(b) == Committed(b, {last[b]}) \ UNION {Leaving(u) : u \in Booking \ {b}}

\* no_resource_overlap
VerifyRow(b) ==
    /\ pc[b] = "verify"
    /\ \/ /\ Violates(b) # {}
          /\ Rollback(b, "overlap")
       \/ /\ Violates(b) = {} /\ Against(b) = {}
          /\ Goto(b, IF ins[b] = Rooms(b) THEN "update" ELSE "insert")
          /\ UNCHANGED <<want, todo, locked, ins, last, rows, result, moves>>

\* UPDATE "Reservation" and COMMIT.
Commit(b) ==
    /\ pc[b] = "update"
    /\ rows' = (rows \ Held(b)) \cup
                 {[of |-> b, room |-> x, period |-> want[b].period] : x \in ins[b]}
    /\ End(b, "done")
    /\ UNCHANGED moves

\* b waits for u: for the lock of a court, or for the fate of a row.
Waits(b, u) ==
    \/ /\ pc[b] = "lock"
       /\ \E c \in NextCourts(b) : ~ LockFree(b, c) /\ u = locked[c]
    \/ /\ pc[b] = "verify"
       /\ Violates(b) = {}
       /\ u \in Against(b)

Knot(S) == S # {} /\ \A b \in S : \E u \in S : Waits(b, u)

\* A smallest such set is a circle of transactions that wait for each other.
Circle(S) == Knot(S) /\ \A T \in SUBSET S : Knot(T) => T = S

\* The deadlock detector of the database: a transaction that waits in a circle
\* is rolled back with an error that isExclusionViolation does not recognise.
BreakDeadlock(b) ==
    /\ \E S \in SUBSET Booking : b \in S /\ Circle(S)
    /\ Rollback(b, "deadlock")

\* The connection is lost or Prisma's transaction timeout strikes, and the
\* database rolls back.
Lose(b) ==
    /\ Crashes
    /\ pc[b] # "idle"
    /\ Rollback(b, "lost")

\* The UPDATE of a cancellation, with the trigger.
Cancel(b) ==
    /\ Cancels
    /\ pc[b] = "idle" /\ Held(b) # {}
    /\ rows' = rows \ Held(b)
    /\ result' = [result EXCEPT ![b] = "cancelled"]
    /\ UNCHANGED <<pc, want, todo, locked, ins, last, moves>>

Request(b) ==
    \/ \E R \in CourtSets, K \in CoachSets, t \in Period : BeginBooking(b, R, K, t)
    \/ \E R \in CourtSets, t \in Period : BeginMove(b, R, t)
    \/ Cancel(b)

Proceed(b) ==
    \/ DeleteRows(b) \/ LockCourt(b) \/ CheckConflicts(b)
    \/ \E x \in NextRooms(b) : InsertRow(b, x)
    \/ VerifyRow(b) \/ Commit(b)

Next == \E b \in Booking : Request(b) \/ Proceed(b) \/ BreakDeadlock(b) \/ Lose(b)

Spec == Init /\ [][Next]_vars

\* The database executes statements, hands a lock to whoever waits for it, and
\* looks for deadlocks.  Users owe us nothing.
Fairness ==
    \A b \in Booking : WF_vars(Proceed(b)) /\ WF_vars(BreakDeadlock(b))

FairSpec == Spec /\ Fairness

-----------------------------------------------------------------------------

held == [b \in Booking |-> {[room |-> x.room, period |-> x.period] : x \in Held(b)}]

Ledger == INSTANCE Inventory

\* Statement by statement, the transactions still change one booking at a time,
\* as a whole, and never let two of them hold a court or a coach together.
ImplementsInventory == Ledger!Spec

\* The row lock is enough for courts: once a transaction has found a court free
\* nobody takes it away, so that the constraint never has to speak for one.
CheckedCourtsStayFree ==
    \A b \in Booking : pc[b] \in {"insert", "verify", "update"} =>
        /\ Committed(b, want[b].courts) = {}
        /\ Pending(b, want[b].courts) = {}

\* Courts are scanned in one order, so only a coach's row, for which there is no
\* lock, can make bookings wait for each other.  (A move can wait for a court with
\* its old rows deleted, and so be part of a circle by a court.)
OnlyCoachesDeadlock ==
    \A S \in SUBSET Booking :
        Circle(S) /\ (\A b \in S : Held(b) = {}) =>
            \A b \in S : pc[b] = "verify" /\ last[b] \in Coach

Clash(b, u) ==
    /\ b # u
    /\ Rooms(b) \cap Rooms(u) # {}
    /\ Overlap(want[b].period, want[u].period)

\* S clashes with nobody outside it.
Apart(S) == \A b \in S, u \in Booking \ S : ~ Clash(b, u)

\* When all transactions are over and none of the bookings was moved, cancelled
\* or lost, whoever was told that the place is taken asked for a place that
\* somebody now holds.  A victim of the deadlock detector may have lost to a
\* booking that lost in turn (three lessons of one coach, the middle one clashing
\* with both), but nobody is turned away where nobody is served.
LosersHaveWinner ==
    (\A b \in Booking : pc[b] = "idle" /\ result[b] \notin {"lost", "cancelled"}
                          /\ moves[b] = 0)
    => /\ \A b \in Booking : result[b] = "overlap" =>
            \E u \in Booking : result[u] = "done" /\ Clash(b, u)
       /\ \A S \in SUBSET Booking :
            Apart(S) /\ (\E b \in S : result[b] = "deadlock") =>
              \E u \in S : result[u] = "done"

\* No transaction waits for ever, whatever it waits for.
EveryRequestAnswered == \A b \in Booking : pc[b] # "idle" ~> pc[b] = "idle"
===============================================================================
