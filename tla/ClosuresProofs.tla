----------------------------- MODULE ClosuresProofs -----------------------------
(***************************************************************************)
(* Closures is type correct, buries no booking and mixes no hours, for     *)
(* every set of courts, bookings and handlers and every calendar, but for  *)
(* what handlers do whose answer was overtaken; and ClosureList shows what *)
(* is in the database, however many closures there are.                    *)
(*                                                                         *)
(* The argument.  A handler that is about to write has asked one question: *)
(* whether bookings stand in the way of a closure, whether courts are open *)
(* to a booking, or which hours are there to be deleted.  FreshAnswers     *)
(* says that its answer is still the right one unless it is stale: a       *)
(* handler that has just asked has the answer of the moment, and a step of *)
(* another one that changes what was asked about makes it stale.  A write  *)
(* on the strength of a right answer does no harm.                         *)
(*                                                                         *)
(* The list is followed window by window, in any order of the beginnings:  *)
(* Laid says that every window seen so far is shown by an entry, and that  *)
(* an entry stands for windows that follow each other in that order, up to *)
(* the last one for the last entry.  What is deleted with an entry is what *)
(* is in its range, and whatever else is in the range begins with its      *)
(* first window or is within its last.                                     *)
(***************************************************************************)
EXTENDS ClosureList, FiniteSetTheorems, WellFoundedInduction, TLAPS

\* Nothing stands in the way of the closure that is about to be inserted.
ClearToClose(p) == At(p, "insert") => Swallowed(Resolved(req[p].windows)) = {}

\* The courts of the booking that is about to be written are not closed then.
ClearToBook(p) ==
    req[p].op \in {"book", "move"} => \A c \in req[p].row.rooms : ~ ClosedAt(c, req[p].row.at)

\* The hours about to be deleted are all there are.
ClearToReplace(p) == At(p, "hours") => req[p].old = hours[req[p].on]

FreshAnswers ==
    \A p \in Api \ stale : ClearToClose(p) /\ ClearToBook(p) /\ ClearToReplace(p)

\* What is being moved exists.
MovesExist == \A p \in Api : At(p, "move") => booking[req[p].on] \in Bookings

IInv == TypeOK /\ MovesExist /\ FreshAnswers

-----------------------------------------------------------------------------
(***************************************************************************)
(* Types.                                                                  *)
(***************************************************************************)

LEMMA RequestTypes ==
    ASSUME TypeOK, NEW p \in Api
    PROVE  /\ req[p].op \in {"check", "insert"} =>
                req[p] \in [op: {"check", "insert"}, windows: SUBSET Window,
                            rooms: SUBSET Court, reason: Reason]
           /\ req[p].op \in {"book", "move"} =>
                req[p] \in [op: {"book", "move"}, on: Booking, row: Bookings]
           /\ req[p].op = "hours" =>
                req[p] \in [op: {"hours"}, on: Resource, old: SUBSET Rules, new: SUBSET Window]
  BY DEF TypeOK, Requests, Idle

\* A booking that is live is one.
LEMMA LiveTypes ==
    ASSUME TypeOK, NEW b \in Booking, booking[b].status \in LiveStatuses
    PROVE  booking[b] \in Bookings
  BY DEF TypeOK, LiveStatuses, NoBooking

\* The windows of a closure are windows of the calendar.
LEMMA WindowTypes ==
    ASSUME NEW from \in 0 .. Days - 1, NEW to \in from .. Days - 1, NEW w \in Timed
    PROVE  AllDay(from, to) \subseteq Window /\ EachDay(from, to, w) \subseteq Window
  <1>1. Days \in Nat /\ DayLength \in Nat /\ w \in Window
    BY ConstantsAssumption
  <1>2. \A d \in Nat : d * DayLength \in Nat
    BY <1>1
  <1>3. from \in Nat /\ to \in Nat /\ to + 1 \in Nat
    BY <1>1
  <1>4. AllDay(from, to) \subseteq Window
    BY <1>2, <1>3 DEF AllDay, Window
  <1>5. \A d \in from .. to : OnDay(d, w) \in Window
    <2> TAKE d \in from .. to
    <2>1. d \in Nat /\ d * DayLength \in Nat
      BY <1>2, <1>3
    <2>2. w.from \in Nat /\ w.to \in Nat
      BY <1>1 DEF Window
    <2>3. QED
      BY <2>1, <2>2 DEF OnDay, Window
  <1>6. QED
    BY <1>4, <1>5 DEF EachDay

\* Where the clocks go forward is within a day.
LEMMA TheGap ==
    /\ GapFrom \in Nat /\ GapTo \in Nat /\ GapFrom <= GapTo
    /\ \E d \in Nat : d * DayLength <= GapFrom - (GapTo - GapFrom) /\ GapTo <= (d + 1) * DayLength
  BY ConstantsAssumption

\* What is read for a time is not later, and a time.
LEMMA ReadTypes ==
    ASSUME NEW t \in Nat
    PROVE  AsRead(t) \in Nat /\ AsRead(t) <= t
  <1>1. PICK d \in Nat : d * DayLength <= GapFrom - (GapTo - GapFrom)
    BY TheGap
  <1>2. d * DayLength \in Nat
    BY ConstantsAssumption
  <1> DEFINE v == d * DayLength
  <1>3. v \in Nat /\ v <= GapFrom - (GapTo - GapFrom)
    BY <1>1, <1>2
  <1> HIDE DEF v
  <1>4. QED
    BY <1>3, TheGap DEF AsRead

LEMMA ResolvedTypes ==
    ASSUME NEW W \in SUBSET Window
    PROVE  Resolved(W) \subseteq Window
  <1> SUFFICES ASSUME NEW w \in W
               PROVE  [from |-> AsRead(w.from), to |-> AsRead(w.to)] \in Window
    BY DEF Resolved
  <1>1. w.from \in Nat /\ w.to \in Nat
    BY DEF Window
  <1>2. QED
    BY <1>1, ReadTypes DEF Window

\* What is saved as hours becomes rules of that save.
LEMMA SavedTypes ==
    ASSUME NEW n \in Nat, NEW W \in SUBSET Window
    PROVE  Saved(n, W) \subseteq Rules
  BY DEF Saved, Rules

\* A handler takes up a request, and nothing but requests change.
LEMMA BeginTypes ==
    ASSUME TypeOK, NEW p \in Api, NEW next \in Requests, Begin(p, next),
           UNCHANGED <<now, court, hours, saves, closures, entered, booking>>, Notice
    PROVE  TypeOK'
  <1>1. req' \in [Api -> Requests]
    BY DEF Begin, TypeOK
  <1>2. stale' \subseteq Api
    BY DEF Notice
  <1>3. QED
    BY <1>1, <1>2 DEF TypeOK

\* A handler that ends.
LEMMA FinishTypes ==
    ASSUME TypeOK, NEW p \in Api, Finish(p)
    PROVE  req' \in [Api -> Requests]
  BY DEF TypeOK, Finish, Requests

LEMMA ArriveTypes ==
    ASSUME TypeOK, NEW p \in Api, Arrive(p), Notice, UNCHANGED now
    PROVE  TypeOK'
  <1>0. stale' \subseteq Api
    BY DEF Notice
  <1>1. CASE \E c \in Court : CreateCourt(p, c)
    <2>1. PICK c \in Court : CreateCourt(p, c)
      BY <1>1
    <2>2. Saved(0, DefaultHours) \subseteq Rules
      BY SavedTypes, ConstantsAssumption
    <2>3. court' \in [Court -> {"none", "ACTIVE", "INACTIVE"}]
      BY <2>1 DEF CreateCourt, TypeOK
    <2>4. hours' \in [Resource -> SUBSET Rules]
      BY <2>1, <2>2 DEF CreateCourt, TypeOK
    <2>5. QED
      BY <1>0, <2>1, <2>3, <2>4 DEF CreateCourt, TypeOK
  <1>2. CASE \E c \in Court, s \in {"ACTIVE", "INACTIVE"} : SetCourtStatus(p, c, s)
    BY <1>0, <1>2 DEF SetCourtStatus, TypeOK
  <1>3. CASE \E r \in Resource, W \in Hours : DeleteHours(p, r, W)
    <2>1. PICK r \in Resource, W \in Hours : DeleteHours(p, r, W)
      BY <1>3
    <2>2. W \subseteq Window
      BY ConstantsAssumption
    <2>3. [op |-> "hours", on |-> r, old |-> hours[r], new |-> W] \in Requests
      BY <2>2 DEF Requests, TypeOK
    <2>4. QED
      BY <2>1, <2>3, BeginTypes DEF DeleteHours, Doomed
  <1>4. ASSUME NEW windows \in SUBSET Window, NEW reason \in Reason, CloseRead(p, windows, reason)
        PROVE  TypeOK'
    <2>1. [op |-> "check", windows |-> windows, rooms |-> ActiveCourts, reason |-> reason] \in Requests
      BY DEF Requests, ActiveCourts
    <2>2. QED
      BY <1>4, <2>1, BeginTypes DEF CloseRead
  <1>5. CASE \E from \in 0 .. Days - 1, reason \in Reason : \E to \in from .. Days - 1 :
                \/ CloseRead(p, AllDay(from, to), reason)
                \/ \E w \in Timed : CloseRead(p, EachDay(from, to, w), reason)
    <2>1. PICK from \in 0 .. Days - 1, reason \in Reason : \E to \in from .. Days - 1 :
                \/ CloseRead(p, AllDay(from, to), reason)
                \/ \E w \in Timed : CloseRead(p, EachDay(from, to, w), reason)
      BY <1>5
    <2>2. PICK to \in from .. Days - 1 :
                \/ CloseRead(p, AllDay(from, to), reason)
                \/ \E w \in Timed : CloseRead(p, EachDay(from, to, w), reason)
      BY <2>1
    <2>3. CASE CloseRead(p, AllDay(from, to), reason)
      <3>1. AllDay(from, to) \subseteq Window
        <4>1. from \in Nat /\ to + 1 \in Nat /\ DayLength \in Nat
          BY ConstantsAssumption
        <4>2. from * DayLength \in Nat /\ (to + 1) * DayLength \in Nat
          BY <4>1
        <4>3. QED
          BY <4>2 DEF AllDay, Window
      <3>2. QED
        BY <1>4, <2>3, <3>1
    <2>4. CASE \E w \in Timed : CloseRead(p, EachDay(from, to, w), reason)
      <3>1. PICK w \in Timed : CloseRead(p, EachDay(from, to, w), reason)
        BY <2>4
      <3>2. EachDay(from, to, w) \subseteq Window
        BY WindowTypes
      <3>3. QED
        BY <1>4, <3>1, <3>2
    <2>5. QED
      BY <2>2, <2>3, <2>4
  <1>6. CASE \E from \in {e.window.from : e \in closures}, to \in {e.window.to : e \in closures},
                reasons \in {{r} : r \in Reason} \cup {Reason} :
                DeleteClosure(p, [from |-> from, to |-> to], reasons)
    BY <1>0, <1>6 DEF DeleteClosure, TypeOK
  <1>7. ASSUME NEW b \in Booking, NEW R \in SUBSET Court, NEW t \in Slot,
               \/ \E k \in Kind, s \in {"PENDING_APPROVAL", "CONFIRMED"} : ResolveNew(p, b, k, R, t, s)
               \/ ResolveMove(p, b, R, t)
        PROVE  TypeOK'
    <2>1. t \in Window /\ Kind \subseteq BookingKinds
      BY ConstantsAssumption
    <2>2. CASE \E k \in Kind, s \in {"PENDING_APPROVAL", "CONFIRMED"} : ResolveNew(p, b, k, R, t, s)
      <3>1. PICK k \in Kind, s \in {"PENDING_APPROVAL", "CONFIRMED"} : ResolveNew(p, b, k, R, t, s)
        BY <2>2
      <3>2. [status |-> s, kind |-> k, rooms |-> R, at |-> t] \in Bookings
        BY <2>1 DEF Bookings
      <3>3. [op |-> "book", on |-> b,
             row |-> [status |-> s, kind |-> k, rooms |-> R, at |-> t]] \in Requests
        BY <3>2 DEF Requests
      <3>4. QED
        BY <3>1, <3>3, BeginTypes DEF ResolveNew
    <2>3. CASE ResolveMove(p, b, R, t)
      <3>1. booking[b] \in Bookings
        BY <2>3, LiveTypes DEF ResolveMove
      <3>2. [status |-> booking[b].status, kind |-> booking[b].kind, rooms |-> R, at |-> t] \in Bookings
        BY <2>1, <3>1 DEF Bookings
      <3>3. [op |-> "move", on |-> b,
             row |-> [status |-> booking[b].status, kind |-> booking[b].kind,
                      rooms |-> R, at |-> t]] \in Requests
        BY <3>2 DEF Requests
      <3>4. QED
        BY <2>3, <3>3, BeginTypes DEF ResolveMove
    <2>4. QED
      BY <1>7, <2>2, <2>3
  <1>8. CASE \E b \in Booking : CancelBooking(p, b)
    <2>1. PICK b \in Booking : CancelBooking(p, b)
      BY <1>8
    <2>2. booking[b] \in Bookings
      BY <2>1, LiveTypes DEF CancelBooking
    <2>3. [booking[b] EXCEPT !.status = "CANCELLED"] \in Bookings
      BY <2>2 DEF Bookings
    <2>4. booking' \in [Booking -> Bookings \cup {NoBooking}]
      BY <2>1, <2>3 DEF CancelBooking, TypeOK
    <2>5. QED
      BY <1>0, <2>1, <2>4 DEF CancelBooking, TypeOK
  <1>9. QED
    BY <1>1, <1>2, <1>3, <1>5, <1>6, <1>7, <1>8 DEF Arrive

LEMMA ProceedTypes ==
    ASSUME TypeOK, MovesExist, NEW p \in Api, Proceed(p), Notice, UNCHANGED now
    PROVE  TypeOK'
  <1>0. stale' \subseteq Api
    BY DEF Notice
  <1>1. CASE InsertHours(p)
    <2>1. req[p] \in [op: {"hours"}, on: Resource, old: SUBSET Rules, new: SUBSET Window]
      BY <1>1, RequestTypes DEF InsertHours, At
    <2>2. saves' \in [Resource -> Nat]
      BY <1>1, <2>1 DEF InsertHours, TypeOK
    <2>3. Saved(saves'[req[p].on], req[p].new) \subseteq Rules
      BY <2>1, <2>2, SavedTypes
    <2>4. hours' \in [Resource -> SUBSET Rules]
      BY <1>1, <2>1, <2>3 DEF InsertHours, TypeOK
    <2>5. req' \in [Api -> Requests]
      BY <1>1, FinishTypes DEF InsertHours
    <2>6. QED
      BY <1>0, <1>1, <2>2, <2>4, <2>5 DEF InsertHours, TypeOK
  <1>2. CASE CloseCheck(p)
    <2>1. req[p] \in [op: {"check", "insert"}, windows: SUBSET Window, rooms: SUBSET Court, reason: Reason]
      BY <1>2, RequestTypes DEF CloseCheck, At
    <2>2. Continue(p, "insert") => req' \in [Api -> Requests]
      BY <2>1 DEF Continue, TypeOK, Requests
    <2>3. req' \in [Api -> Requests]
      BY <1>2, <2>2, FinishTypes DEF CloseCheck
    <2>4. QED
      BY <1>0, <1>2, <2>3 DEF CloseCheck, TypeOK
  <1>3. CASE CloseInsert(p)
    <2>1. req[p] \in [op: {"check", "insert"}, windows: SUBSET Window, rooms: SUBSET Court, reason: Reason]
      BY <1>3, RequestTypes DEF CloseInsert, At
    <2>2. entered' \in Nat
      BY <1>3 DEF CloseInsert, TypeOK
    <2>3. closures' \subseteq Exceptions
      <3>1. Resolved(req[p].windows) \subseteq Window
        BY <2>1, ResolvedTypes
      <3>2. [id: {entered'}, room: req[p].rooms, window: Resolved(req[p].windows),
             reason: {req[p].reason}] \subseteq Exceptions
        BY <2>1, <2>2, <3>1 DEF Exceptions
      <3>3. QED
        BY <1>3, <3>2 DEF CloseInsert, TypeOK
    <2>4. req' \in [Api -> Requests]
      BY <1>3, FinishTypes DEF CloseInsert
    <2>5. QED
      BY <1>0, <1>3, <2>2, <2>3, <2>4 DEF CloseInsert, TypeOK
  <1>4. CASE WriteBooking(p)
    <2> DEFINE b == req[p].on
               row == IF At(p, "move") THEN [req[p].row EXCEPT !.status = booking[b].status]
                      ELSE req[p].row
    <2>1. b \in Booking /\ req[p].row \in Bookings
      BY <1>4, RequestTypes DEF WriteBooking
    <2>2. req' \in [Api -> Requests]
      BY <1>4, FinishTypes DEF WriteBooking
    <2>3. booking' \in {booking, [booking EXCEPT ![b] = row]}
      BY <1>4 DEF WriteBooking
    <2>4. CASE At(p, "move")
      <3>1. booking[b] \in Bookings
        BY <2>4 DEF MovesExist
      <3>2. [req[p].row EXCEPT !.status = booking[b].status] \in Bookings
        BY <2>1, <3>1 DEF Bookings
      <3>3. booking' \in [Booking -> Bookings \cup {NoBooking}]
        BY <2>1, <2>3, <2>4, <3>2 DEF TypeOK
      <3>4. QED
        BY <1>0, <1>4, <2>2, <3>3 DEF WriteBooking, TypeOK
    <2>5. CASE ~ At(p, "move")
      <3>1. booking' \in [Booking -> Bookings \cup {NoBooking}]
        BY <2>1, <2>3, <2>5 DEF TypeOK
      <3>2. QED
        BY <1>0, <1>4, <2>2, <3>1 DEF WriteBooking, TypeOK
    <2>6. QED
      BY <2>4, <2>5
  <1>5. QED
    BY <1>1, <1>2, <1>3, <1>4 DEF Proceed

-----------------------------------------------------------------------------
(***************************************************************************)
(* Who acts.                                                               *)
(***************************************************************************)

\* A handler leaves the requests of the others alone.
LEMMA OneActs ==
    ASSUME TypeOK, NEW p \in Api, Arrive(p) \/ Proceed(p)
    PROVE  \A q \in Api \ {p} : req'[q] = req[q]
  <1>1. CASE Arrive(p)
    BY <1>1 DEF Arrive, CreateCourt, SetCourtStatus, DeleteHours, CloseRead, DeleteClosure,
                ResolveNew, ResolveMove, CancelBooking, Begin, TypeOK
  <1>2. CASE Proceed(p)
    BY <1>2 DEF Proceed, InsertHours, CloseCheck, CloseInsert, WriteBooking, Finish, Continue, TypeOK
  <1>3. QED
    BY <1>1, <1>2

\* A booking is never lost.
LEMMA StaysBooked ==
    ASSUME TypeOK, MovesExist, NEW p \in Api, Arrive(p) \/ Proceed(p),
           NEW b \in Booking, booking[b] \in Bookings
    PROVE  booking'[b] \in Bookings
  <1>1. CASE UNCHANGED booking
    BY <1>1
  <1>2. CASE \E o \in Booking : CancelBooking(p, o)
    BY <1>2 DEF CancelBooking, TypeOK, Bookings
  <1>3. CASE WriteBooking(p)
    <2>1. req[p].on \in Booking /\ req[p].row \in Bookings
      BY <1>3, RequestTypes DEF WriteBooking
    <2>2. CASE At(p, "move")
      <3>1. [req[p].row EXCEPT !.status = booking[req[p].on].status] \in Bookings
        BY <2>1, <2>2 DEF MovesExist, Bookings
      <3>2. QED
        BY <1>3, <2>1, <2>2, <3>1 DEF WriteBooking, TypeOK
    <2>3. CASE ~ At(p, "move")
      BY <1>3, <2>1, <2>3 DEF WriteBooking, TypeOK
    <2>4. QED
      BY <2>2, <2>3
  <1>4. CASE Arrive(p) /\ ~ (\E o \in Booking : CancelBooking(p, o))
    <2>1. UNCHANGED booking
      BY <1>4 DEF Arrive, CreateCourt, SetCourtStatus, DeleteHours, CloseRead, DeleteClosure,
                  ResolveNew, ResolveMove
    <2>2. QED
      BY <2>1
  <1>5. CASE Proceed(p) /\ ~ WriteBooking(p)
    <2>1. UNCHANGED booking
      BY <1>5 DEF Proceed, InsertHours, CloseCheck, CloseInsert
    <2>2. QED
      BY <2>1
  <1>6. QED
    BY <1>2, <1>3, <1>4, <1>5

\* What a handler goes on to, when it goes on.
LEMMA GoesOn ==
    ASSUME TypeOK, NEW p \in Api, Arrive(p) \/ Proceed(p), req'[p] # req[p]
    PROVE  \/ req'[p] = Idle
           \/ UNCHANGED <<hours, closures, booking>> /\ req'[p].op = "check"
           \/ CloseCheck(p) /\ Swallowed(Resolved(req[p].windows)) = {} /\ Continue(p, "insert")
           \/ \E r \in Resource, W \in Hours : DeleteHours(p, r, W)
           \/ \E b \in Booking, R \in SUBSET Court, t \in Slot :
                 \/ \E k \in Kind, s \in {"PENDING_APPROVAL", "CONFIRMED"} :
                        ResolveNew(p, b, k, R, t, s)
                 \/ ResolveMove(p, b, R, t)
  <1>1. CASE Proceed(p)
    BY <1>1 DEF Proceed, InsertHours, CloseCheck, CloseInsert, WriteBooking, Finish, TypeOK
  <1>2. CASE Arrive(p)
    <2>1. ASSUME NEW windows, NEW reason, CloseRead(p, windows, reason)
          PROVE  UNCHANGED <<hours, closures, booking>> /\ req'[p].op = "check"
      BY <2>1 DEF CloseRead, Begin, TypeOK
    <2>2. CASE \/ \E c \in Court : CreateCourt(p, c)
               \/ \E c \in Court, s \in {"ACTIVE", "INACTIVE"} : SetCourtStatus(p, c, s)
               \/ \E from \in {e.window.from : e \in closures}, to \in {e.window.to : e \in closures},
                     reasons \in {{r} : r \in Reason} \cup {Reason} :
                     DeleteClosure(p, [from |-> from, to |-> to], reasons)
               \/ \E b \in Booking : CancelBooking(p, b)
      BY <2>2 DEF CreateCourt, SetCourtStatus, DeleteClosure, CancelBooking
    <2>3. QED
      BY <1>2, <2>1, <2>2 DEF Arrive
  <1>3. QED
    BY <1>1, <1>2

-----------------------------------------------------------------------------
(***************************************************************************)
(* Fresh answers.                                                          *)
(***************************************************************************)

\* An answer that nobody has overtaken is still right.
LEMMA StillFresh ==
    ASSUME FreshAnswers, Notice, NEW q \in Api, q \notin stale', req'[q] = req[q]
    PROVE  ClearToClose(q)' /\ ClearToBook(q)' /\ ClearToReplace(q)'
  <1>1. CASE req[q] = Idle
    BY <1>1 DEF Idle, ClearToClose, ClearToBook, ClearToReplace, At
  <1>2. CASE req[q] # Idle
    <2>1. q \notin stale /\ ~ Changed(q)
      BY <1>2 DEF Notice
    <2>2. ClearToClose(q)'
      BY <2>1 DEF FreshAnswers, ClearToClose, Changed, At, Swallowed
    <2>3. ClearToBook(q)'
      BY <2>1 DEF FreshAnswers, ClearToBook, Changed, At, ClosedAt
    <2>4. ClearToReplace(q)'
      BY <2>1 DEF FreshAnswers, ClearToReplace, Changed, At
    <2>5. QED
      BY <2>2, <2>3, <2>4
  <1>3. QED
    BY <1>1, <1>2

\* A handler that has just asked knows what is the case.
LEMMA NewlyFresh ==
    ASSUME TypeOK, NEW p \in Api, Arrive(p) \/ Proceed(p), req'[p] # req[p]
    PROVE  ClearToClose(p)' /\ ClearToBook(p)' /\ ClearToReplace(p)'
  <1>1. CASE req'[p] = Idle
    BY <1>1 DEF Idle, ClearToClose, ClearToBook, ClearToReplace, At
  <1>2. CASE req'[p].op = "check"
    BY <1>2 DEF ClearToClose, ClearToBook, ClearToReplace, At
  <1>3. CASE CloseCheck(p) /\ Swallowed(Resolved(req[p].windows)) = {} /\ Continue(p, "insert")
    <2>1. req'[p].op = "insert" /\ req'[p].windows = req[p].windows
      <3>1. req[p] \in [op: {"check", "insert"}, windows: SUBSET Window, rooms: SUBSET Court, reason: Reason]
        BY <1>3, RequestTypes DEF CloseCheck, At
      <3>2. QED
        BY <1>3, <3>1 DEF Continue, TypeOK
    <2>2. UNCHANGED booking
      BY <1>3 DEF CloseCheck
    <2>3. Swallowed(Resolved(req[p].windows))' = {}
      BY <1>3, <2>1, <2>2 DEF Swallowed
    <2>4. QED
      BY <2>1, <2>3 DEF ClearToClose, ClearToBook, ClearToReplace, At, Swallowed
  <1>4. CASE \E r \in Resource, W \in Hours : DeleteHours(p, r, W)
    <2>1. PICK r \in Resource, W \in Hours : DeleteHours(p, r, W)
      BY <1>4
    <2>2. req'[p] = [op |-> "hours", on |-> r, old |-> hours[r], new |-> W] /\ UNCHANGED hours
      BY <2>1 DEF DeleteHours, Doomed, Begin, TypeOK
    <2>3. QED
      BY <2>2 DEF ClearToClose, ClearToBook, ClearToReplace, At
  <1>5. ASSUME NEW R \in SUBSET Court, NEW t \in Slot, NEW b, NEW row, NEW enforce,
               Resolves(R, t, enforce), UNCHANGED closures, req'[p].op \in {"book", "move"},
               req'[p].row = row, row.rooms = R, row.at = t
        PROVE  ClearToClose(p)' /\ ClearToBook(p)' /\ ClearToReplace(p)'
    <2>1. \A c \in R : ~ ClosedAt(c, t)
      BY <1>5 DEF Resolves
    <2>2. ClearToBook(p)'
      BY <1>5, <2>1 DEF ClearToBook, ClosedAt
    <2>3. QED
      BY <1>5, <2>2 DEF ClearToClose, ClearToReplace, At
  <1>6. CASE \E b \in Booking, R \in SUBSET Court, t \in Slot :
                 \/ \E k \in Kind, s \in {"PENDING_APPROVAL", "CONFIRMED"} :
                        ResolveNew(p, b, k, R, t, s)
                 \/ ResolveMove(p, b, R, t)
    <2>1. PICK b \in Booking, R \in SUBSET Court, t \in Slot :
                 \/ \E k \in Kind, s \in {"PENDING_APPROVAL", "CONFIRMED"} :
                        ResolveNew(p, b, k, R, t, s)
                 \/ ResolveMove(p, b, R, t)
      BY <1>6
    <2>2. CASE \E k \in Kind, s \in {"PENDING_APPROVAL", "CONFIRMED"} : ResolveNew(p, b, k, R, t, s)
      <3>1. PICK k \in Kind, s \in {"PENDING_APPROVAL", "CONFIRMED"} : ResolveNew(p, b, k, R, t, s)
        BY <2>2
      <3>2. req'[p] = [op |-> "book", on |-> b,
                       row |-> [status |-> s, kind |-> k, rooms |-> R, at |-> t]]
        BY <3>1 DEF ResolveNew, Begin, TypeOK
      <3>3. Resolves(R, t, k # "BLOCK") /\ UNCHANGED closures
        BY <3>1 DEF ResolveNew
      <3>4. QED
        BY <1>5, <3>2, <3>3
    <2>3. CASE ResolveMove(p, b, R, t)
      <3>1. req'[p] = [op |-> "move", on |-> b,
                       row |-> [status |-> booking[b].status, kind |-> booking[b].kind,
                                rooms |-> R, at |-> t]]
        BY <2>3 DEF ResolveMove, Begin, TypeOK
      <3>2. Resolves(R, t, booking[b].kind = "COURT") /\ UNCHANGED closures
        BY <2>3 DEF ResolveMove
      <3>3. QED
        BY <1>5, <3>1, <3>2
    <2>4. QED
      BY <2>1, <2>2, <2>3
  <1>7. QED
    BY <1>1, <1>2, <1>3, <1>4, <1>6, GoesOn

LEMMA MovesInv ==
    ASSUME TypeOK, MovesExist, NEW p \in Api, Arrive(p) \/ Proceed(p)
    PROVE  MovesExist'
  <1> SUFFICES ASSUME NEW q \in Api, At(q, "move")'
               PROVE  booking'[req'[q].on] \in Bookings
    BY DEF MovesExist
  <1>1. CASE req'[q] = req[q]
    <2>1. req[q].on \in Booking /\ booking[req[q].on] \in Bookings
      BY <1>1, RequestTypes DEF MovesExist, At
    <2>2. QED
      BY <1>1, <2>1, StaysBooked
  <1>2. CASE req'[q] # req[q]
    <2>1. q = p
      BY <1>2, OneActs
    <2>2. \E b \in Booking, R \in SUBSET Court, t \in Slot : ResolveMove(p, b, R, t)
      <3>1. req'[p] # Idle /\ req'[p].op \notin {"check", "insert", "hours", "book"}
        BY <2>1 DEF At, Idle
      <3>2. ~ Continue(p, "insert") \/ ~ CloseCheck(p)
        <4>1. CloseCheck(p) => req[p] \in [op: {"check", "insert"}, windows: SUBSET Window,
                                           rooms: SUBSET Court, reason: Reason]
          BY RequestTypes DEF CloseCheck, At
        <4>2. QED
          BY <3>1, <4>1 DEF Continue, TypeOK
      <3>3. \A r \in Resource, W \in Hours : ~ DeleteHours(p, r, W)
        BY <3>1 DEF DeleteHours, Begin, TypeOK
      <3>4. \A b \in Booking, k \in Kind, R \in SUBSET Court, t \in Slot,
               s \in {"PENDING_APPROVAL", "CONFIRMED"} : ~ ResolveNew(p, b, k, R, t, s)
        BY <3>1 DEF ResolveNew, Begin, TypeOK
      <3>5. QED
        BY <1>2, <2>1, <3>1, <3>2, <3>3, <3>4, GoesOn
    <2>3. PICK b \in Booking, R \in SUBSET Court, t \in Slot : ResolveMove(p, b, R, t)
      BY <2>2
    <2>4. booking[b] \in Bookings /\ UNCHANGED booking
      BY <2>3, LiveTypes DEF ResolveMove
    <2>5. req'[p].on = b
      BY <2>3 DEF ResolveMove, Begin, TypeOK
    <2>6. QED
      BY <2>1, <2>4, <2>5
  <1>3. QED
    BY <1>1, <1>2

-----------------------------------------------------------------------------

LEMMA InitInv == Init => IInv
  <1> SUFFICES ASSUME Init PROVE IInv
    OBVIOUS
  <1>1. Saved(0, DefaultHours) \subseteq Rules
    BY SavedTypes, ConstantsAssumption
  <1>2. TypeOK
    BY <1>1 DEF Init, TypeOK, Requests, Exceptions
  <1>3. MovesExist /\ FreshAnswers
    BY DEF Init, MovesExist, FreshAnswers, ClearToClose, ClearToBook, ClearToReplace, At, Idle
  <1>4. QED
    BY <1>2, <1>3 DEF IInv

LEMMA NextInv == IInv /\ [Next]_vars => IInv'
  <1> SUFFICES ASSUME IInv, [Next]_vars PROVE IInv'
    OBVIOUS
  <1>1. CASE UNCHANGED vars
    BY <1>1 DEF vars, IInv, TypeOK, MovesExist, FreshAnswers, ClearToClose, ClearToBook,
                ClearToReplace, At, Swallowed, ClosedAt
  <1>2. CASE Tick
    <2>1. now' \in Nat
      BY <1>2, TheGap DEF Tick, IInv, TypeOK
    <2>2. QED
      BY <1>2, <2>1 DEF Tick, IInv, TypeOK, MovesExist, FreshAnswers, ClearToClose, ClearToBook,
                        ClearToReplace, At, Swallowed, ClosedAt
  <1>3. CASE (\E p \in Api : Arrive(p) \/ Proceed(p)) /\ Notice /\ UNCHANGED now
    <2>1. PICK p \in Api : Arrive(p) \/ Proceed(p)
      BY <1>3
    <2>2. Notice /\ UNCHANGED now
      BY <1>3
    <2>3. TypeOK'
      BY <2>1, <2>2, ArriveTypes, ProceedTypes DEF IInv
    <2>4. MovesExist'
      BY <2>1, MovesInv DEF IInv
    <2>5. FreshAnswers'
      <3> SUFFICES ASSUME NEW q \in Api, q \notin stale'
                   PROVE  ClearToClose(q)' /\ ClearToBook(q)' /\ ClearToReplace(q)'
        BY DEF FreshAnswers
      <3>1. CASE req'[q] = req[q]
        BY <2>2, <3>1, StillFresh DEF IInv
      <3>2. CASE req'[q] # req[q]
        <4>1. q = p
          BY <2>1, <3>2, OneActs DEF IInv
        <4>2. QED
          BY <2>1, <3>2, <4>1, NewlyFresh DEF IInv
      <3>3. QED
        BY <3>1, <3>2
    <2>6. QED
      BY <2>3, <2>4, <2>5 DEF IInv
  <1>4. QED
    BY <1>1, <1>2, <1>3 DEF Next

LEMMA Invariance == Spec => []IInv
  BY InitInv, NextInv, PTL DEF Spec

-----------------------------------------------------------------------------
(***************************************************************************)
(* What a write does on the strength of a right answer.                    *)
(***************************************************************************)

\* A closure is inserted where nothing stands in its way.
LEMMA ClosureBuriesNobody ==
    ASSUME TypeOK, NEW p \in Api, CloseInsert(p), Swallowed(Resolved(req[p].windows)) = {}
    PROVE  Buried' \subseteq Buried
  <1>1. UNCHANGED booking
    BY DEF CloseInsert
  <1>2. closures' = closures \cup [id: {entered'}, room: req[p].rooms,
                                   window: Resolved(req[p].windows), reason: {req[p].reason}]
    BY DEF CloseInsert
  <1>3. SUFFICES ASSUME NEW b \in Booking, b \in Buried'
                 PROVE  b \in Buried
    BY DEF Buried
  <1>4. booking[b].status \in {"PENDING_APPROVAL", "CONFIRMED"} /\ booking[b].kind # "BLOCK"
    BY <1>1, <1>3 DEF Buried
  <1>5. booking[b].kind \in Customers /\ booking[b].status \in LiveStatuses
    <2>1. booking[b] \in Bookings
      BY <1>4, LiveTypes DEF LiveStatuses
    <2>2. QED
      BY <1>4, <2>1 DEF Bookings, BookingKinds, Customers, LiveStatuses
  <1>6. PICK c \in booking[b].rooms, e \in closures' : e.room = c /\ Overlap(e.window, booking[b].at)
    BY <1>1, <1>3 DEF Buried, ClosedAt
  <1>7. e.window \notin Resolved(req[p].windows)
    <2>1. Overlap(booking[b].at, e.window)
      BY <1>6 DEF Overlap
    <2>2. QED
      BY <1>5, <2>1 DEF Swallowed
  <1>8. e \in closures
    BY <1>2, <1>6, <1>7
  <1>9. QED
    BY <1>4, <1>6, <1>8 DEF Buried, ClosedAt

\* A booking is written where no court of it is closed.
LEMMA BookingNotBuried ==
    ASSUME TypeOK, NEW p \in Api, WriteBooking(p),
           \A c \in req[p].row.rooms : ~ ClosedAt(c, req[p].row.at)
    PROVE  Buried' \subseteq Buried
  <1> DEFINE b == req[p].on
             row == IF At(p, "move") THEN [req[p].row EXCEPT !.status = booking[b].status]
                    ELSE req[p].row
  <1>1. b \in Booking /\ req[p].row \in Bookings /\ UNCHANGED closures
    BY RequestTypes DEF WriteBooking
  <1>2. row.rooms = req[p].row.rooms /\ row.at = req[p].row.at
    BY <1>1 DEF Bookings
  <1>3. booking' \in {booking, [booking EXCEPT ![b] = row]}
    BY DEF WriteBooking
  <1>4. SUFFICES ASSUME NEW o \in Booking, o \in Buried'
                 PROVE  o \in Buried
    BY DEF Buried
  <1>5. CASE booking'[o] = booking[o]
    BY <1>1, <1>4, <1>5 DEF Buried, ClosedAt
  <1>6. CASE booking'[o] # booking[o]
    <2>1. booking'[o] = row
      BY <1>1, <1>3, <1>6 DEF TypeOK
    <2>2. \E c \in row.rooms : ClosedAt(c, row.at)
      BY <1>1, <1>4, <2>1 DEF Buried, ClosedAt
    <2>3. QED
      BY <1>2, <2>2
  <1>7. QED
    BY <1>5, <1>6

\* A handler that asks, or gives up, buries nobody.
LEMMA AskingBuriesNobody ==
    ASSUME UNCHANGED <<closures, booking>>
    PROVE  Buried' = Buried
  BY DEF Buried, ClosedAt

LEMMA StepBuries ==
    ASSUME IInv, NEW p \in Api, p \notin stale, Arrive(p) \/ Proceed(p), req'[p] # req[p]
    PROVE  Buried' \subseteq Buried
  <1>1. CASE CloseInsert(p)
    <2>1. Swallowed(Resolved(req[p].windows)) = {}
      BY <1>1 DEF IInv, FreshAnswers, ClearToClose, CloseInsert
    <2>2. QED
      BY <1>1, <2>1, ClosureBuriesNobody DEF IInv
  <1>2. CASE WriteBooking(p)
    <2>1. \A c \in req[p].row.rooms : ~ ClosedAt(c, req[p].row.at)
      BY <1>2 DEF IInv, FreshAnswers, ClearToBook, WriteBooking
    <2>2. QED
      BY <1>2, <2>1, BookingNotBuried DEF IInv
  <1>3. CASE Arrive(p)
    <2>1. UNCHANGED <<closures, booking>>
      BY <1>3 DEF Arrive, CreateCourt, SetCourtStatus, DeleteHours, CloseRead, DeleteClosure,
                  ResolveNew, ResolveMove, CancelBooking
    <2>2. QED
      BY <2>1, AskingBuriesNobody
  <1>4. CASE InsertHours(p) \/ CloseCheck(p)
    <2>1. UNCHANGED <<closures, booking>>
      BY <1>4 DEF InsertHours, CloseCheck
    <2>2. QED
      BY <2>1, AskingBuriesNobody
  <1>5. QED
    BY <1>1, <1>2, <1>3, <1>4 DEF Proceed

LEMMA StepReplaces ==
    ASSUME IInv, NEW p \in Api, p \notin stale, Arrive(p) \/ Proceed(p), req'[p] # req[p],
           NEW r \in Resource, hours'[r] # hours[r]
    PROVE  \A g, h \in hours'[r] : g.save = h.save
  <1>1. InsertHours(p)
    <2>1. CASE Arrive(p)
      BY <2>1 DEF Arrive, CreateCourt, SetCourtStatus, DeleteHours, CloseRead, DeleteClosure,
                  ResolveNew, ResolveMove, CancelBooking
    <2>2. CASE CloseCheck(p) \/ CloseInsert(p) \/ WriteBooking(p)
      BY <2>2 DEF CloseCheck, CloseInsert, WriteBooking
    <2>3. QED
      BY <2>1, <2>2 DEF Proceed
  <1>2. req[p].on \in Resource
    BY <1>1, RequestTypes DEF InsertHours, At, IInv
  <1>3. hours' = [hours EXCEPT ![req[p].on] =
                     (hours[req[p].on] \ req[p].old) \cup Saved(saves'[req[p].on], req[p].new)]
    BY <1>1 DEF InsertHours
  <1>4. req[p].old = hours[req[p].on]
    BY <1>1 DEF IInv, FreshAnswers, ClearToReplace, InsertHours
  <1>5. hours'[r] = Saved(saves'[req[p].on], req[p].new)
    BY <1>2, <1>3, <1>4 DEF IInv, TypeOK
  <1>6. QED
    BY <1>5 DEF Saved

-----------------------------------------------------------------------------

\* Every reachable state of the calendar is well typed.
THEOREM TypeCorrect == Spec => []TypeOK
  <1>1. IInv => TypeOK
    BY DEF IInv
  <1>2. QED
    BY Invariance, <1>1, PTL

\* No closure swallows a live booking of a customer, and no booking is made or
\* moved into a closed window, but by a handler whose answer was overtaken.
THEOREM NothingBuried == Spec => NothingBuriedUnlessRaced
  <1>1. IInv /\ [Next]_vars =>
          [\A p \in Api \ stale : req'[p] # req[p] => Buried' \subseteq Buried]_vars
    <2> SUFFICES ASSUME IInv, Next, NEW p \in Api \ stale, req'[p] # req[p]
                 PROVE  Buried' \subseteq Buried
      OBVIOUS
    <2>1. PICK q \in Api : Arrive(q) \/ Proceed(q)
      BY DEF Next, Tick
    <2>2. p = q
      BY <2>1, OneActs DEF IInv
    <2>3. QED
      BY <2>1, <2>2, StepBuries
  <1>2. QED
    BY Invariance, <1>1, PTL DEF Spec, NothingBuriedUnlessRaced

\* The hours of a court or a coach are those of one save, but after saves that
\* met between deleting and inserting.
THEOREM HoursReplaced == Spec => HoursReplacedUnlessRaced
  <1>1. IInv /\ [Next]_vars =>
          [\A p \in Api \ stale, r \in Resource :
              req'[p] # req[p] /\ hours'[r] # hours[r]
                => \A g, h \in hours'[r] : g.save = h.save]_vars
    <2> SUFFICES ASSUME IInv, Next, NEW p \in Api \ stale, NEW r \in Resource,
                        req'[p] # req[p], hours'[r] # hours[r]
                 PROVE  \A g, h \in hours'[r] : g.save = h.save
      OBVIOUS
    <2>1. PICK q \in Api : Arrive(q) \/ Proceed(q)
      BY DEF Next, Tick
    <2>2. p = q
      BY <2>1, OneActs DEF IInv
    <2>3. QED
      BY <2>1, <2>2, StepReplaces
  <1>2. QED
    BY Invariance, <1>1, PTL DEF Spec, HoursReplacedUnlessRaced

-----------------------------------------------------------------------------
(***************************************************************************)
(* Counting, and the list as it grows.                                     *)
(***************************************************************************)

\* Induction up to a number, over a set instead of a formula.
LEMMA Least ==
    ASSUME NEW T \in SUBSET Nat, T # {}
    PROVE  \E m \in T : \A n \in T : m <= n
  <1> DEFINE R == OpToRel(<, Nat)
  <1>1. \A x, y \in Nat : x < y => <<x, y>> \in R
    BY DEF OpToRel
  <1>2. IsWellFoundedOn(R, Nat)
    BY NatLessThanWellFounded
  <1> HIDE DEF R
  <1>3. PICK m \in T : \A n \in T : ~ (<<n, m>> \in R)
    BY <1>2, WFMin, Zenon
  <1>4. \A n \in T : ~ (n < m)
    BY <1>1, <1>3
  <1>5. QED
    BY <1>4

LEMMA Counting ==
    ASSUME NEW N \in Nat, NEW S, 0 \in S,
           \A n \in 0 .. N : n < N /\ n \in S => n + 1 \in S
    PROVE  0 .. N \subseteq S
  <1> DEFINE T == {n \in 0 .. N : n \notin S}
  <1>1. SUFFICES ASSUME T # {} PROVE FALSE
    OBVIOUS
  <1>2. T \in SUBSET Nat
    OBVIOUS
  <1>3. PICK m \in T : \A n \in T : m <= n
    BY <1>1, <1>2, Least
  <1>4. m \in Nat /\ m # 0 /\ m <= N /\ m \notin S
    BY <1>3
  <1>5. m - 1 \in 0 .. N /\ m - 1 < N /\ m - 1 < m
    BY <1>4
  <1>6. m - 1 \in S
    BY <1>3, <1>5
  <1>7. (m - 1) + 1 \in S
    BY <1>5, <1>6
  <1>8. QED
    BY <1>4, <1>7

\* The list after each of the first N windows.
Grown(f, order, N) ==
    f = [n \in 0 .. N |-> IF n = 0 THEN <<>> ELSE Collapse(f[n - 1], order[n])]

LEMMA Growth ==
    ASSUME NEW order, NEW N \in Nat
    PROVE  \E f : Grown(f, order, N)
  <1> DEFINE S == {n \in 0 .. N : \E f : Grown(f, order, n)}
  <1>1. 0 \in S
    <2> DEFINE g == [n \in 0 .. 0 |-> <<>>]
    <2>1. Grown(g, order, 0)
      BY DEF Grown
    <2>2. QED
      BY <2>1
  <1>2. ASSUME NEW m \in 0 .. N, m < N, m \in S
        PROVE  m + 1 \in S
    <2>1. PICK f : Grown(f, order, m)
      BY <1>2
    <2> DEFINE h == [n \in 0 .. m + 1 |-> IF n <= m THEN f[n] ELSE Collapse(f[m], order[n])]
    <2>2. ASSUME NEW n \in 0 .. m + 1
          PROVE  h[n] = IF n = 0 THEN <<>> ELSE Collapse(h[n - 1], order[n])
      <3>1. CASE n = 0
        <4>1. h[n] = f[0]
          BY <3>1
        <4>2. 0 \in 0 .. m
          OBVIOUS
        <4>3. f[0] = <<>>
          BY <2>1, <4>2, Zenon DEF Grown
        <4>4. QED
          BY <3>1, <4>1, <4>3
      <3>2. CASE n # 0 /\ n <= m
        <4>1. h[n] = f[n] /\ h[n - 1] = f[n - 1] /\ n \in 0 .. m
          BY <3>2
        <4>2. f[n] = IF n = 0 THEN <<>> ELSE Collapse(f[n - 1], order[n])
          BY <2>1, <4>1, Zenon DEF Grown
        <4>3. QED
          BY <3>2, <4>1, <4>2
      <3>3. CASE n = m + 1
        <4>1. h[n] = Collapse(f[m], order[n]) /\ h[n - 1] = f[m] /\ n # 0
          BY <3>3
        <4>2. QED
          BY <4>1
      <3>4. QED
        BY <3>1, <3>2, <3>3
    <2>3. Grown(h, order, m + 1)
      <3> DEFINE k == [n \in 0 .. m + 1 |-> IF n = 0 THEN <<>> ELSE Collapse(h[n - 1], order[n])]
      <3>1. h = k
        <4>1. \A n \in 0 .. m + 1 : h[n] = k[n]
          BY <2>2
        <4>2. DOMAIN h = 0 .. m + 1 /\ DOMAIN k = 0 .. m + 1
          OBVIOUS
        <4>3. h = [n \in DOMAIN h |-> h[n]] /\ k = [n \in DOMAIN k |-> k[n]]
          OBVIOUS
        <4> HIDE DEF h, k
        <4>4. QED
          BY <4>1, <4>2, <4>3
      <3> HIDE DEF h
      <3>2. QED
        BY <3>1 DEF Grown
    <2>4. QED
      BY <2>3, <1>2
  <1>3. 0 .. N \subseteq S
    <2> HIDE DEF S
    <2>1. QED
      BY <1>1, <1>2, Counting
  <1>4. QED
    BY <1>3

LEMMA ListGrows ==
    ASSUME NEW order, Cardinality(Windows) \in Nat
    PROVE  \E f : /\ Listed(order) = f[Cardinality(Windows)]
                  /\ f[0] = <<>>
                  /\ \A n \in 1 .. Cardinality(Windows) : f[n] = Collapse(f[n - 1], order[n])
  <1> DEFINE N == Cardinality(Windows)
             f == CHOOSE f : Grown(f, order, N)
  <1>1. Grown(f, order, N)
    BY Growth
  <1>2. Listed(order) = f[N]
    BY DEF Listed, Grown
  <1> HIDE DEF f
  <1>3. f = [n \in 0 .. N |-> IF n = 0 THEN <<>> ELSE Collapse(f[n - 1], order[n])]
    BY <1>1 DEF Grown
  <1>4. \A n \in 0 .. N : f[n] = IF n = 0 THEN <<>> ELSE Collapse(f[n - 1], order[n])
    BY <1>3, Zenon
  <1> HIDE DEF N
  <1>5. N \in Nat
    BY DEF N
  <1>6. f[0] = <<>>
    BY <1>4, <1>5
  <1>7. \A n \in 1 .. N : f[n] = Collapse(f[n - 1], order[n])
    BY <1>4, <1>5
  <1>8. QED
    BY <1>2, <1>6, <1>7 DEF N

-----------------------------------------------------------------------------
(***************************************************************************)
(* Days.                                                                   *)
(***************************************************************************)

LEMMA Times ==
    ASSUME NEW a \in Int, NEW b \in Int, a <= b
    PROVE  a * DayLength <= b * DayLength /\ a * DayLength \in Int /\ b * DayLength \in Int
  BY ConstantsAssumption

\* The day and the time of day of a moment.
LEMMA Moment ==
    ASSUME NEW d \in Nat, NEW a \in 0 .. DayLength - 1
    PROVE  /\ (d * DayLength + a) \div DayLength = d
           /\ (d * DayLength + a) % DayLength = a
  <1> DEFINE x == d * DayLength + a
             q == x \div DayLength
             r == x % DayLength
  <1>1. DayLength \in Nat /\ DayLength > 0 /\ a \in Int /\ a >= 0 /\ a < DayLength
    BY ConstantsAssumption
  <1>2. x \in Nat
    BY <1>1
  <1>3. x = DayLength * q + r /\ q \in Int /\ r \in Int /\ r >= 0 /\ r < DayLength
    <2> HIDE DEF x
    <2>1. QED
      BY <1>1, <1>2
  <1>4. d * DayLength + a = q * DayLength + r
    <2> HIDE DEF q, r
    <2>1. QED
      BY <1>1, <1>3
  <1> HIDE DEF q, r
  <1>5. ASSUME q < d PROVE FALSE
    <2>1. (q + 1) * DayLength <= d * DayLength
      BY <1>3, <1>5, Times
    <2>2. (q + 1) * DayLength = q * DayLength + DayLength
      BY <1>1, <1>3
    <2> DEFINE u == q * DayLength
               v == d * DayLength
    <2>3. u \in Int /\ v \in Int
      BY <1>1, <1>3
    <2> HIDE DEF u, v
    <2>4. u + DayLength <= v /\ v + a = u + r
      BY <1>4, <2>1, <2>2 DEF u, v
    <2>5. QED
      BY <1>1, <1>3, <2>3, <2>4
  <1>6. ASSUME d < q PROVE FALSE
    <2>1. (d + 1) * DayLength <= q * DayLength
      BY <1>3, <1>6, Times
    <2>2. (d + 1) * DayLength = d * DayLength + DayLength
      BY <1>1
    <2> DEFINE u == q * DayLength
               v == d * DayLength
    <2>3. u \in Int /\ v \in Int
      BY <1>1, <1>3
    <2> HIDE DEF u, v
    <2>4. v + DayLength <= u /\ v + a = u + r
      BY <1>4, <2>1, <2>2 DEF u, v
    <2>5. QED
      BY <1>1, <1>3, <2>3, <2>4
  <1>7. q = d
    <2>1. q \in Int /\ d \in Int
      BY <1>3
    <2>2. ~ (q < d) /\ ~ (d < q)
      BY <1>5, <1>6
    <2> HIDE DEF x
    <2>3. QED
      BY <2>1, <2>2
  <1>8. r = a
    <2> DEFINE v == d * DayLength
    <2>1. v \in Int
      BY <1>1
    <2>2. v + a = v + r
      BY <1>4, <1>7
    <2> HIDE DEF v
    <2>3. QED
      BY <1>1, <1>3, <2>1, <2>2
  <1>9. QED
    BY <1>7, <1>8 DEF q, r

LEMMA DivGrows ==
    ASSUME NEW x \in Int, NEW y \in Int, x \div DayLength < y \div DayLength
    PROVE  x < y
  <1> DEFINE q == x \div DayLength
             r == y \div DayLength
  <1>1. DayLength \in Nat /\ DayLength > 0
    BY ConstantsAssumption
  <1>2. q \in Int /\ r \in Int /\ q + 1 <= r
    BY <1>1
  <1>3. x < DayLength * q + DayLength /\ DayLength * r <= y
    BY <1>1
  <1> HIDE DEF q, r
  <1>4. (q + 1) * DayLength <= r * DayLength
    BY <1>2, Times
  <1>5. (q + 1) * DayLength = DayLength * q + DayLength /\ r * DayLength = DayLength * r
    BY <1>1, <1>2
  <1> DEFINE u == DayLength * q
             v == DayLength * r
  <1>6. u \in Int /\ v \in Int
    BY <1>1, <1>2
  <1>7. x < u + DayLength /\ v <= y /\ u + DayLength <= v
    BY <1>3, <1>4, <1>5
  <1> HIDE DEF u, v
  <1>8. QED
    BY <1>1, <1>6, <1>7

-----------------------------------------------------------------------------
(***************************************************************************)
(* Windows of the calendar.                                                *)
(***************************************************************************)

\* Hours of one day.
DayHours == {w \in Window : w.from < w.to /\ w.to <= DayLength}

\* What is in the database: whole days, or hours of a day.
CalendarWindow(w) ==
    \/ \E from, to \in Nat : from <= to /\ w = [from |-> from * DayLength, to |-> (to + 1) * DayLength]
    \/ \E d \in Nat, t \in DayHours : w = OnDay(d, t)

\* The hours of its day.
TimeOf(w) == [from |-> w.from - FirstDay(w) * DayLength, to |-> w.to - FirstDay(w) * DayLength]

\* Hours are of one day, and a timed window is its day and its hours.
LEMMA HoursOfADay ==
    ASSUME NEW d \in Nat, NEW t \in DayHours
    PROVE  LET w == OnDay(d, t)
           IN  /\ w \in Window /\ w.from < w.to
               /\ FirstDay(w) = d /\ LastDay(w) = d
               /\ TimeOf(w) = t
               /\ OfDay(w) = <<t.from, IF t.to = DayLength THEN 0 ELSE t.to>>
  <1> DEFINE w == OnDay(d, t)
             v == d * DayLength
  <1>1. t \in Window /\ t.from \in Nat /\ t.to \in Nat /\ t.from < t.to /\ t.to <= DayLength
    BY DEF DayHours, Window
  <1>2. DayLength \in Nat /\ v \in Nat
    BY ConstantsAssumption
  <1>3. w.from = v + t.from /\ w.to = v + t.to
    BY DEF OnDay
  <1>4. FirstDay(w) = d /\ w.from % DayLength = t.from
    <2>1. t.from \in 0 .. DayLength - 1
      BY <1>1, <1>2
    <2>2. QED
      BY <1>3, <2>1, Moment DEF FirstDay
  <1>5. LastDay(w) = d
    <2>1. t.to - 1 \in 0 .. DayLength - 1
      BY <1>1, <1>2
    <2>2. (v + t.to) - 1 = v + (t.to - 1)
      <3> HIDE DEF v
      <3>1. QED
        BY <1>1, <1>2
    <2>3. QED
      BY <1>3, <2>1, <2>2, Moment DEF LastDay
  <1>6. w.to % DayLength = IF t.to = DayLength THEN 0 ELSE t.to
    <2>1. CASE t.to = DayLength
      <3>1. v + t.to = (d + 1) * DayLength + 0
        BY <2>1, <1>2
      <3>2. 0 \in 0 .. DayLength - 1 /\ d + 1 \in Nat
        BY ConstantsAssumption
      <3>3. ((d + 1) * DayLength + 0) % DayLength = 0
        BY <3>2, Moment
      <3>4. QED
        BY <1>3, <2>1, <3>1, <3>3
    <2>2. CASE t.to # DayLength
      <3>1. t.to \in 0 .. DayLength - 1
        BY <1>1, <1>2, <2>2
      <3>2. QED
        BY <1>3, <2>2, <3>1, Moment
    <2>3. QED
      BY <2>1, <2>2
  <1>7. w \in Window /\ w.from < w.to
    <2> HIDE DEF v
    <2>1. w = [from |-> v + t.from, to |-> v + t.to]
      BY DEF OnDay, v
    <2>2. QED
      BY <1>1, <1>2, <2>1 DEF Window
  <1>8. TimeOf(w) = t
    <2>1. TimeOf(w) = [from |-> (v + t.from) - v, to |-> (v + t.to) - v]
      BY <1>3, <1>4 DEF TimeOf
    <2> HIDE DEF v
    <2>2. (v + t.from) - v = t.from /\ (v + t.to) - v = t.to
      BY <1>1, <1>2
    <2>3. t = [from |-> t.from, to |-> t.to]
      BY <1>1 DEF Window
    <2>4. QED
      BY <2>1, <2>2, <2>3
  <1>9. QED
    BY <1>4, <1>5, <1>6, <1>7, <1>8 DEF OfDay

\* Whole days are all-day.
LEMMA WholeDays ==
    ASSUME NEW from \in Nat, NEW to \in Nat, from <= to
    PROVE  LET w == [from |-> from * DayLength, to |-> (to + 1) * DayLength]
           IN  w \in Window /\ w.from < w.to /\ IsAllDay(w) /\ FirstDay(w) = from /\ LastDay(w) = to
  <1> DEFINE w == [from |-> from * DayLength, to |-> (to + 1) * DayLength]
  <1>1. DayLength \in Nat /\ DayLength > 0 /\ to + 1 \in Nat
    BY ConstantsAssumption
  <1>2. w.from = from * DayLength + 0 /\ w.to = (to + 1) * DayLength + 0
    BY <1>1
  <1>3. 0 \in 0 .. DayLength - 1 /\ DayLength - 1 \in 0 .. DayLength - 1
    BY <1>1
  <1>4. w.to - 1 = to * DayLength + (DayLength - 1)
    BY <1>1
  <1>5. w.from % DayLength = 0 /\ w.to % DayLength = 0 /\ FirstDay(w) = from
    BY <1>1, <1>2, <1>3, Moment DEF FirstDay
  <1>6. LastDay(w) = to
    BY <1>3, <1>4, Moment DEF LastDay
  <1>7. w \in Window /\ w.from < w.to
    <2>1. from * DayLength <= to * DayLength /\ from * DayLength \in Nat
      BY <1>1, Times
    <2>2. (to + 1) * DayLength = to * DayLength + DayLength
      BY <1>1
    <2> DEFINE a == from * DayLength
               b == to * DayLength
    <2>3. a \in Nat /\ b \in Nat /\ a <= b
      BY <1>1, <2>1
    <2>4. w = [from |-> a, to |-> b + DayLength]
      BY <2>2
    <2> HIDE DEF a, b, w
    <2>5. QED
      BY <1>1, <2>3, <2>4 DEF Window
  <1>8. QED
    BY <1>5, <1>6, <1>7 DEF IsAllDay, OfDay

LEMMA CalendarTypes ==
    ASSUME NEW w, CalendarWindow(w)
    PROVE  w \in Window /\ w.from < w.to
  BY HoursOfADay, WholeDays DEF CalendarWindow

\* A window that is not all-day is of one day.
LEMMA TimedWindow ==
    ASSUME NEW w, CalendarWindow(w), ~ IsAllDay(w)
    PROVE  /\ FirstDay(w) \in Nat /\ LastDay(w) = FirstDay(w)
           /\ TimeOf(w) \in DayHours /\ w = OnDay(FirstDay(w), TimeOf(w))
  <1>1. PICK d \in Nat, t \in DayHours : w = OnDay(d, t)
    BY WholeDays DEF CalendarWindow
  <1>2. FirstDay(w) = d /\ LastDay(w) = d /\ TimeOf(w) = t
    BY <1>1, HoursOfADay
  <1>3. QED
    BY <1>1, <1>2

\* The times of day that are compared tell the hours of a day apart.
LEMMA SameHours ==
    ASSUME NEW v, CalendarWindow(v), ~ IsAllDay(v),
           NEW w, CalendarWindow(w), ~ IsAllDay(w), OfDay(v) = OfDay(w)
    PROVE  TimeOf(v) = TimeOf(w)
  <1> DEFINE s == TimeOf(v)
             t == TimeOf(w)
  <1>1. s \in DayHours /\ t \in DayHours /\ v = OnDay(FirstDay(v), s) /\ w = OnDay(FirstDay(w), t)
        /\ FirstDay(v) \in Nat /\ FirstDay(w) \in Nat
    BY TimedWindow
  <1> HIDE DEF s, t
  <1>2. /\ OfDay(v) = <<s.from, IF s.to = DayLength THEN 0 ELSE s.to>>
        /\ OfDay(w) = <<t.from, IF t.to = DayLength THEN 0 ELSE t.to>>
    BY <1>1, HoursOfADay, Zenon
  <1>3. /\ s \in Window /\ s.from < s.to /\ s.to <= DayLength
        /\ t \in Window /\ t.from < t.to /\ t.to <= DayLength
    BY <1>1 DEF DayHours
  <1> DEFINE a == IF s.to = DayLength THEN 0 ELSE s.to
             b == IF t.to = DayLength THEN 0 ELSE t.to
  <1>4. s.from = t.from /\ a = b
    <2>1. <<s.from, a>> = <<t.from, b>>
      BY <1>2, Zenon
    <2> HIDE DEF a, b
    <2>2. QED
      BY <2>1
  <1>5. s.to = t.to
    <2>1. (IF s.to = DayLength THEN 0 ELSE s.to) = (IF t.to = DayLength THEN 0 ELSE t.to)
      BY <1>4
    <2>2. s.to \in Nat /\ t.to \in Nat /\ s.from \in Nat /\ t.from \in Nat /\ s.to > 0 /\ t.to > 0
      BY <1>3 DEF Window
    <2>3. QED
      BY <2>1, <2>2
  <1>6. s = t
    BY <1>3, <1>4, <1>5 DEF Window
  <1>7. QED
    BY <1>6 DEF s, t

LEMMA DaysOfAWindow ==
    ASSUME NEW w, CalendarWindow(w)
    PROVE  FirstDay(w) \in Nat /\ LastDay(w) \in Nat /\ FirstDay(w) <= LastDay(w)
  <1>1. CASE \E d \in Nat, t \in DayHours : w = OnDay(d, t)
    <2>1. PICK d \in Nat, t \in DayHours : w = OnDay(d, t)
      BY <1>1
    <2>2. FirstDay(w) = d /\ LastDay(w) = d
      BY <2>1, HoursOfADay
    <2>3. QED
      BY <2>2
  <1>2. CASE \E from, to \in Nat : from <= to /\ w = [from |-> from * DayLength, to |-> (to + 1) * DayLength]
    <2>1. PICK from \in Nat, to \in Nat :
             from <= to /\ w = [from |-> from * DayLength, to |-> (to + 1) * DayLength]
      BY <1>2
    <2>2. FirstDay(w) = from /\ LastDay(w) = to
      BY <2>1, WholeDays
    <2>3. QED
      BY <2>1, <2>2
  <1>3. QED
    BY <1>1, <1>2 DEF CalendarWindow

-----------------------------------------------------------------------------
(***************************************************************************)
(* What an entry stands for.                                               *)
(***************************************************************************)

Entries == [range: Window, first: Window, reason: Reason, toDay: Int, days: Int, courts: Nat]

\* N windows of the calendar in the order of their beginnings.
Ordered(order, N) ==
    /\ N \in Nat
    /\ order \in [1 .. N -> [window: Window, reason: Reason]]
    /\ \A n \in 1 .. N : CalendarWindow(order[n].window) /\ CourtCount(order[n]) \in Nat
    /\ \A i, j \in 1 .. N : i < j => order[i].window.from <= order[j].window.from

\* Entry e is the windows from the k-th to the m-th.
Stands(e, order, k, m) ==
    /\ k <= m
    /\ e.first = order[k].window
    /\ e.range = [from |-> order[k].window.from, to |-> order[m].window.to]
    /\ e.toDay = LastDay(order[m].window) /\ FirstDay(e.first) <= e.toDay
    /\ e.days = m - k + 1
    /\ \A i \in k .. m : order[i].reason = e.reason /\ order[i].window.to <= e.range.to
    /\ \E i \in k .. m : e.courts = CourtCount(order[i])
    /\ Shown(e) = {order[i].window : i \in k .. m}

LEMMA EntryStands ==
    ASSUME NEW order, NEW N, Ordered(order, N), NEW n \in 1 .. N
    PROVE  Entry(order[n]) \in Entries /\ Stands(Entry(order[n]), order, n, n)
  <1> DEFINE w == order[n].window
             e == Entry(order[n])
  <1>1. w \in Window /\ CalendarWindow(w) /\ order[n].reason \in Reason
        /\ CourtCount(order[n]) \in Nat /\ n \in Int
    BY DEF Ordered
  <1>2. w = [from |-> w.from, to |-> w.to] /\ w.from \in Nat /\ w.to \in Nat
    BY <1>1 DEF Window
  <1>3. FirstDay(w) \in Int /\ LastDay(w) \in Int /\ FirstDay(w) <= LastDay(w)
    BY <1>1, DaysOfAWindow
  <1>4. /\ e.range = w /\ e.first = w /\ e.reason = order[n].reason /\ e.toDay = LastDay(w)
        /\ e.days = 1 /\ e.courts = CourtCount(order[n])
    BY DEF Entry
  <1>5. e \in Entries
    BY <1>1, <1>3 DEF Entry, Entries
  <1> HIDE DEF e
  <1>6. Shown(e) = {w}
    <2>1. CASE IsAllDay(w)
      BY <1>4, <2>1 DEF Shown
    <2>2. CASE ~ IsAllDay(w)
      <3>1. FirstDay(w) \in Nat /\ LastDay(w) = FirstDay(w) /\ w = OnDay(FirstDay(w), TimeOf(w))
        BY <1>1, <2>2, TimedWindow
      <3>2. Shown(e) = EachDay(FirstDay(w), FirstDay(w), TimeOf(w))
        BY <1>4, <2>2, <3>1 DEF Shown, TimeOf
      <3>3. FirstDay(w) .. FirstDay(w) = {FirstDay(w)}
        BY <3>1
      <3>4. QED
        BY <3>1, <3>2, <3>3 DEF EachDay
    <2>3. QED
      BY <2>1, <2>2
  <1>7. n .. n = {n} /\ n - n + 1 = 1 /\ n <= n
    BY <1>1
  <1>8. {order[i].window : i \in n .. n} = {w}
    BY <1>7
  <1>9. \A i \in n .. n : order[i].reason = e.reason /\ order[i].window.to <= e.range.to
    BY <1>2, <1>4, <1>7
  <1>10. \E i \in n .. n : e.courts = CourtCount(order[i])
    BY <1>4, <1>7
  <1> HIDE DEF w
  <1>11. e.range = [from |-> w.from, to |-> w.to] /\ e.days = n - n + 1
    BY <1>2, <1>4, <1>7
  <1>12. Stands(e, order, n, n)
    BY <1>3, <1>4, <1>6, <1>7, <1>8, <1>9, <1>10, <1>11 DEF Stands, w
  <1>13. QED
    BY <1>5, <1>12 DEF e

LEMMA ProlongedStands ==
    ASSUME NEW order, NEW N, Ordered(order, N), NEW n \in 1 .. N, n < N, NEW k \in 1 .. n,
           NEW e \in Entries, Stands(e, order, k, n), Continues(e, order[n + 1])
    PROVE  LET p == Prolonged(e, order[n + 1])
           IN  /\ p \in Entries /\ Stands(p, order, k, n + 1)
               /\ p.reason = e.reason /\ Shown(e) \subseteq Shown(p)
  <1> DEFINE w == order[n + 1].window
             p == Prolonged(e, order[n + 1])
             D == FirstDay(e.first)
             T == TimeOf(e.first)
  <1>1. N \in Nat /\ n + 1 \in 1 .. N /\ k \in 1 .. N /\ k \in Int /\ n \in Int
    BY DEF Ordered
  <1>2. /\ w \in Window /\ CalendarWindow(w) /\ CourtCount(order[n + 1]) \in Nat
        /\ CalendarWindow(e.first) /\ e.first = order[k].window
    BY <1>1 DEF Ordered, Stands
  <1>3. /\ ~ IsAllDay(e.first) /\ ~ IsAllDay(w) /\ OfDay(e.first) = OfDay(w)
        /\ e.reason = order[n + 1].reason /\ e.toDay + 1 = FirstDay(w)
    BY DEF Continues
  <1>4. D \in Nat /\ FirstDay(w) \in Nat /\ LastDay(w) = FirstDay(w)
        /\ w = OnDay(FirstDay(w), T) /\ e.toDay \in Int /\ D <= e.toDay
    BY <1>2, <1>3, TimedWindow, SameHours DEF Entries, Stands
  <1>5. /\ p.range = [e.range EXCEPT !.to = w.to] /\ p.first = e.first /\ p.reason = e.reason
        /\ p.toDay = LastDay(w) /\ p.days = e.days + 1
        /\ p.courts = Larger(e.courts, CourtCount(order[n + 1]))
    BY DEF Prolonged, Entries
  <1>6. p.range = [from |-> order[k].window.from, to |-> w.to]
    BY <1>5 DEF Stands
  <1>7. p \in Entries
    <2>1. p.range \in Window
      <3>1. order[k].window \in Window
        BY <1>1 DEF Ordered
      <3>2. order[k].window.from \in Nat /\ w.to \in Nat
        BY <1>2, <3>1 DEF Window
      <3>3. QED
        BY <1>6, <3>2 DEF Window
    <2>2. LastDay(w) \in Int /\ Larger(e.courts, CourtCount(order[n + 1])) \in Nat
      BY <1>2, <1>4 DEF Larger, Entries
    <2> DEFINE r == [e.range EXCEPT !.to = w.to]
               c == Larger(e.courts, CourtCount(order[n + 1]))
    <2>3. r \in Window /\ c \in Nat
      BY <1>5, <2>1, <2>2
    <2> DEFINE h == e.days + 1
               l == LastDay(w)
    <2>4. /\ p = [e EXCEPT !.range = r, !.toDay = l, !.days = h, !.courts = c]
          /\ h \in Int /\ l \in Int
      BY <2>2 DEF Prolonged, Entries
    <2> HIDE DEF p, r, c, h, l
    <2>5. p = [range |-> r, first |-> e.first, reason |-> e.reason, toDay |-> l, days |-> h,
               courts |-> c]
      BY <2>4 DEF Entries
    <2>6. e.first \in Window /\ e.reason \in Reason
      BY DEF Entries
    <2>7. QED
      BY <2>3, <2>4, <2>5, <2>6 DEF Entries
  <1> HIDE DEF p
  <1>8. Shown(e) = {OnDay(d, T) : d \in D .. e.toDay} /\ Shown(p) = {OnDay(d, T) : d \in D .. LastDay(w)}
    <2>1. FirstDay(e.range) = D /\ FirstDay(p.range) = D
      BY <1>2, <1>6 DEF FirstDay, Stands
    <2>2. Shown(e) = EachDay(D, e.toDay, T)
      BY <1>3, <2>1 DEF Shown, TimeOf
    <2>3. Shown(p) = EachDay(D, LastDay(w), T)
      BY <1>3, <1>5, <2>1 DEF Shown, TimeOf
    <2>4. QED
      BY <2>2, <2>3 DEF EachDay
  <1>9. Shown(p) = Shown(e) \cup {w}
    <2> DEFINE t == e.toDay
               h == FirstDay(w)
    <2>1. D \in Nat /\ t \in Int /\ h \in Nat /\ D <= t /\ t + 1 = h /\ LastDay(w) = h
      BY <1>3, <1>4
    <2> HIDE DEF D, t, h
    <2>2. D .. h = (D .. t) \cup {h}
      BY <2>1
    <2>3. QED
      BY <1>4, <1>8, <2>1, <2>2 DEF t, h
  <1>10. Shown(p) = {order[i].window : i \in k .. n + 1}
    <2>1. k .. n + 1 = (k .. n) \cup {n + 1}
      BY <1>1
    <2>2. Shown(e) = {order[i].window : i \in k .. n}
      BY DEF Stands
    <2>3. QED
      BY <1>9, <2>1, <2>2
  <1>11. \A i \in k .. n + 1 : order[i].reason = p.reason /\ order[i].window.to <= p.range.to
    <2> TAKE i \in k .. n + 1
    <2>1. CASE i = n + 1
      <3>1. w.to <= w.to
        BY <1>2 DEF Window
      <3>2. QED
        BY <1>3, <1>5, <1>6, <2>1, <3>1
    <2>2. CASE i \in k .. n
      <3> DEFINE v == order[n].window
      <3>1. order[i].reason = e.reason /\ order[i].window.to <= v.to
        BY <2>2 DEF Stands
      <3>2. v \in Window /\ w \in Window /\ order[i].window \in Window /\ w.from < w.to
        BY <1>1, <1>2, <2>2, CalendarTypes DEF Ordered
      <3>3. v.to <= w.to
        <4>1. LastDay(v) = e.toDay
          BY DEF Stands
        <4>2. DayLength \in Nat /\ DayLength > 0 /\ v.to \in Nat /\ w.from \in Nat /\ w.to \in Nat
          BY <3>2, ConstantsAssumption DEF Window
        <4>3. (v.to - 1) \div DayLength < w.from \div DayLength
          BY <1>3, <1>4, <4>1 DEF LastDay, FirstDay
        <4>4. v.to - 1 < w.from
          <5> DEFINE x == v.to - 1
                     y == w.from
          <5>1. x \in Int /\ y \in Int /\ x \div DayLength < y \div DayLength
            BY <4>2, <4>3
          <5> HIDE DEF x, y
          <5>2. x < y
            BY <4>2, <5>1, DivGrows
          <5>3. QED
            BY <5>2 DEF x, y
        <4>5. QED
          BY <3>2, <4>2, <4>4
      <3>4. QED
        BY <1>5, <1>6, <3>1, <3>2, <3>3 DEF Window
    <2>3. QED
      BY <1>1, <2>1, <2>2
  <1>12. \E i \in k .. n + 1 : p.courts = CourtCount(order[i])
    <2>1. PICK i \in k .. n : e.courts = CourtCount(order[i])
      BY DEF Stands
    <2>2. p.courts = CourtCount(order[i]) \/ p.courts = CourtCount(order[n + 1])
      BY <1>5, <2>1 DEF Larger
    <2>3. i \in k .. n + 1 /\ n + 1 \in k .. n + 1
      BY <1>1
    <2>4. QED
      BY <2>2, <2>3
  <1>13. p.days = (n + 1) - k + 1 /\ k <= n + 1
    BY <1>1, <1>5 DEF Stands
  <1>14. FirstDay(p.first) <= p.toDay
    <2>1. D <= e.toDay + 1
      BY <1>4
    <2>2. QED
      BY <1>3, <1>4, <1>5, <2>1
  <1>15. Stands(p, order, k, n + 1)
    BY <1>2, <1>5, <1>6, <1>10, <1>11, <1>12, <1>13, <1>14 DEF Stands
  <1>16. QED
    BY <1>5, <1>7, <1>9, <1>15 DEF p

-----------------------------------------------------------------------------
(***************************************************************************)
(* The whole list.                                                         *)
(***************************************************************************)

\* The list shows the first n windows, and each entry stands for some in a row.
Laid(list, order, n) ==
    /\ list \in Seq(Entries)
    /\ \A i \in 1 .. Len(list) : \E k, m \in 1 .. n : Stands(list[i], order, k, m)
    /\ \A j \in 1 .. n : \E i \in 1 .. Len(list) :
          list[i].reason = order[j].reason /\ order[j].window \in Shown(list[i])
    /\ Len(list) > 0 => \E k \in 1 .. n : Stands(list[Len(list)], order, k, n)

\* What an entry that stands for the windows from the k-th to the m-th shows.
LEMMA ShowsThem ==
    ASSUME NEW order, NEW k \in Nat, NEW m \in Nat, NEW e, Stands(e, order, k, m),
           NEW i \in k .. m
    PROVE  order[i].reason = e.reason /\ order[i].window \in Shown(e)
  BY DEF Stands

LEMMA AppendLaid ==
    ASSUME NEW order, NEW N, Ordered(order, N), NEW n \in 0 .. N, n < N,
           NEW list, Laid(list, order, n)
    PROVE  Laid(Append(list, Entry(order[n + 1])), order, n + 1)
  <1> DEFINE e == Entry(order[n + 1])
             after == Append(list, e)
  <1>1. N \in Nat /\ n \in Nat /\ n + 1 \in 1 .. N /\ n + 1 \in 1 .. n + 1
    BY DEF Ordered
  <1>2. e \in Entries /\ Stands(e, order, n + 1, n + 1)
    BY <1>1, EntryStands
  <1>3. list \in Seq(Entries) /\ Len(list) \in Nat
    BY DEF Laid
  <1> HIDE DEF e
  <1>4. /\ after \in Seq(Entries) /\ Len(after) = Len(list) + 1 /\ after[Len(list) + 1] = e
        /\ \A i \in 1 .. Len(list) : after[i] = list[i]
    BY <1>2, <1>3
  <1> HIDE DEF after
  <1>5. ASSUME NEW i \in 1 .. Len(after)
        PROVE  \E k, m \in 1 .. n + 1 : Stands(after[i], order, k, m)
    <2>1. CASE i = Len(list) + 1
      BY <1>1, <1>2, <1>4, <2>1
    <2>2. CASE i \in 1 .. Len(list)
      <3>1. PICK k, m \in 1 .. n : Stands(list[i], order, k, m)
        BY <2>2 DEF Laid
      <3>2. k \in 1 .. n + 1 /\ m \in 1 .. n + 1
        BY <1>1
      <3>3. QED
        BY <1>4, <2>2, <3>1, <3>2
    <2>3. QED
      BY <1>3, <1>4, <2>1, <2>2
  <1>6. ASSUME NEW j \in 1 .. n + 1
        PROVE  \E i \in 1 .. Len(after) :
                  after[i].reason = order[j].reason /\ order[j].window \in Shown(after[i])
    <2>1. CASE j = n + 1
      <3>1. j \in n + 1 .. n + 1 /\ n + 1 \in Nat /\ Len(list) + 1 \in 1 .. Len(after)
        BY <1>1, <1>3, <1>4, <2>1
      <3>2. order[j].reason = e.reason /\ order[j].window \in Shown(e)
        BY <1>2, <3>1, ShowsThem
      <3>3. QED
        BY <1>4, <3>1, <3>2
    <2>2. CASE j \in 1 .. n
      <3>1. PICK i \in 1 .. Len(list) :
               list[i].reason = order[j].reason /\ order[j].window \in Shown(list[i])
        BY <2>2 DEF Laid
      <3>2. i \in 1 .. Len(after)
        BY <1>3, <1>4
      <3>3. QED
        BY <1>4, <3>1, <3>2
    <2>3. QED
      BY <1>1, <2>1, <2>2
  <1>7. \E k \in 1 .. n + 1 : Stands(after[Len(after)], order, k, n + 1)
    BY <1>1, <1>2, <1>4
  <1>8. QED
    BY <1>4, <1>5, <1>6, <1>7 DEF Laid, after, e

LEMMA ProlongedLaid ==
    ASSUME NEW order, NEW N, Ordered(order, N), NEW n \in 0 .. N, n < N,
           NEW list, Laid(list, order, n), list # <<>>, Continues(list[Len(list)], order[n + 1])
    PROVE  Laid([list EXCEPT ![Len(list)] = Prolonged(@, order[n + 1])], order, n + 1)
  <1> DEFINE L == Len(list)
             p == Prolonged(list[L], order[n + 1])
             after == [list EXCEPT ![L] = Prolonged(@, order[n + 1])]
  <1>1. N \in Nat /\ n \in Nat /\ n + 1 \in 1 .. N /\ n + 1 \in 1 .. n + 1
    BY DEF Ordered
  <1>2. list \in Seq(Entries) /\ L \in Nat /\ L > 0 /\ L \in 1 .. L /\ list[L] \in Entries
    <2>1. list \in Seq(Entries)
      BY DEF Laid
    <2> HIDE DEF Entries
    <2>2. Len(list) \in Nat /\ Len(list) # 0
      BY <2>1
    <2>3. L \in 1 .. L
      BY <2>2
    <2>4. list[L] \in Entries
      BY <2>1, <2>3
    <2>5. QED
      BY <2>1, <2>2, <2>3, <2>4
  <1>3. PICK k \in 1 .. n : Stands(list[L], order, k, n)
    BY <1>2 DEF Laid
  <1>4. k \in Nat /\ k <= n /\ n \in 1 .. N /\ k \in 1 .. n + 1 /\ n + 1 \in k .. n + 1
    BY <1>1
  <1>5. /\ p \in Entries /\ Stands(p, order, k, n + 1)
        /\ p.reason = list[L].reason /\ Shown(list[L]) \subseteq Shown(p)
    BY <1>2, <1>3, <1>4, ProlongedStands
  <1>6. after = [list EXCEPT ![L] = p]
    OBVIOUS
  <1> HIDE DEF p, after
  <1>7. /\ after \in Seq(Entries) /\ Len(after) = L /\ after[L] = p
        /\ \A i \in 1 .. L : i # L => after[i] = list[i]
    <2> HIDE DEF L
    <2>1. Len(list) = L
      BY DEF L
    <2>2. QED
      BY <1>2, <1>5, <1>6, <2>1
  <1> HIDE DEF L
  <1>8. ASSUME NEW i \in 1 .. L
        PROVE  \E a, m \in 1 .. n + 1 : Stands(after[i], order, a, m)
    <2>1. CASE i = L
      BY <1>1, <1>4, <1>5, <1>7, <2>1
    <2>2. CASE i # L
      <3>1. PICK a, m \in 1 .. n : Stands(list[i], order, a, m)
        BY DEF Laid, L
      <3>2. a \in 1 .. n + 1 /\ m \in 1 .. n + 1
        BY <1>1
      <3>3. QED
        BY <1>7, <2>2, <3>1, <3>2
    <2>3. QED
      BY <2>1, <2>2
  <1>9. ASSUME NEW j \in 1 .. n + 1
        PROVE  \E i \in 1 .. L :
                  after[i].reason = order[j].reason /\ order[j].window \in Shown(after[i])
    <2>1. CASE j = n + 1
      <3>1. j \in k .. n + 1 /\ n + 1 \in Nat
        BY <1>1, <1>4, <2>1
      <3>2. order[j].reason = p.reason /\ order[j].window \in Shown(p)
        BY <1>4, <1>5, <3>1, ShowsThem
      <3>3. QED
        BY <1>2, <1>7, <3>2
    <2>2. CASE j \in 1 .. n
      <3>1. PICK i \in 1 .. L :
               list[i].reason = order[j].reason /\ order[j].window \in Shown(list[i])
        BY <2>2 DEF Laid, L
      <3>2. CASE i = L
        <4>1. p.reason = order[j].reason /\ order[j].window \in Shown(p)
          BY <1>5, <3>1, <3>2
        <4>2. QED
          BY <1>2, <1>7, <4>1
      <3>3. CASE i # L
        BY <1>7, <3>1, <3>3
      <3>4. QED
        BY <3>2, <3>3
    <2>3. QED
      BY <1>1, <2>1, <2>2
  <1>10. \E a \in 1 .. n + 1 : Stands(after[L], order, a, n + 1)
    BY <1>4, <1>5, <1>7
  <1>11. Laid(after, order, n + 1)
    BY <1>7, <1>8, <1>9, <1>10 DEF Laid
  <1>12. QED
    BY <1>11 DEF after, L

LEMMA CollapseLaid ==
    ASSUME NEW order, NEW N, Ordered(order, N), NEW n \in 0 .. N, n < N,
           NEW list, Laid(list, order, n)
    PROVE  Laid(Collapse(list, order[n + 1]), order, n + 1)
  BY AppendLaid, ProlongedLaid DEF Collapse

LEMMA ListLaid ==
    ASSUME NEW order, Ordered(order, Cardinality(Windows))
    PROVE  Laid(Listed(order), order, Cardinality(Windows))
  <1> DEFINE N == Cardinality(Windows)
  <1>1. N \in Nat
    BY DEF Ordered
  <1>2. PICK f : /\ Listed(order) = f[N] /\ f[0] = <<>>
                 /\ \A n \in 1 .. N : f[n] = Collapse(f[n - 1], order[n])
    BY <1>1, ListGrows
  <1> DEFINE S == {n \in 0 .. N : Laid(f[n], order, n)}
  <1>3. Ordered(order, N)
    OBVIOUS
  <1> HIDE DEF N
  <1>4. 0 \in S
    <2>1. Laid(<<>>, order, 0)
      BY DEF Laid
    <2>2. QED
      BY <1>1, <1>2, <2>1
  <1>5. ASSUME NEW n \in 0 .. N, n < N, n \in S
        PROVE  n + 1 \in S
    <2>1. n + 1 \in 1 .. N /\ (n + 1) - 1 = n
      BY <1>1, <1>5
    <2>2. f[n + 1] = Collapse(f[n], order[n + 1])
      BY <1>2, <2>1
    <2>3. Laid(f[n + 1], order, n + 1)
      BY <1>3, <1>5, <2>2, CollapseLaid
    <2>4. QED
      BY <1>1, <2>1, <2>3
  <1>6. 0 .. N \subseteq S
    <2> HIDE DEF S
    <2>1. QED
      BY <1>1, <1>4, <1>5, Counting
  <1>7. N \in S
    BY <1>1, <1>6
  <1>8. QED
    BY <1>2, <1>7 DEF N

-----------------------------------------------------------------------------
(***************************************************************************)
(* What is in the database.                                                *)
(***************************************************************************)

\* The windows of one closure.
Enterable(W) ==
    \/ \E from, to \in Nat : from <= to /\ W = AllDay(from, to)
    \/ \E from, to \in Nat, t \in DayHours : from <= to /\ W = EachDay(from, to, t)

\* Those of one that is not refused for a day on which it would begin when it ends.
ToBeEntered(W) == Enterable(W) /\ \A w \in Resolved(W) : w.from < w.to

\* The rows are those of finitely many closures.
CalendarInv ==
    /\ IsFiniteSet(closures)
    /\ \A e \in closures : CalendarWindow(e.window)
    /\ \A p \in Api : req[p].op \in {"check", "insert"} =>
          ToBeEntered(req[p].windows) /\ req[p].rooms # {}

LEMMA EnterableWindows ==
    ASSUME NEW W, Enterable(W)
    PROVE  IsFiniteSet(W) /\ \A w \in W : CalendarWindow(w)
  <1>1. CASE \E from, to \in Nat : from <= to /\ W = AllDay(from, to)
    BY <1>1, FS_Singleton DEF AllDay, CalendarWindow
  <1>2. CASE \E from, to \in Nat, t \in DayHours : from <= to /\ W = EachDay(from, to, t)
    <2>1. PICK from \in Nat, to \in Nat, t \in DayHours : from <= to /\ W = EachDay(from, to, t)
      BY <1>2
    <2> DEFINE g == [d \in from .. to |-> OnDay(d, t)]
    <2>2. g \in Surjection(from .. to, W)
      BY <2>1 DEF EachDay, Surjection
    <2>3. IsFiniteSet(W)
      BY <2>2, FS_Interval, FS_Surjection
    <2>4. \A w \in W : CalendarWindow(w)
      BY <2>1 DEF EachDay, CalendarWindow
    <2>5. QED
      BY <2>3, <2>4
  <1>3. QED
    BY <1>1, <1>2 DEF Enterable

LEMMA TimedHours == Timed \subseteq DayHours
  BY ConstantsAssumption DEF DayHours

\* Midnight is read as midnight.
LEMMA ReadMidnight ==
    ASSUME NEW m \in Nat
    PROVE  AsRead(m * DayLength) = m * DayLength
  <1>1. PICK d \in Nat : d * DayLength <= GapFrom - (GapTo - GapFrom) /\ GapTo <= (d + 1) * DayLength
    BY TheGap
  <1> DEFINE x == m * DayLength
             u == d * DayLength
             v == (d + 1) * DayLength
  <1>2. x \in Nat /\ u \in Nat /\ v \in Nat
    BY ConstantsAssumption
  <1>3. m <= d => x <= u
    BY Times
  <1>4. d + 1 <= m => v <= x
    BY Times
  <1>5. m <= d \/ d + 1 <= m
    OBVIOUS
  <1>6. u <= GapFrom - (GapTo - GapFrom) /\ GapTo <= v
    BY <1>1
  <1> HIDE DEF x, u, v
  <1>7. ~ (GapFrom <= x /\ x < GapTo)
    BY <1>2, <1>3, <1>4, <1>5, <1>6, TheGap
  <1>8. AsRead(x) = x
    BY <1>7 DEF AsRead
  <1>9. QED
    BY <1>8 DEF x

\* A time of a day is read as one of that day.
LEMMA ReadWithinDay ==
    ASSUME NEW d \in Nat, NEW a \in Nat, a <= DayLength
    PROVE  AsRead(d * DayLength + a) - d * DayLength \in 0 .. a
  <1>1. PICK g \in Nat : g * DayLength <= GapFrom - (GapTo - GapFrom) /\ GapTo <= (g + 1) * DayLength
    BY TheGap
  <1> DEFINE u == d * DayLength
             v == g * DayLength
             t == u + a
  <1>2. DayLength \in Nat /\ u \in Nat /\ v \in Nat
    BY ConstantsAssumption
  <1>3. d < g => u + DayLength <= v
    <2>1. d + 1 <= g => (d + 1) * DayLength <= v
      BY Times
    <2>2. (d + 1) * DayLength = u + DayLength
      BY <1>2
    <2>3. QED
      BY <2>1, <2>2
  <1>4. g < d => v + DayLength <= u
    <2>1. g + 1 <= d => (g + 1) * DayLength <= u
      BY Times
    <2>2. (g + 1) * DayLength = v + DayLength
      BY <1>2
    <2>3. QED
      BY <2>1, <2>2
  <1>5. d = g => u = v
    OBVIOUS
  <1>6. v <= GapFrom - (GapTo - GapFrom) /\ GapTo <= v + DayLength
    <2>1. (g + 1) * DayLength = v + DayLength
      BY <1>2
    <2>2. QED
      BY <1>1, <2>1
  <1>7. d < g \/ d = g \/ g < d
    OBVIOUS
  <1> HIDE DEF u, v
  <1>8. CASE GapFrom <= t /\ t < GapTo
    <2>1. u = v
      BY <1>2, <1>3, <1>4, <1>5, <1>6, <1>7, <1>8, TheGap
    <2>2. AsRead(t) = t - (GapTo - GapFrom)
      BY <1>8 DEF AsRead
    <2>3. AsRead(t) - u \in 0 .. a
      BY <1>2, <1>6, <1>8, <2>1, <2>2, TheGap
    <2>4. QED
      BY <2>3 DEF u
  <1>9. CASE ~ (GapFrom <= t /\ t < GapTo)
    <2>1. AsRead(t) = t
      BY <1>9 DEF AsRead
    <2>2. AsRead(t) - u \in 0 .. a
      BY <1>2, <2>1
    <2>3. QED
      BY <2>2 DEF u
  <1>10. QED
    BY <1>8, <1>9

\* A time of a day is one whatever is read for it.
LEMMA ReadOnDay ==
    ASSUME NEW d \in Nat, NEW t \in DayHours,
           AsRead(OnDay(d, t).from) < AsRead(OnDay(d, t).to)
    PROVE  \E h \in DayHours :
              [from |-> AsRead(OnDay(d, t).from), to |-> AsRead(OnDay(d, t).to)] = OnDay(d, h)
  <1> DEFINE u == d * DayLength
             a == AsRead(u + t.from)
             b == AsRead(u + t.to)
             h == [from |-> a - u, to |-> b - u]
  <1>1. DayLength \in Nat /\ u \in Nat /\ t.from \in Nat /\ t.to \in Nat
        /\ t.from <= DayLength /\ t.to <= DayLength
    BY ConstantsAssumption DEF DayHours, Window
  <1>2. OnDay(d, t).from = u + t.from /\ OnDay(d, t).to = u + t.to
    BY DEF OnDay
  <1>3. a - u \in 0 .. t.from /\ b - u \in 0 .. t.to
    BY <1>1, ReadWithinDay
  <1>4. a \in Nat /\ b \in Nat
    BY <1>1, ReadTypes
  <1>5. a < b
    BY <1>2
  <1> HIDE DEF u, a, b
  <1>6. h \in DayHours
    BY <1>1, <1>3, <1>4, <1>5 DEF DayHours, Window
  <1>7. OnDay(d, h) = [from |-> u + (a - u), to |-> u + (b - u)]
    BY DEF OnDay, u
  <1>8. u + (a - u) = a /\ u + (b - u) = b
    BY <1>1, <1>4
  <1>9. OnDay(d, h) = [from |-> a, to |-> b]
    BY <1>7, <1>8
  <1>10. QED
    BY <1>2, <1>6, <1>9 DEF a, b

\* What is entered becomes windows of the calendar.
LEMMA ResolvedWindows ==
    ASSUME NEW W, ToBeEntered(W)
    PROVE  IsFiniteSet(Resolved(W)) /\ \A w \in Resolved(W) : CalendarWindow(w)
  <1> DEFINE read(w) == [from |-> AsRead(w.from), to |-> AsRead(w.to)]
  <1>1. IsFiniteSet(Resolved(W))
    <2> DEFINE g == [w \in W |-> read(w)]
    <2>1. IsFiniteSet(W)
      BY EnterableWindows DEF ToBeEntered
    <2>2. g \in Surjection(W, Resolved(W))
      BY DEF Surjection, Resolved
    <2>3. QED
      BY <2>1, <2>2, FS_Surjection
  <1>2. CASE \E from, to \in Nat : from <= to /\ W = AllDay(from, to)
    <2>1. PICK from \in Nat, to \in Nat : from <= to /\ W = AllDay(from, to)
      BY <1>2
    <2>2. AsRead(from * DayLength) = from * DayLength /\ AsRead((to + 1) * DayLength) = (to + 1) * DayLength
      BY ReadMidnight
    <2>3. Resolved(W) = W
      BY <2>1, <2>2 DEF Resolved, AllDay
    <2>4. QED
      BY <1>1, <2>3, EnterableWindows DEF ToBeEntered
  <1>3. CASE \E from, to \in Nat, t \in DayHours : from <= to /\ W = EachDay(from, to, t)
    <2>1. PICK from \in Nat, to \in Nat, t \in DayHours : from <= to /\ W = EachDay(from, to, t)
      BY <1>3
    <2>2. ASSUME NEW d \in from .. to
          PROVE  CalendarWindow(read(OnDay(d, t)))
      <3>1. d \in Nat /\ OnDay(d, t) \in W
        BY <2>1 DEF EachDay
      <3>2. read(OnDay(d, t)) \in Resolved(W)
        BY <3>1 DEF Resolved
      <3>3. AsRead(OnDay(d, t).from) < AsRead(OnDay(d, t).to)
        BY <3>2 DEF ToBeEntered
      <3>4. QED
        BY <3>1, <3>3, ReadOnDay DEF CalendarWindow
    <2>3. QED
      BY <1>1, <2>1, <2>2 DEF Resolved, EachDay
  <1>4. QED
    BY <1>2, <1>3 DEF ToBeEntered, Enterable

\* A row for each court and each window.
LEMMA RowsFinite ==
    ASSUME NEW i, NEW R, NEW W, NEW r, IsFiniteSet(R), IsFiniteSet(W)
    PROVE  IsFiniteSet([id: {i}, room: R, window: W, reason: {r}])
  <1> DEFINE rows == [id: {i}, room: R, window: W, reason: {r}]
             g == [x \in R \X W |-> [id |-> i, room |-> x[1], window |-> x[2], reason |-> r]]
  <1>1. \A e \in rows : \E x \in R \X W : e = g[x]
    <2> TAKE e \in rows
    <2>1. <<e.room, e.window>> \in R \X W
      OBVIOUS
    <2>2. e = g[<<e.room, e.window>>]
      OBVIOUS
    <2>3. QED
      BY <2>1, <2>2
  <1>2. g \in [R \X W -> rows]
    OBVIOUS
  <1>3. g \in Surjection(R \X W, rows)
    <2> HIDE DEF g, rows
    <2>1. QED
      BY <1>1, <1>2 DEF Surjection
  <1>4. IsFiniteSet(R \X W)
    BY FS_Product
  <1>5. QED
    BY <1>3, <1>4, FS_Surjection

LEMMA WindowsFinite ==
    ASSUME IsFiniteSet(closures)
    PROVE  IsFiniteSet(Windows)
  <1> DEFINE g == [e \in Upcoming |-> [window |-> e.window, reason |-> e.reason]]
  <1>1. IsFiniteSet(Upcoming)
    BY FS_Subset DEF Upcoming
  <1>2. g \in Surjection(Upcoming, Windows)
    BY DEF Surjection, Windows
  <1>3. QED
    BY <1>1, <1>2, FS_Surjection

LEMMA OrdersAreOrdered ==
    ASSUME TypeOK, CalendarInv, NEW order \in Orders
    PROVE  /\ Ordered(order, Cardinality(Windows))
           /\ \A w \in Windows : \E n \in 1 .. Cardinality(Windows) : order[n] = w
  <1> DEFINE N == Cardinality(Windows)
  <1>1. IsFiniteSet(Windows) /\ N \in Nat
    BY WindowsFinite, FS_CardinalityType DEF CalendarInv
  <1>2. \A w \in Windows : w \in [window: Window, reason: Reason] /\ CalendarWindow(w.window)
    BY DEF Windows, Upcoming, TypeOK, Exceptions, CalendarInv
  <1>3. \A w \in Windows : CourtCount(w) \in Nat
    <2> TAKE w \in Windows
    <2>1. {e \in Upcoming : e.window = w.window /\ e.reason = w.reason} \in SUBSET closures
      BY DEF Upcoming
    <2>2. QED
      BY <2>1, FS_Subset, FS_CardinalityType DEF CalendarInv, CourtCount
  <1>4. order \in [1 .. N -> Windows] /\ DOMAIN order = 1 .. N
    BY DEF Orders
  <1>5. \A i, j \in 1 .. N : i < j => order[i].window.from <= order[j].window.from
    BY <1>4 DEF Orders
  <1>6. \A i, j \in 1 .. N : i # j => order[i] # order[j]
    BY <1>4 DEF Orders
  <1> HIDE DEF N
  <1>7. order \in Injection(1 .. N, Windows)
    BY <1>4, <1>6 DEF Injection, IsInjective
  <1>8. Cardinality(1 .. N) = N
    BY <1>1, FS_Interval
  <1>9. order \in Surjection(1 .. N, Windows)
    BY <1>1, <1>7, <1>8, FS_Injection DEF N
  <1>10. \A w \in Windows : \E n \in 1 .. N : order[n] = w
    BY <1>9 DEF Surjection
  <1>11. order \in [1 .. N -> [window: Window, reason: Reason]]
    BY <1>2, <1>4
  <1>12. Ordered(order, N)
    BY <1>1, <1>2, <1>3, <1>4, <1>5, <1>11 DEF Ordered
  <1>13. QED
    BY <1>10, <1>12 DEF N

\* Deleting what an entry shows: whatever else is within it begins together with
\* its first window, or is within its last.
LEMMA GoneIsShown ==
    ASSUME NEW order, NEW N, Ordered(order, N), NEW k \in 1 .. N, NEW m \in 1 .. N,
           NEW e, Stands(e, order, k, m), NEW p \in 1 .. N, Within(order[p].window, e.range)
    PROVE  \E v \in Shown(e) : Within(order[p].window, v) \/ order[p].window.from = v.from
  <1> DEFINE w == order[p].window
  <1>1. N \in Nat /\ k \in Nat /\ m \in Nat /\ p \in Nat /\ k <= m
    BY DEF Ordered, Stands
  <1>2. /\ order[k].window.from <= w.from /\ w.to <= order[m].window.to
    BY DEF Within, Stands
  <1>3. /\ w.from \in Nat /\ order[k].window.from \in Nat /\ order[m].window.from \in Nat
    BY DEF Ordered, Window
  <1>4. \A i \in k .. m : order[i].window \in Shown(e)
    BY <1>1, ShowsThem
  <1>5. k \in k .. m /\ m \in k .. m
    BY <1>1
  <1>6. CASE p < k
    <2>1. w.from <= order[k].window.from
      BY <1>6 DEF Ordered
    <2>2. w.from = order[k].window.from
      BY <1>2, <1>3, <2>1
    <2>3. QED
      BY <1>4, <1>5, <2>2
  <1>7. CASE p \in k .. m
    BY <1>4, <1>7
  <1>8. CASE m < p
    <2>1. order[m].window.from <= w.from
      BY <1>8 DEF Ordered
    <2>2. Within(w, order[m].window)
      BY <1>2, <2>1 DEF Within
    <2>3. QED
      BY <1>4, <1>5, <2>2
  <1>9. QED
    BY <1>1, <1>6, <1>7, <1>8

\* What an entry shows is within it.
LEMMA ShownIsWithin ==
    ASSUME NEW order, NEW N, Ordered(order, N), NEW k \in 1 .. N, NEW m \in 1 .. N,
           NEW e, Stands(e, order, k, m), NEW i \in k .. m
    PROVE  Within(order[i].window, e.range)
  <1>1. N \in Nat /\ i \in 1 .. N /\ k \in Nat /\ i \in Nat
    BY DEF Ordered
  <1>2. order[i].window.to <= e.range.to /\ e.range.from = order[k].window.from
    BY DEF Stands
  <1>3. order[k].window.from <= order[i].window.from
    <2>1. order[k].window.from \in Nat /\ order[i].window.from \in Nat
      BY <1>1 DEF Ordered, Window
    <2>2. k = i \/ k < i
      BY <1>1
    <2>3. k < i => order[k].window.from <= order[i].window.from
      BY <1>1 DEF Ordered
    <2>4. QED
      BY <2>1, <2>2, <2>3
  <1>4. QED
    BY <1>2, <1>3 DEF Within

LEMMA Faithful ==
    ASSUME TypeOK, CalendarInv
    PROVE  ListingFaithful
  <1> SUFFICES ASSUME NEW order \in Orders
               PROVE  LET list == Listed(order)
                      IN  /\ \A w \in Windows : \E i \in DOMAIN list :
                                list[i].reason = w.reason /\ w.window \in Shown(list[i])
                          /\ \A i \in DOMAIN list :
                                LET gone == {e.window : e \in Deleted(list[i].range, {list[i].reason})}
                                IN  /\ Shown(list[i]) \subseteq gone
                                    /\ \A w \in gone : \E v \in Shown(list[i]) :
                                          Within(w, v) \/ w.from = v.from
    BY DEF ListingFaithful
  <1> DEFINE N == Cardinality(Windows)
             list == Listed(order)
  <1>1. Ordered(order, N) /\ \A w \in Windows : \E n \in 1 .. N : order[n] = w
    BY OrdersAreOrdered
  <1>2. Laid(list, order, N)
    BY <1>1, ListLaid
  <1>3. \A n \in 1 .. N : order[n] \in Windows
    BY DEF Orders
  <1> HIDE DEF N, list
  <1>4. DOMAIN list = 1 .. Len(list) /\ N \in Nat
    BY <1>1, <1>2 DEF Laid, Ordered
  <1>5. ASSUME NEW w \in Windows
        PROVE  \E i \in DOMAIN list : list[i].reason = w.reason /\ w.window \in Shown(list[i])
    <2>1. PICK n \in 1 .. N : order[n] = w
      BY <1>1
    <2>2. PICK i \in 1 .. Len(list) :
             list[i].reason = order[n].reason /\ order[n].window \in Shown(list[i])
      BY <1>2 DEF Laid
    <2>3. QED
      BY <1>4, <2>1, <2>2
  <1>6. ASSUME NEW i \in DOMAIN list
        PROVE  LET gone == {e.window : e \in Deleted(list[i].range, {list[i].reason})}
               IN  /\ Shown(list[i]) \subseteq gone
                   /\ \A w \in gone : \E v \in Shown(list[i]) : Within(w, v) \/ w.from = v.from
    <2> DEFINE x == list[i]
               gone == {e.window : e \in Deleted(x.range, {x.reason})}
    <2>1. PICK k, m \in 1 .. N : Stands(x, order, k, m)
      BY <1>2, <1>4 DEF Laid
    <2>2. k \in Nat /\ m \in Nat
      BY <1>4
    <2> HIDE DEF x
    <2>3. ASSUME NEW v \in Shown(x)
          PROVE  v \in gone
      <3>1. PICK n \in k .. m : v = order[n].window
        BY <2>1 DEF Stands
      <3>2. n \in 1 .. N /\ order[n].reason = x.reason /\ Within(v, x.range)
        <4>1. n \in 1 .. N
          BY <1>4, <2>2
        <4>2. order[n].reason = x.reason
          BY <2>1, <2>2, ShowsThem
        <4>3. Within(order[n].window, x.range)
          BY <1>1, <2>1, ShownIsWithin
        <4>4. QED
          BY <3>1, <4>1, <4>2, <4>3
      <3>3. PICK e \in closures : order[n] = [window |-> e.window, reason |-> e.reason]
        BY <1>3, <3>2 DEF Windows, Upcoming
      <3>4. e \in Deleted(x.range, {x.reason}) /\ e.window = v
        BY <3>1, <3>2, <3>3 DEF Deleted
      <3>5. QED
        BY <3>4
    <2>4. ASSUME NEW w \in gone
          PROVE  \E v \in Shown(x) : Within(w, v) \/ w.from = v.from
      <3>1. PICK e \in closures : Within(e.window, x.range) /\ w = e.window
        BY DEF Deleted
      <3>2. CASE e \in Upcoming
        <4>1. PICK p \in 1 .. N : order[p] = [window |-> e.window, reason |-> e.reason]
          BY <1>1, <3>2 DEF Windows
        <4>2. order[p].window = w
          BY <3>1, <4>1
        <4>3. QED
          BY <1>1, <2>1, <3>1, <4>2, GoneIsShown
      <3>3. CASE e \notin Upcoming
        <4>1. PICK u \in Upcoming : order[k] = [window |-> u.window, reason |-> u.reason]
          BY <1>3 DEF Windows
        <4>2. order[k].window = u.window /\ order[k].window \in Shown(x)
          BY <2>1, <2>2, <4>1, ShowsThem DEF Stands
        <4>3. u.window.from <= w.from
          BY <2>1, <3>1, <4>2 DEF Stands, Within
        <4>4. u \in closures /\ now < u.window.to /\ ~ (now < w.to)
          BY <3>1, <3>3 DEF Upcoming
        <4>5. now \in Nat /\ u.window.to \in Nat /\ w.to \in Nat
          BY <3>1, <4>4 DEF TypeOK, Exceptions, Window
        <4>6. Within(w, u.window)
          BY <4>3, <4>4, <4>5 DEF Within
        <4>7. QED
          BY <4>2, <4>6
      <3>4. QED
        BY <3>2, <3>3
    <2>5. QED
      BY <2>3, <2>4 DEF x
  <1>7. QED
    BY <1>5, <1>6 DEF list

LEMMA InitCalendar == Init => CalendarInv
  BY FS_EmptySet DEF Init, CalendarInv, Idle

LEMMA NextCalendar == TypeOK /\ CalendarInv /\ [Next]_vars => CalendarInv'
  <1> SUFFICES ASSUME TypeOK, CalendarInv, [Next]_vars
               PROVE  CalendarInv'
    OBVIOUS
  <1>1. ASSUME closures' \subseteq closures,
               \A p \in Api : req'[p].op \in {"check", "insert"} =>
                  ToBeEntered(req'[p].windows) /\ req'[p].rooms # {}
        PROVE  CalendarInv'
    <2>1. IsFiniteSet(closures')
      BY <1>1, FS_Subset DEF CalendarInv
    <2>2. QED
      BY <1>1, <2>1 DEF CalendarInv
  <1>2. ASSUME NEW p \in Api, NEW next, req' = [req EXCEPT ![p] = next],
               next.op \in {"check", "insert"} => ToBeEntered(next.windows) /\ next.rooms # {}
        PROVE  \A q \in Api : req'[q].op \in {"check", "insert"} =>
                  ToBeEntered(req'[q].windows) /\ req'[q].rooms # {}
    BY <1>2 DEF CalendarInv, TypeOK
  <1>3. \A next : next = Idle \/ next.op \in {"hours", "book", "move"} => next.op \notin {"check", "insert"}
    BY DEF Idle
  <1>4. ASSUME req' = req
        PROVE  \A q \in Api : req'[q].op \in {"check", "insert"} =>
                  ToBeEntered(req'[q].windows) /\ req'[q].rooms # {}
    BY <1>4 DEF CalendarInv
  <1>5. CASE UNCHANGED vars
    BY <1>1, <1>4, <1>5 DEF vars
  <1>6. ASSUME NEW p \in Api, Arrive(p)
        PROVE  CalendarInv'
    <2>1. CASE \E c \in Court : CreateCourt(p, c)
      BY <1>1, <1>4, <2>1 DEF CreateCourt
    <2>2. CASE \E c \in Court, s \in {"ACTIVE", "INACTIVE"} : SetCourtStatus(p, c, s)
      BY <1>1, <1>4, <2>2 DEF SetCourtStatus
    <2>3. CASE \E r \in Resource, W \in Hours : DeleteHours(p, r, W)
      BY <1>1, <1>2, <2>3 DEF DeleteHours, Begin
    <2>4. ASSUME NEW W, NEW reason, Enterable(W), CloseRead(p, W, reason)
          PROVE  CalendarInv'
      <3>1. ToBeEntered(W)
        BY <2>4 DEF CloseRead, ToBeEntered
      <3>2. QED
        BY <1>1, <1>2, <2>4, <3>1 DEF CloseRead, Begin
    <2>5. CASE \E from \in 0 .. Days - 1, reason \in Reason : \E to \in from .. Days - 1 :
                  \/ CloseRead(p, AllDay(from, to), reason)
                  \/ \E w \in Timed : CloseRead(p, EachDay(from, to, w), reason)
      <3>1. PICK from \in 0 .. Days - 1, reason \in Reason : \E to \in from .. Days - 1 :
                  \/ CloseRead(p, AllDay(from, to), reason)
                  \/ \E w \in Timed : CloseRead(p, EachDay(from, to, w), reason)
        BY <2>5
      <3>2. PICK to \in from .. Days - 1 :
                  \/ CloseRead(p, AllDay(from, to), reason)
                  \/ \E w \in Timed : CloseRead(p, EachDay(from, to, w), reason)
        BY <3>1
      <3>3. from \in Nat /\ to \in Nat /\ from <= to
        BY ConstantsAssumption
      <3>4. Enterable(AllDay(from, to)) /\ \A w \in Timed : Enterable(EachDay(from, to, w))
        BY <3>3, TimedHours DEF Enterable
      <3>5. QED
        BY <2>4, <3>2, <3>4
    <2>6. CASE \E from \in {e.window.from : e \in closures}, to \in {e.window.to : e \in closures},
                  reasons \in {{r} : r \in Reason} \cup {Reason} :
                  DeleteClosure(p, [from |-> from, to |-> to], reasons)
      BY <1>1, <1>4, <2>6 DEF DeleteClosure
    <2>7. CASE \E b \in Booking, R \in (SUBSET Court) \ {{}}, t \in Slot :
                  \/ \E k \in Kind, s \in {"PENDING_APPROVAL", "CONFIRMED"} : ResolveNew(p, b, k, R, t, s)
                  \/ ResolveMove(p, b, R, t)
      BY <1>1, <1>2, <2>7 DEF ResolveNew, ResolveMove, Begin
    <2>8. CASE \E b \in Booking : CancelBooking(p, b)
      BY <1>1, <1>4, <2>8 DEF CancelBooking
    <2>9. QED
      BY <1>6, <2>1, <2>2, <2>3, <2>5, <2>6, <2>7, <2>8 DEF Arrive
  <1>7. ASSUME NEW p \in Api, Proceed(p)
        PROVE  CalendarInv'
    <2>1. CASE InsertHours(p)
      BY <1>1, <1>2, <1>3, <2>1 DEF InsertHours, Finish
    <2>2. CASE WriteBooking(p)
      BY <1>1, <1>2, <1>3, <2>2 DEF WriteBooking, Finish
    <2>3. CASE CloseCheck(p)
      <3>1. \A q \in Api : req'[q].op \in {"check", "insert"} =>
               ToBeEntered(req'[q].windows) /\ req'[q].rooms # {}
        <4>1. CASE Finish(p)
          BY <1>2, <1>3, <4>1 DEF Finish
        <4>2. CASE Continue(p, "insert")
          <5>1. req[p] \in [op: {"check", "insert"}, windows: SUBSET Window,
                            rooms: SUBSET Court, reason: Reason]
            BY <2>3, RequestTypes DEF CloseCheck, At
          <5>2. /\ [req[p] EXCEPT !.op = "insert"].windows = req[p].windows
                /\ [req[p] EXCEPT !.op = "insert"].rooms = req[p].rooms
            BY <5>1
          <5>3. ToBeEntered(req[p].windows) /\ req[p].rooms # {}
            BY <2>3 DEF CloseCheck, At, CalendarInv
          <5>4. req' = [req EXCEPT ![p] = [req[p] EXCEPT !.op = "insert"]]
            BY <4>2 DEF Continue
          <5>5. QED
            BY <1>2, <5>2, <5>3, <5>4
        <4>3. QED
          BY <2>3, <4>1, <4>2 DEF CloseCheck
      <3>2. QED
        BY <1>1, <2>3, <3>1 DEF CloseCheck
    <2>4. CASE CloseInsert(p)
      <3>1. req[p].rooms \subseteq Court /\ ToBeEntered(req[p].windows)
        BY <2>4, RequestTypes DEF CloseInsert, At, CalendarInv
      <3>2. IsFiniteSet(req[p].rooms) /\ IsFiniteSet(Resolved(req[p].windows))
            /\ \A w \in Resolved(req[p].windows) : CalendarWindow(w)
        BY <3>1, ResolvedWindows, FS_Subset, ConstantsAssumption
      <3> DEFINE rows == [id: {entered'}, room: req[p].rooms,
                          window: Resolved(req[p].windows), reason: {req[p].reason}]
      <3>3. IsFiniteSet(rows)
        BY <3>2, RowsFinite
      <3>4. \A e \in rows : CalendarWindow(e.window)
        BY <3>2
      <3>5. closures' = closures \cup rows
        BY <2>4 DEF CloseInsert
      <3> HIDE DEF rows
      <3>6. IsFiniteSet(closures') /\ \A e \in closures' : CalendarWindow(e.window)
        BY <3>3, <3>4, <3>5, FS_Union DEF CalendarInv
      <3>7. \A q \in Api : req'[q].op \in {"check", "insert"} =>
               ToBeEntered(req'[q].windows) /\ req'[q].rooms # {}
        BY <1>2, <1>3, <2>4 DEF CloseInsert, Finish
      <3>8. QED
        BY <3>6, <3>7 DEF CalendarInv
    <2>5. QED
      BY <1>7, <2>1, <2>2, <2>3, <2>4 DEF Proceed
  <1>8. CASE Tick
    BY <1>1, <1>4, <1>8 DEF Tick
  <1>9. QED
    BY <1>5, <1>6, <1>7, <1>8 DEF Next

LEMMA CalendarInvariance == Spec => []CalendarInv
  <1>1. TypeOK /\ CalendarInv /\ [Next]_vars => CalendarInv'
    BY NextCalendar
  <1>2. QED
    BY InitCalendar, <1>1, TypeCorrect, PTL DEF Spec

\* Nothing that closes a court is missing from the list, and deleting a listed
\* closure deletes it all, and nothing that does not begin with one of its days.
THEOREM ListIsFaithful == Spec => []ListingFaithful
  BY TypeCorrect, CalendarInvariance, Faithful, PTL

-----------------------------------------------------------------------------
(***************************************************************************)
(* The list of one closure.                                                *)
(***************************************************************************)

\* The windows are the days of one closure.
Uninterrupted(order, N) ==
    /\ \A i, j \in 1 .. N : order[i] = order[j] => i = j
    /\ \A i, j \in 1 .. N : order[i].reason = order[j].reason
    /\ \A i, j \in 1 .. N : i # j =>
          ~ IsAllDay(order[i].window) /\ OfDay(order[i].window) = OfDay(order[j].window)
    /\ \A n \in 1 .. N : n < N => LastDay(order[n].window) + 1 = FirstDay(order[n + 1].window)

LEMMA GoesOnForADay ==
    ASSUME NEW order, NEW N \in Nat, Uninterrupted(order, N), NEW n \in 1 .. N, n < N,
           NEW k \in 1 .. n, NEW e, Stands(e, order, k, n)
    PROVE  Continues(e, order[n + 1])
  <1>1. k \in 1 .. N /\ n + 1 \in 1 .. N /\ k # n + 1 /\ k \in k .. n
    BY DEF Stands
  <1>2. e.first = order[k].window /\ e.reason = order[k].reason /\ e.toDay = LastDay(order[n].window)
    BY <1>1 DEF Stands
  <1>3. e.reason = order[n + 1].reason
    BY <1>1, <1>2 DEF Uninterrupted
  <1>4. ~ IsAllDay(e.first) /\ ~ IsAllDay(order[n + 1].window)
        /\ OfDay(e.first) = OfDay(order[n + 1].window)
    BY <1>1, <1>2 DEF Uninterrupted
  <1>5. e.toDay + 1 = FirstDay(order[n + 1].window)
    BY <1>2 DEF Uninterrupted
  <1>6. QED
    BY <1>3, <1>4, <1>5 DEF Continues

LEMMA OneEntry ==
    ASSUME NEW order, Ordered(order, Cardinality(Windows)), Cardinality(Windows) > 0,
           Uninterrupted(order, Cardinality(Windows))
    PROVE  Len(Listed(order)) = 1
  <1> DEFINE N == Cardinality(Windows)
  <1>1. N \in Nat
    BY DEF Ordered
  <1>2. PICK f : /\ Listed(order) = f[N] /\ f[0] = <<>>
                 /\ \A n \in 1 .. N : f[n] = Collapse(f[n - 1], order[n])
    BY <1>1, ListGrows
  <1> DEFINE S == {n \in 0 .. N : Laid(f[n], order, n) /\ (n > 0 => Len(f[n]) = 1)}
  <1>3. Ordered(order, N) /\ Uninterrupted(order, N) /\ N > 0
    OBVIOUS
  <1> HIDE DEF N
  <1>4. 0 \in S
    <2>1. Laid(<<>>, order, 0)
      BY DEF Laid
    <2>2. QED
      BY <1>1, <1>2, <2>1
  <1>5. ASSUME NEW n \in 0 .. N, n < N, n \in S
        PROVE  n + 1 \in S
    <2>1. n + 1 \in 1 .. N /\ (n + 1) - 1 = n /\ n \in Nat /\ n + 1 \in 0 .. N
      BY <1>1, <1>5
    <2>2. f[n + 1] = Collapse(f[n], order[n + 1])
      BY <1>2, <2>1
    <2>3. Laid(f[n + 1], order, n + 1)
      BY <1>3, <1>5, <2>2, CollapseLaid
    <2>4. Len(f[n + 1]) = 1
      <3> DEFINE list == f[n]
      <3>1. list \in Seq(Entries)
        BY <1>5 DEF Laid
      <3>2. CASE n = 0
        <4>1. f[n + 1] = Append(<<>>, Entry(order[n + 1]))
          BY <1>2, <2>2, <3>2 DEF Collapse
        <4>2. QED
          BY <4>1
      <3>3. CASE n > 0
        <4>1. Len(list) = 1 /\ list # <<>>
          BY <1>5, <3>3
        <4>2. PICK k \in 1 .. n : Stands(list[Len(list)], order, k, n)
          <5>1. Laid(list, order, n) /\ Len(list) > 0
            BY <1>5, <4>1
          <5> HIDE DEF list
          <5>2. QED
            BY <5>1 DEF Laid
        <4>3. Continues(list[Len(list)], order[n + 1])
          <5>1. n \in 1 .. N
            BY <1>1, <2>1, <3>3
          <5>2. QED
            BY <1>1, <1>3, <1>5, <4>2, <5>1, GoesOnForADay
        <4>4. f[n + 1] = [list EXCEPT ![Len(list)] = Prolonged(@, order[n + 1])]
          BY <2>2, <4>1, <4>3 DEF Collapse
        <4>5. Len(f[n + 1]) = Len(list)
          <5> HIDE DEF list
          <5>1. Laid(f[n + 1], order, n + 1) /\ f[n + 1] \in Seq(Entries)
            BY <2>3 DEF Laid
          <5>2. DOMAIN f[n + 1] = DOMAIN list
            BY <4>4
          <5> DEFINE g == f[n + 1]
          <5>3. g \in Seq(Entries) /\ DOMAIN g = DOMAIN list
            BY <5>1, <5>2
          <5> HIDE DEF g, Entries
          <5>4. DOMAIN g = 1 .. Len(g) /\ DOMAIN list = 1 .. Len(list) /\ Len(g) \in Nat
            BY <3>1, <5>3
          <5>5. 1 .. Len(g) = 1 .. 1
            BY <4>1, <5>3, <5>4
          <5>6. Len(g) = 1
            <6>1. 1 \in 1 .. Len(g) /\ (Len(g) > 1 => Len(g) \in 1 .. 1)
              BY <5>4, <5>5
            <6>2. QED
              BY <5>4, <6>1
          <5>7. QED
            BY <4>1, <5>6 DEF g
        <4>6. QED
          BY <4>1, <4>5
      <3>4. QED
        BY <2>1, <3>2, <3>3
    <2>5. QED
      BY <2>1, <2>3, <2>4
  <1>6. 0 .. N \subseteq S
    <2> HIDE DEF S
    <2>1. QED
      BY <1>1, <1>4, <1>5, Counting
  <1>7. N \in S
    BY <1>1, <1>6
  <1>8. QED
    BY <1>2, <1>3, <1>7 DEF N

\* That one entry stands for all of them.
LEMMA OneEntryStands ==
    ASSUME NEW order, Ordered(order, Cardinality(Windows)), Cardinality(Windows) > 0,
           Uninterrupted(order, Cardinality(Windows))
    PROVE  Stands(Listed(order)[1], order, 1, Cardinality(Windows))
  <1> DEFINE N == Cardinality(Windows)
             list == Listed(order)
             e == list[1]
  <1>1. N \in Nat /\ N > 0 /\ Uninterrupted(order, N)
    BY DEF Ordered
  <1>2. Laid(list, order, N) /\ Len(list) = 1
    BY ListLaid, OneEntry
  <1> HIDE DEF N, list
  <1>3. PICK k \in 1 .. N : Stands(e, order, k, N)
    BY <1>2 DEF Laid
  <1>4. PICK i \in 1 .. Len(list) : order[1].window \in Shown(list[i])
    <2>1. 1 \in 1 .. N
      BY <1>1
    <2>2. QED
      BY <1>2, <2>1 DEF Laid
  <1>5. order[1].window \in Shown(e)
    BY <1>2, <1>4
  <1>6. PICK n \in k .. N : order[n].window = order[1].window
    BY <1>3, <1>5 DEF Stands
  <1>7. n \in 1 .. N /\ 1 \in 1 .. N
    BY <1>1
  <1>8. k = 1
    <2>1. order[n].reason = order[1].reason
      BY <1>1, <1>7 DEF Uninterrupted
    <2>2. order[n] \in [window: Window, reason: Reason] /\ order[1] \in [window: Window, reason: Reason]
      BY <1>7 DEF Ordered, N
    <2>3. order[n] = order[1]
      BY <1>6, <2>1, <2>2
    <2>4. n = 1
      BY <1>1, <1>7, <2>3 DEF Uninterrupted
    <2>5. QED
      BY <1>1, <2>4
  <1>9. QED
    BY <1>3, <1>8 DEF N, list, e

\* A closure has a row for each court and each window.
LEMMA RowsOfOne ==
    ASSUME NEW i, NEW R, NEW W, NEW r, R # {}, IsFiniteSet(R), IsFiniteSet(W),
           Upcoming = [id: {i}, room: R, window: W, reason: {r}]
    PROVE  /\ Windows = {[window |-> w, reason |-> r] : w \in W}
           /\ Cardinality(Windows) = Cardinality(W)
           /\ \A x \in Windows : CourtCount(x) = Cardinality(R)
  <1>1. PICK c \in R : TRUE
    OBVIOUS
  <1>2. Windows = {[window |-> w, reason |-> r] : w \in W}
    <2>1. ASSUME NEW w \in W
          PROVE  [window |-> w, reason |-> r] \in Windows
      <3> DEFINE e == [id |-> i, room |-> c, window |-> w, reason |-> r]
      <3>1. e \in Upcoming
        BY <1>1
      <3>2. [window |-> w, reason |-> r] = [window |-> e.window, reason |-> e.reason]
        OBVIOUS
      <3>3. QED
        BY <3>1, <3>2 DEF Windows
    <2>2. ASSUME NEW e \in Upcoming
          PROVE  e.window \in W /\ e.reason = r
      OBVIOUS
    <2>3. QED
      BY <2>1, <2>2 DEF Windows
  <1>3. Cardinality(Windows) = Cardinality(W)
    <2> DEFINE g == [w \in W |-> [window |-> w, reason |-> r]]
    <2>1. g \in Bijection(W, Windows)
      BY <1>2 DEF Bijection, Injection, Surjection, IsInjective
    <2> HIDE DEF g
    <2>2. ExistsBijection(W, Windows)
      BY <2>1 DEF ExistsBijection
    <2>3. QED
      BY <2>2, FS_Bijection
  <1>4. ASSUME NEW x \in Windows
        PROVE  CourtCount(x) = Cardinality(R)
    <2> DEFINE rows == {e \in Upcoming : e.window = x.window /\ e.reason = x.reason}
               g == [y \in R |-> [id |-> i, room |-> y, window |-> x.window, reason |-> r]]
    <2>1. x.window \in W /\ x.reason = r
      BY <1>2
    <2>2. \A y \in R : [id |-> i, room |-> y, window |-> x.window, reason |-> r] \in rows
      BY <2>1
    <2>3. ASSUME NEW e \in rows
          PROVE  e.room \in R /\ e = [id |-> i, room |-> e.room, window |-> x.window, reason |-> r]
      <3>1. e \in [id: {i}, room: R, window: W, reason: {r}] /\ e.window = x.window
        OBVIOUS
      <3>2. QED
        BY <3>1
    <2> HIDE DEF rows
    <2>4. g \in Bijection(R, rows)
      <3>1. g \in [R -> rows]
        BY <2>2
      <3>2. \A y, z \in R : g[y] = g[z] => y = z
        <4> TAKE y \in R, z \in R
        <4>1. g[y].room = y /\ g[z].room = z
          OBVIOUS
        <4>2. QED
          BY <4>1
      <3>3. \A e \in rows : \E y \in R : g[y] = e
        BY <2>3
      <3> HIDE DEF g
      <3>4. QED
        BY <3>1, <3>2, <3>3 DEF Bijection, Injection, Surjection, IsInjective
    <2> HIDE DEF g
    <2>5. ExistsBijection(R, rows)
      BY <2>4 DEF ExistsBijection
    <2>6. Cardinality(rows) = Cardinality(R)
      BY <2>5, FS_Bijection
    <2>7. QED
      BY <2>6 DEF rows, CourtCount
  <1>5. QED
    BY <1>2, <1>3, <1>4

LEMMA TwoWindows ==
    ASSUME NEW W, Enterable(W), ~ DaysByHours(W), NEW v \in W, NEW w \in W, v # w
    PROVE  \E from, to \in Nat, t \in DayHours :
              /\ from <= to /\ W = EachDay(from, to, t)
              /\ \A d \in from .. to : ~ IsAllDay(OnDay(d, t))
  <1>1. IsFiniteSet(W)
    BY EnterableWindows
  <1>2. Cardinality(W) \in Nat /\ Cardinality(W) # 0 /\ Cardinality(W) # 1
    BY <1>1, FS_CardinalityType, FS_EmptySet, FS_Singleton
  <1>3. PICK x \in W : ~ IsAllDay(x)
    BY <1>2 DEF DaysByHours
  <1>4. PICK from \in Nat, to \in Nat, t \in DayHours : from <= to /\ W = EachDay(from, to, t)
    BY DEF Enterable, AllDay
  <1>5. PICK d \in from .. to : x = OnDay(d, t)
    BY <1>4 DEF EachDay
  <1>6. \A h \in from .. to : ~ IsAllDay(OnDay(h, t))
    <2> TAKE h \in from .. to
    <2>1. OfDay(OnDay(h, t)) = OfDay(x)
      BY <1>5, HoursOfADay
    <2>2. QED
      BY <1>3, <2>1 DEF IsAllDay
  <1>7. QED
    BY <1>4, <1>6

\* Each window is that of a day, each day has one.
DayByDay(order, N, from, to, t) ==
    /\ \A i \in 1 .. N : \E d \in from .. to : order[i].window = OnDay(d, t)
    /\ \A d \in from .. to : \E i \in 1 .. N : order[i].window = OnDay(d, t)
    /\ \A i, j \in 1 .. N : order[i].window = order[j].window => i = j

\* The days of a closure follow each other in the order of their beginnings.
LEMMA DaysFollow ==
    ASSUME NEW order, NEW N, Ordered(order, N), NEW from \in Nat, NEW to \in Nat, NEW t \in DayHours,
           DayByDay(order, N, from, to, t), NEW n \in 1 .. N, n < N
    PROVE  LastDay(order[n].window) + 1 = FirstDay(order[n + 1].window)
  <1>1. N \in Nat /\ n \in Nat /\ n + 1 \in 1 .. N
    BY DEF Ordered
  <1>2. \A i \in 1 .. N : order[i].window.from \in Int
    BY DEF Ordered, Window
  <1>3. \A i, j \in 1 .. N : FirstDay(order[i].window) < FirstDay(order[j].window) => i < j
    <2> TAKE i \in 1 .. N, j \in 1 .. N
    <2>1. HAVE FirstDay(order[i].window) < FirstDay(order[j].window)
    <2>2. order[i].window.from < order[j].window.from
      BY <1>2, <2>1, DivGrows DEF FirstDay
    <2>3. j < i => order[j].window.from <= order[i].window.from
      BY DEF Ordered
    <2>4. i # j
      BY <1>2, <2>2
    <2>5. QED
      BY <1>1, <1>2, <2>2, <2>3, <2>4
  <1>4. PICK d \in from .. to : order[n].window = OnDay(d, t)
    BY DEF DayByDay
  <1>5. PICK h \in from .. to : order[n + 1].window = OnDay(h, t)
    BY <1>1 DEF DayByDay
  <1>6. d \in Nat /\ h \in Nat /\ FirstDay(order[n].window) = d /\ LastDay(order[n].window) = d
        /\ FirstDay(order[n + 1].window) = h
    BY <1>4, <1>5, HoursOfADay
  <1>7. d # h
    BY <1>1, <1>4, <1>5 DEF DayByDay
  <1>8. ~ (h < d)
    BY <1>1, <1>3, <1>6
  <1>9. ~ (d + 1 < h)
    <2>1. SUFFICES ASSUME d + 1 < h
                   PROVE  FALSE
      OBVIOUS
    <2>2. d + 1 \in from .. to /\ d + 1 \in Nat
      BY <1>6, <2>1
    <2>3. PICK q \in 1 .. N : order[q].window = OnDay(d + 1, t)
      BY <2>2 DEF DayByDay
    <2>4. FirstDay(order[q].window) = d + 1
      BY <2>2, <2>3, HoursOfADay
    <2>5. n < q /\ q < n + 1
      BY <1>1, <1>3, <1>6, <2>1, <2>4
    <2>6. QED
      BY <1>1, <2>5
  <1>10. QED
    BY <1>6, <1>7, <1>8, <1>9

LEMMA OneIsUninterrupted ==
    ASSUME NEW r, NEW W, Enterable(W), ~ DaysByHours(W),
           Windows = {[window |-> w, reason |-> r] : w \in W},
           NEW order \in Orders, Ordered(order, Cardinality(Windows)),
           \A x \in Windows : \E n \in 1 .. Cardinality(Windows) : order[n] = x
    PROVE  Uninterrupted(order, Cardinality(Windows))
  <1> DEFINE N == Cardinality(Windows)
  <1>1. \A i \in 1 .. N : order[i] \in Windows
    BY DEF Orders
  <1>2. \A i, j \in 1 .. N : i # j => order[i] # order[j]
    BY DEF Orders
  <1>3. Ordered(order, N) /\ \A x \in Windows : \E n \in 1 .. N : order[n] = x
    OBVIOUS
  <1> HIDE DEF N
  <1>4. \A i \in 1 .. N : order[i].window \in W /\ order[i] = [window |-> order[i].window, reason |-> r]
    <2> TAKE i \in 1 .. N
    <2>1. PICK w \in W : order[i] = [window |-> w, reason |-> r]
      BY <1>1
    <2>2. QED
      BY <2>1
  <1>5. \A i, j \in 1 .. N : order[i].window = order[j].window => i = j
    <2> TAKE i \in 1 .. N, j \in 1 .. N
    <2>1. HAVE order[i].window = order[j].window
    <2>2. order[i] = order[j]
      <3>1. /\ order[i] = [window |-> order[i].window, reason |-> r]
            /\ order[j] = [window |-> order[j].window, reason |-> r]
        BY <1>4
      <3>2. QED
        BY <2>1, <3>1, Zenon
    <2>3. QED
      BY <1>2, <2>2
  <1>6. \A w \in W : \E i \in 1 .. N : order[i].window = w
    <2> TAKE w \in W
    <2>1. [window |-> w, reason |-> r] \in Windows
      OBVIOUS
    <2>2. PICK i \in 1 .. N : order[i] = [window |-> w, reason |-> r]
      BY <1>3, <2>1
    <2>3. QED
      BY <2>2
  <1>7. \A i, j \in 1 .. N : order[i].reason = order[j].reason
    <2>1. ASSUME NEW i \in 1 .. N
          PROVE  order[i].reason = r
      <3>1. PICK w \in W : order[i] = [window |-> w, reason |-> r]
        BY <1>1
      <3>2. QED
        BY <3>1
    <2>2. QED
      BY <2>1
  <1>8. ASSUME NEW i \in 1 .. N, NEW j \in 1 .. N, i # j
        PROVE  /\ ~ IsAllDay(order[i].window) /\ OfDay(order[i].window) = OfDay(order[j].window)
               /\ \A n \in 1 .. N : n < N =>
                     LastDay(order[n].window) + 1 = FirstDay(order[n + 1].window)
    <2>1. order[i].window # order[j].window
      BY <1>5, <1>8
    <2>2. PICK from \in Nat, to \in Nat, t \in DayHours :
             /\ from <= to /\ W = EachDay(from, to, t)
             /\ \A d \in from .. to : ~ IsAllDay(OnDay(d, t))
      <3> DEFINE v == order[i].window
                 w == order[j].window
      <3>1. v \in W /\ w \in W /\ v # w
        BY <1>4, <2>1
      <3> HIDE DEF v, w
      <3>2. QED
        BY <3>1, TwoWindows
    <2>3. \A m \in 1 .. N : \E d \in from .. to : order[m].window = OnDay(d, t)
      BY <1>4, <2>2 DEF EachDay
    <2>4. \A d \in from .. to : \E m \in 1 .. N : order[m].window = OnDay(d, t)
      BY <1>6, <2>2 DEF EachDay
    <2>5. ~ IsAllDay(order[i].window)
      BY <2>2, <2>3
    <2>6. \A d \in from .. to : OfDay(OnDay(d, t)) = <<t.from, IF t.to = DayLength THEN 0 ELSE t.to>>
      <3> TAKE d \in from .. to
      <3>1. d \in Nat
        BY <2>2
      <3>2. QED
        BY <3>1, HoursOfADay
    <2>7. OfDay(order[i].window) = OfDay(order[j].window)
      <3>1. PICK d \in from .. to : order[i].window = OnDay(d, t)
        BY <2>3
      <3>2. PICK h \in from .. to : order[j].window = OnDay(h, t)
        BY <2>3
      <3>3. QED
        BY <2>6, <3>1, <3>2
    <2>8. \A n \in 1 .. N : n < N => LastDay(order[n].window) + 1 = FirstDay(order[n + 1].window)
      <3>1. DayByDay(order, N, from, to, t)
        BY <1>5, <2>3, <2>4 DEF DayByDay
      <3>2. QED
        BY <1>3, <3>1, DaysFollow
    <2>9. QED
      BY <2>5, <2>7, <2>8
  <1>9. \A n \in 1 .. N : n < N => LastDay(order[n].window) + 1 = FirstDay(order[n + 1].window)
    <2> TAKE n \in 1 .. N
    <2>1. HAVE n < N
    <2>2. N \in Nat /\ n + 1 \in 1 .. N /\ n # n + 1
      BY <1>3, <2>1 DEF Ordered
    <2>3. QED
      BY <1>8, <2>1, <2>2
  <1>10. \A i, j \in 1 .. N : order[i] = order[j] => i = j
    BY <1>2
  <1>11. Uninterrupted(order, N)
    BY <1>7, <1>8, <1>9, <1>10 DEF Uninterrupted
  <1>12. QED
    BY <1>11 DEF N

\* Whatever rows there are: if they are those of one closure, it is listed as one.
OneIsListed ==
    \A i, R, W, r :
       /\ TypeOK /\ CalendarInv
       /\ Upcoming = [id: {i}, room: R, window: W, reason: {r}]
       /\ R # {} /\ IsFiniteSet(R) /\ Enterable(W) /\ ~ DaysByHours(W)
       => \A order \in Orders :
             LET e == Listed(order)[1]
             IN  /\ Len(Listed(order)) = 1
                 /\ Shown(e) = W
                 /\ e.days = Cardinality(W)
                 /\ e.courts = Cardinality(R)

LEMMA OneListed == OneIsListed
  <1> SUFFICES ASSUME NEW i, NEW R, NEW W, NEW r, TypeOK, CalendarInv,
                      Upcoming = [id: {i}, room: R, window: W, reason: {r}],
                      R # {}, IsFiniteSet(R), Enterable(W), ~ DaysByHours(W),
                      NEW order \in Orders
               PROVE  LET e == Listed(order)[1]
                      IN  /\ Len(Listed(order)) = 1
                          /\ Shown(e) = W
                          /\ e.days = Cardinality(W)
                          /\ e.courts = Cardinality(R)
    BY DEF OneIsListed
  <1> DEFINE N == Cardinality(Windows)
             e == Listed(order)[1]
  <1>1. IsFiniteSet(W)
    BY EnterableWindows
  <1>2. /\ Windows = {[window |-> w, reason |-> r] : w \in W}
        /\ N = Cardinality(W)
        /\ \A x \in Windows : CourtCount(x) = Cardinality(R)
    BY <1>1, RowsOfOne
  <1>3. Ordered(order, N) /\ \A x \in Windows : \E n \in 1 .. N : order[n] = x
    BY OrdersAreOrdered
  <1>4. Uninterrupted(order, N)
    BY <1>2, <1>3, OneIsUninterrupted
  <1>5. N \in Nat /\ N > 0
    <2>1. W # {}
      <3>1. CASE \E from, to \in Nat : from <= to /\ W = AllDay(from, to)
        BY <3>1 DEF AllDay
      <3>2. CASE \E from, to \in Nat, t \in DayHours : from <= to /\ W = EachDay(from, to, t)
        <4>1. PICK from \in Nat, to \in Nat, t \in DayHours : from <= to /\ W = EachDay(from, to, t)
          BY <3>2
        <4>2. from \in from .. to
          BY <4>1
        <4>3. QED
          BY <4>1, <4>2 DEF EachDay
      <3>3. QED
        BY <3>1, <3>2 DEF Enterable
    <2>2. Cardinality(W) \in Nat /\ Cardinality(W) # 0
      BY <1>1, <2>1, FS_CardinalityType, FS_EmptySet
    <2>3. QED
      BY <1>2, <2>2
  <1>6. Len(Listed(order)) = 1 /\ Stands(e, order, 1, N)
    BY <1>3, <1>4, <1>5, OneEntry, OneEntryStands
  <1>7. \A n \in 1 .. N : order[n] \in Windows
    BY DEF Orders
  <1> HIDE DEF N, e
  <1>8. Shown(e) = W
    <2>1. Shown(e) = {order[n].window : n \in 1 .. N}
      BY <1>6 DEF Stands
    <2>2. \A n \in 1 .. N : order[n].window \in W
      BY <1>2, <1>7
    <2>3. ASSUME NEW w \in W
          PROVE  \E n \in 1 .. N : order[n].window = w
      <3>1. [window |-> w, reason |-> r] \in Windows
        BY <1>2
      <3>2. PICK n \in 1 .. N : order[n] = [window |-> w, reason |-> r]
        BY <1>3, <3>1
      <3>3. QED
        BY <3>2
    <2>4. QED
      BY <2>1, <2>2, <2>3
  <1>9. e.days = Cardinality(W)
    <2>1. e.days = N - 1 + 1
      BY <1>6 DEF Stands
    <2>2. QED
      BY <1>2, <1>5, <2>1
  <1>10. e.courts = Cardinality(R)
    BY <1>2, <1>6, <1>7 DEF Stands
  <1>11. QED
    BY <1>6, <1>8, <1>9, <1>10 DEF e

\* The hours of a day are over on the first days of a closure, if on any.
LEMMA DaysAhead ==
    ASSUME NEW n \in Nat, NEW from \in Nat, NEW to \in Nat, NEW t \in DayHours, from <= to,
           \E w \in EachDay(from, to, t) : w.to > n
    PROVE  \E first \in Nat :
              first <= to /\ {w \in EachDay(from, to, t) : w.to > n} = EachDay(first, to, t)
  <1>1. \A d \in from .. to : OnDay(d, t).to \in Nat
    BY HoursOfADay DEF Window
  <1>2. \A c, d \in from .. to : c <= d => OnDay(c, t).to <= OnDay(d, t).to
    <2> TAKE c \in from .. to, d \in from .. to
    <2>1. HAVE c <= d
    <2>2. c * DayLength <= d * DayLength /\ c * DayLength \in Int /\ d * DayLength \in Int
      BY <2>1, Times
    <2> DEFINE u == c * DayLength
               v == d * DayLength
    <2>3. u <= v /\ u \in Int /\ v \in Int /\ t.to \in Nat
      BY <2>2 DEF DayHours, Window
    <2>4. OnDay(c, t).to = u + t.to /\ OnDay(d, t).to = v + t.to
      BY DEF OnDay
    <2> HIDE DEF u, v
    <2>5. QED
      BY <2>3, <2>4
  <1> DEFINE S == {d \in from .. to : OnDay(d, t).to > n}
  <1>3. PICK x \in S : TRUE
    BY DEF EachDay
  <1>4. PICK first \in S : \A d \in S : first <= d
    <2>1. S \subseteq Nat /\ x \in S
      OBVIOUS
    <2> HIDE DEF S
    <2>2. QED
      BY <2>1, Least
  <1>5. first \in from .. to /\ OnDay(first, t).to > n
    OBVIOUS
  <1>6. \A d \in first .. to : d \in from .. to /\ OnDay(d, t).to > n
    <2> TAKE d \in first .. to
    <2>1. d \in from .. to /\ first <= d
      BY <1>5
    <2>2. OnDay(first, t).to <= OnDay(d, t).to
      BY <1>2, <1>5, <2>1
    <2>3. QED
      BY <1>1, <1>5, <2>1, <2>2
  <1>7. \A d \in from .. to : OnDay(d, t).to > n => d \in first .. to
    BY <1>4
  <1>8. {w \in EachDay(from, to, t) : w.to > n} = EachDay(first, to, t)
    BY <1>6, <1>7 DEF EachDay
  <1>9. QED
    BY <1>5, <1>8
\* What is ahead of a closure could have been entered.
LEMMA AheadIsEnterable ==
    ASSUME NEW n \in Nat, NEW W, Enterable(W), ~ DaysByHours(W),
           NEW A, A = {w \in W : w.to > n}, A # {}
    PROVE  Enterable(A) /\ ~ DaysByHours(A)
  <1>1. Enterable(A)
    <2>1. CASE \E from, to \in Nat : from <= to /\ W = AllDay(from, to)
      <3>1. A = W
        BY <2>1 DEF AllDay
      <3>2. QED
        BY <3>1
    <2>2. CASE \E from, to \in Nat, t \in DayHours : from <= to /\ W = EachDay(from, to, t)
      <3>1. PICK from \in Nat, to \in Nat, t \in DayHours : from <= to /\ W = EachDay(from, to, t)
        BY <2>2
      <3>2. \E w \in EachDay(from, to, t) : w.to > n
        BY <3>1
      <3>3. PICK first \in Nat : first <= to /\ A = EachDay(first, to, t)
        BY <3>1, <3>2, DaysAhead
      <3>4. QED
        BY <3>1, <3>3 DEF Enterable
    <2>3. QED
      BY <2>1, <2>2 DEF Enterable
  <1>2. SUFFICES ASSUME DaysByHours(A)
                 PROVE  FALSE
    BY <1>1
  <1>3. IsFiniteSet(A) /\ Cardinality(A) > 1 /\ \A w \in A : IsAllDay(w)
    BY <1>1, <1>2, EnterableWindows DEF DaysByHours
  <1>4. PICK v \in A, w \in A : v # w
    <2>1. PICK v \in A : TRUE
      OBVIOUS
    <2>2. A # {v}
      <3>1. Cardinality({v}) = 1
        BY FS_Singleton
      <3>2. QED
        BY <1>3, <3>1
    <2>3. QED
      BY <2>1, <2>2
  <1>5. v \in W /\ w \in W
    OBVIOUS
  <1>6. PICK from \in Nat, to \in Nat, t \in DayHours :
           W = EachDay(from, to, t) /\ \A d \in from .. to : ~ IsAllDay(OnDay(d, t))
    BY <1>4, <1>5, TwoWindows
  <1>7. ~ IsAllDay(v)
    BY <1>5, <1>6 DEF EachDay
  <1>8. QED
    BY <1>3, <1>7

\* What is over is not listed.
NothingIsListed ==
    Upcoming = {} => \A order \in Orders : Listed(order) = <<>>

LEMMA NothingListed == NothingIsListed
  <1> SUFFICES ASSUME Upcoming = {}, NEW order \in Orders
               PROVE  Listed(order) = <<>>
    BY DEF NothingIsListed
  <1>1. Windows = {}
    BY DEF Windows
  <1>2. Cardinality(Windows) = 0
    BY <1>1, FS_EmptySet
  <1>3. PICK f : Listed(order) = f[0] /\ f[0] = <<>>
    BY <1>2, ListGrows
  <1>4. QED
    BY <1>3

\* The first closure of a club is listed as it was entered: as one closure, of those
\* of its windows that are not over, for as many courts and days as it has, unless
\* its days are whole days that were entered by their hours, or the clocks skip one
\* of its times.
THEOREM EnteredListed == Spec => EnteredIsListed
  <1>1. OneIsListed' /\ NothingIsListed'
    BY OneListed, NothingListed, PTL
  <1>2. TypeOK /\ CalendarInv /\ TypeOK' /\ CalendarInv' /\ [Next]_vars =>
          [\A p \in Api :
              LET W == req[p].windows
              IN  CloseInsert(p) /\ closures = {} /\ Resolved(W) = W /\ ~ DaysByHours(W) =>
                  \A order \in Orders' :
                      LET e == Listed(order)[1]'
                      IN  IF Ahead(W) = {} THEN Listed(order)' = <<>>
                          ELSE /\ Len(Listed(order)') = 1
                               /\ Shown(e) = Ahead(W)
                               /\ e.days = Cardinality(Ahead(W))
                               /\ e.courts = Cardinality(req[p].rooms)]_vars
    <2> SUFFICES ASSUME TypeOK, CalendarInv, TypeOK', CalendarInv', [Next]_vars,
                        NEW p \in Api, CloseInsert(p), closures = {},
                        Resolved(req[p].windows) = req[p].windows, ~ DaysByHours(req[p].windows),
                        NEW order \in Orders'
                 PROVE  LET W == req[p].windows
                            e == Listed(order)[1]'
                        IN  IF Ahead(W) = {} THEN Listed(order)' = <<>>
                            ELSE /\ Len(Listed(order)') = 1
                                 /\ Shown(e) = Ahead(W)
                                 /\ e.days = Cardinality(Ahead(W))
                                 /\ e.courts = Cardinality(req[p].rooms)
      OBVIOUS
    <2> DEFINE R == req[p].rooms
               W == req[p].windows
               A == Ahead(W)
               r == req[p].reason
               n == entered'
    <2>1. R \subseteq Court /\ R # {} /\ Enterable(W)
      BY RequestTypes DEF CloseInsert, At, CalendarInv, ToBeEntered
    <2>2. IsFiniteSet(R)
      BY <2>1, FS_Subset, ConstantsAssumption
    <2>3. closures' = [id: {n}, room: R, window: W, reason: {r}]
      BY DEF CloseInsert
    <2>4. now' = now /\ now \in Nat
      BY DEF Next, Tick, CloseInsert, Finish, vars, TypeOK
    <2>5. A = {w \in W : w.to > now}
      BY DEF Ahead
    <2>6. Upcoming' = [id: {n}, room: R, window: A, reason: {r}]
      <3>1. Upcoming' = {e \in [id: {n}, room: R, window: W, reason: {r}] : e.window.to > now}
        BY <2>3, <2>4 DEF Upcoming
      <3> HIDE DEF R, W, A, r, n
      <3>2. QED
        BY <2>5, <3>1
    <2>7. ~ DaysByHours(W)
      OBVIOUS
    <2> HIDE DEF R, W, A, r, n
    <2>8. CASE A = {}
      <3>1. Upcoming' = {}
        BY <2>6, <2>8
      <3>2. Listed(order)' = <<>>
        BY <1>1, <3>1 DEF NothingIsListed
      <3>3. QED
        BY <2>8, <3>2 DEF A, W
    <2>9. CASE A # {}
      <3>1. Enterable(A) /\ ~ DaysByHours(A)
        BY <2>1, <2>4, <2>5, <2>7, <2>9, AheadIsEnterable
      <3>2. \A o \in Orders' :
               LET e == Listed(o)[1]'
               IN  /\ Len(Listed(o)') = 1
                   /\ Shown(e) = A
                   /\ e.days = Cardinality(A)
                   /\ e.courts = Cardinality(R)
        BY <1>1, <2>1, <2>2, <2>6, <3>1 DEF OneIsListed
      <3>3. QED
        BY <2>9, <3>2 DEF A, R, W
    <2>10. QED
      BY <2>8, <2>9
  <1>3. QED
    BY TypeCorrect, CalendarInvariance, <1>2, PTL DEF Spec, EnteredIsListed
===============================================================================
