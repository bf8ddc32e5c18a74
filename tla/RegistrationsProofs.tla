-------------------------- MODULE RegistrationsProofs --------------------------
(***************************************************************************)
(* Theorems about Registrations, for any events, sessions, players,        *)
(* capacities and finite number of handlers, with handlers dying between   *)
(* any two steps.                                                          *)
(*                                                                         *)
(* The argument.  Places of a session are taken by handlers that have      *)
(* counted them, and the count they made is out of date as soon as another *)
(* one has counted too.  What stays true is a sum: the places taken and    *)
(* the handlers about to take one are fewer than capacity and handlers     *)
(* together.  A count that succeeds adds one handler at a moment when the  *)
(* places alone are fewer than the capacity; an insert turns a handler     *)
(* into a place.  This needs that the capacity a handler has read is still *)
(* that of the session, which is because a session is made once.           *)
(*                                                                         *)
(* Where no handler was disturbed, what each has read is still so when it  *)
(* takes its last step (Undisturbed): the player's standing, and the list  *)
(* a cancellation mails.                                                   *)
(***************************************************************************)
EXTENDS RegistrationsHistory, FiniteSetTheorems, TLAPS

SessionOps == {"standing", "count", "insert", "release", "mark", "mail"}

\* Whoever works on a session works on one that was made.
OnMade ==
    \A p \in Api : req[p].op \in SessionOps /\ req[p].on \in Session => state[req[p].on] # "none"

\* The capacity a player is counted against is that of the session.
CapacityKnown ==
    \A p \in Api : req[p].op \in {"standing", "count", "insert"} /\ req[p].on \in Session
                     => req[p].cap = capacity[req[p].on]

\* The hours of a session are reserved once, and then it is made, once.
MadeOnce ==
    /\ \A s \in Session : backing[s] = "none" => state[s] = "none"
    /\ \A p \in Api : At(p, "create") => state[req[p].on] = "none" /\ backing[req[p].on] # "none"
    /\ \A p, q \in Api : At(p, "create") /\ At(q, "create") /\ req[p].on = req[q].on => p = q

GivenUp(s) == backing[s] \in {"CANCELLED", "NO_SHOW"}

\* A session is marked after its reservation was given up, which nothing takes back;
\* and its rows are not active then, unless a move overtook that.
FreedFirst ==
    /\ \A p \in Api : At(p, "mark") => GivenUp(req[p].on)
    /\ \A s \in Session : state[s] = "cancelled" => GivenUp(s)
    /\ \A s \in Session \ overtaken : GivenUp(s) => holding[s] = {}

\* Nobody has a place in a session that was not made.
FinitePlaces ==
    \A s \in Session : /\ IsFiniteSet(registered[s])
                       /\ state[s] = "none" => registered[s] = {}

IInv ==
    /\ TypeOK
    /\ OnMade /\ CapacityKnown /\ MadeOnce /\ FreedFirst /\ FinitePlaces
    /\ OversoldByRacersOnly

-----------------------------------------------------------------------------
(***************************************************************************)
(* Types.                                                                  *)
(***************************************************************************)

LEMMA RequestTypes ==
    ASSUME TypeOK, NEW p \in Api
    PROVE  /\ req[p].op \in {"standing", "count", "insert"} =>
                req[p] \in [op: {"standing", "count", "insert"}, on: Activity, user: User,
                            cap: Capacities \cup {0}]
           /\ req[p].op = "create" => req[p] \in [op: {"create"}, on: Session, cap: Capacities]
           /\ req[p].op \in {"release", "mark", "mail"} =>
                req[p] \in [op: {"release", "mark", "mail"}, on: Session, seen: SUBSET User]
           /\ req[p].op \in {"move", "noshow"} =>
                req[p] \in [op: {"move", "noshow"}, on: Session]
           /\ req[p] # Idle => req[p].op # "idle"
  BY DEF TypeOK, Requests, Idle

\* A handler takes up a request, goes on, or ends.
LEMMA BeginTypes ==
    ASSUME TypeOK, NEW p \in Api, NEW next \in Requests, Begin(p, next)
    PROVE  req' \in [Api -> Requests]
  BY DEF TypeOK, Begin

LEMMA FinishTypes ==
    ASSUME TypeOK, NEW p \in Api, Finish(p)
    PROVE  req' \in [Api -> Requests]
  BY DEF TypeOK, Finish, Requests

LEMMA ContinueTypes ==
    ASSUME TypeOK, NEW p \in Api, NEW op, Continue(p, op),
           \/ req[p].op \in {"standing", "count", "insert"} /\ op \in {"count", "insert"}
           \/ req[p].op \in {"release", "mark", "mail"} /\ op \in {"mark", "mail"}
    PROVE  req' \in [Api -> Requests]
  <1>1. [req[p] EXCEPT !.op = op] \in Requests
    BY RequestTypes DEF Requests
  <1>2. QED
    BY <1>1 DEF TypeOK, Continue

LEMMA ArriveTypes ==
    ASSUME TypeOK, NEW p \in Api, Arrive(p)
    PROVE  TypeOK'
  <1>1. ASSUME NEW e \in Event, NEW n \in Capacities, NEW ph \in Phases, NEW b \in BOOLEAN,
               CreateEvent(p, e, n, ph, b) \/ UpdateEvent(p, e, n, ph, b)
        PROVE  TypeOK'
    BY <1>1 DEF CreateEvent, UpdateEvent, Published, calendar, TypeOK, Activity
  <1>2. ASSUME NEW s \in Session, NEW n \in Capacities, ReserveSession(p, s, n)
        PROVE  TypeOK'
    <2>1. [op |-> "create", on |-> s, cap |-> n] \in Requests
      BY DEF Requests
    <2>2. req' \in [Api -> Requests]
      BY <1>2, <2>1, BeginTypes DEF ReserveSession
    <2>3. QED
      BY <1>2, <2>2 DEF ReserveSession, TypeOK
  <1>3. ASSUME NEW s \in Session, CancelRead(p, s)
        PROVE  TypeOK'
    <2>1. [op |-> "release", on |-> s, seen |-> registered[s]] \in Requests
      BY DEF Requests, TypeOK, Activity
    <2>2. req' \in [Api -> Requests]
      BY <1>3, <2>1, BeginTypes DEF CancelRead
    <2>3. QED
      BY <1>3, <2>2 DEF CancelRead, calendar, TypeOK
  <1>4. ASSUME NEW s \in Session, CalendarCancel(p, s)
        PROVE  TypeOK'
    BY <1>4 DEF CalendarCancel, Follow, TypeOK
  <1>5. ASSUME NEW a \in Activity, NEW u \in User, RegisterRead(p, a, u)
        PROVE  TypeOK'
    <2>1. ASSUME NEW op \in {"standing", "count"}
          PROVE  [op |-> op, on |-> a, user |-> u, cap |-> capacity[a]] \in Requests
      BY DEF Requests, TypeOK
    <2>2. req' \in [Api -> Requests]
      BY <1>5, <2>1, BeginTypes DEF RegisterRead
    <2>3. QED
      BY <1>5, <2>2 DEF RegisterRead, calendar, TypeOK
  <1>6. ASSUME NEW a \in Activity, NEW u \in User, Unregister(p, a, u)
        PROVE  TypeOK'
    BY <1>6 DEF Unregister, calendar, TypeOK
  <1>7. ASSUME NEW u \in User, Reinstate(p, u)
        PROVE  TypeOK'
    BY <1>7 DEF Reinstate, calendar, TypeOK
  <1>8. ASSUME NEW u \in User, NEW b \in BOOLEAN, Suspend(p, u, b)
        PROVE  TypeOK'
    BY <1>8 DEF Suspend, WithoutUpcoming, calendar, TypeOK
  <1>9. ASSUME NEW s \in Session, NoShowRead(p, s) \/ MoveRead(p, s)
        PROVE  TypeOK'
    <2>1. [op |-> "noshow", on |-> s] \in Requests /\ [op |-> "move", on |-> s] \in Requests
      BY DEF Requests
    <2>2. req' \in [Api -> Requests]
      BY <1>9, <2>1, BeginTypes DEF NoShowRead, MoveRead
    <2>3. QED
      BY <1>9, <2>2 DEF NoShowRead, MoveRead, calendar, TypeOK
  <1>10. QED
    BY <1>1, <1>2, <1>3, <1>4, <1>5, <1>6, <1>7, <1>8, <1>9 DEF Arrive

LEMMA ProceedTypes ==
    ASSUME TypeOK, NEW p \in Api, Proceed(p)
    PROVE  TypeOK'
  <1>1. CASE CreateSession(p)
    <2>1. req[p].on \in Session /\ req[p].cap \in Capacities
      BY <1>1, RequestTypes DEF CreateSession, At
    <2>2. req' \in [Api -> Requests]
      BY <1>1, FinishTypes DEF CreateSession
    <2>3. QED
      BY <1>1, <2>1, <2>2 DEF CreateSession, calendar, TypeOK
  <1>2. CASE ReleaseBacking(p)
    <2>1. req[p].op = "release"
      BY <1>2 DEF ReleaseBacking, At
    <2>2. req' \in [Api -> Requests]
      BY <1>2, <2>1, ContinueTypes DEF ReleaseBacking
    <2>3. QED
      BY <1>2, <2>2 DEF ReleaseBacking, Free, Follow, TypeOK
  <1>3. CASE MarkCancelled(p)
    <2>1. req[p].op = "mark"
      BY <1>3 DEF MarkCancelled, At
    <2>2. req' \in [Api -> Requests]
      BY <1>3, <2>1, ContinueTypes DEF MarkCancelled
    <2>3. QED
      BY <1>3, <2>2 DEF MarkCancelled, calendar, TypeOK
  <1>4. CASE MailRegistrants(p)
    <2>1. req[p].on \in Session /\ req[p].seen \subseteq User
      BY <1>4, RequestTypes DEF MailRegistrants, At
    <2>2. req' \in [Api -> Requests]
      BY <1>4, FinishTypes DEF MailRegistrants
    <2>3. QED
      BY <1>4, <2>1, <2>2 DEF MailRegistrants, calendar, TypeOK
  <1>5. CASE CheckStanding(p)
    <2>1. req[p].op = "standing"
      BY <1>5 DEF CheckStanding, At
    <2>2. req' \in [Api -> Requests]
      BY <1>5, <2>1, ContinueTypes, FinishTypes DEF CheckStanding
    <2>3. QED
      BY <1>5, <2>2 DEF CheckStanding, calendar, TypeOK
  <1>6. CASE CountRegistrations(p)
    <2>1. req[p].op = "count"
      BY <1>6 DEF CountRegistrations, At
    <2>2. req' \in [Api -> Requests]
      BY <1>6, <2>1, ContinueTypes, FinishTypes DEF CountRegistrations
    <2>3. QED
      BY <1>6, <2>2 DEF CountRegistrations, calendar, TypeOK
  <1>7. CASE InsertRegistration(p)
    <2>1. req[p].on \in Activity /\ req[p].user \in User
      BY <1>7, RequestTypes DEF InsertRegistration, At
    <2>2. req' \in [Api -> Requests]
      BY <1>7, FinishTypes DEF InsertRegistration
    <2>3. QED
      BY <1>7, <2>1, <2>2 DEF InsertRegistration, calendar, TypeOK
  <1>8. CASE NoShowCommit(p) \/ MoveCommit(p) \/ MoveRefused(p)
    <2>1. req[p].on \in Session
      BY <1>8, RequestTypes DEF NoShowCommit, MoveCommit, MoveRefused, At
    <2>2. req' \in [Api -> Requests]
      BY <1>8, FinishTypes DEF NoShowCommit, MoveCommit, MoveRefused
    <2>3. QED
      BY <1>8, <2>1, <2>2 DEF NoShowCommit, MoveCommit, MoveRefused, Follow, calendar, TypeOK
  <1>9. QED
    BY <1>1, <1>2, <1>3, <1>4, <1>5, <1>6, <1>7, <1>8 DEF Proceed

LEMMA NextTypes ==
    ASSUME TypeOK, [Next]_vars
    PROVE  TypeOK'
  <1>1. CASE \E p \in Api : Arrive(p) \/ Proceed(p)
    BY <1>1, ArriveTypes, ProceedTypes
  <1>2. ASSUME NEW p \in Api, Crash(p)
        PROVE  TypeOK'
    <2>1. req' \in [Api -> Requests]
      BY <1>2, FinishTypes DEF Crash
    <2>2. QED
      BY <1>2, <2>1 DEF Crash, calendar, TypeOK
  <1>3. ASSUME NEW a \in Activity, Pass(a)
        PROVE  TypeOK'
    BY <1>3 DEF Pass, Phases, calendar, TypeOK
  <1>4. CASE UNCHANGED vars
    BY <1>4 DEF vars, calendar, TypeOK
  <1>5. QED
    BY <1>1, <1>2, <1>3, <1>4 DEF Next

\* Every variable keeps its type.
THEOREM TypeCorrect == Spec => []TypeOK
  <1>1. Init => TypeOK
    BY DEF Init, TypeOK, Phases, Requests, Idle
  <1>2. TypeOK /\ [Next]_vars => TypeOK'
    BY NextTypes
  <1>3. QED
    BY <1>1, <1>2, PTL DEF Spec

-----------------------------------------------------------------------------
(***************************************************************************)
(* Sessions are made once and freed before they are cancelled.             *)
(***************************************************************************)

Order == OnMade /\ CapacityKnown /\ MadeOnce /\ FreedFirst

LEMMA ArriveOrder ==
    ASSUME TypeOK, Order, NEW p \in Api, Arrive(p)
    PROVE  Order'
  <1> USE DEF Order, OnMade, CapacityKnown, MadeOnce, FreedFirst, GivenUp, calendar, At,
              SessionOps, TypeOK, Activity
  <1>1. ASSUME NEW e \in Event, NEW n \in Capacities, NEW ph \in Phases, NEW b \in BOOLEAN,
               CreateEvent(p, e, n, ph, b) \/ UpdateEvent(p, e, n, ph, b)
        PROVE  Order'
    <2>1. \A s \in Session : state'[s] = state[s] /\ capacity'[s] = capacity[s]
      BY <1>1, ConstantsAssumption DEF CreateEvent, UpdateEvent
    <2>2. UNCHANGED <<calendar, req>>
      BY <1>1 DEF CreateEvent, UpdateEvent
    <2>3. \A q \in Api : req[q].op \in {"create", "mark"} => req[q].on \in Session
      BY RequestTypes
    <2>4. QED
      BY <2>1, <2>2, <2>3
  <1>2. ASSUME NEW s \in Session, NEW n \in Capacities, ReserveSession(p, s, n)
        PROVE  Order'
    BY <1>2, ConstantsAssumption DEF ReserveSession, Begin
  <1>3. ASSUME NEW s \in Session, CancelRead(p, s)
        PROVE  Order'
    BY <1>3, ConstantsAssumption DEF CancelRead, Begin
  <1>4. ASSUME NEW s \in Session, CalendarCancel(p, s)
        PROVE  Order'
    BY <1>4, ConstantsAssumption DEF CalendarCancel, Follow
  <1>5. ASSUME NEW a \in Activity, NEW u \in User, RegisterRead(p, a, u)
        PROVE  Order'
    BY <1>5, ConstantsAssumption DEF RegisterRead, Begin, Takes
  <1>6. ASSUME NEW a \in Activity, NEW u \in User, Unregister(p, a, u)
        PROVE  Order'
    BY <1>6, ConstantsAssumption DEF Unregister
  <1>7. ASSUME NEW u \in User, Reinstate(p, u)
        PROVE  Order'
    BY <1>7, ConstantsAssumption DEF Reinstate
  <1>8. ASSUME NEW u \in User, NEW b \in BOOLEAN, Suspend(p, u, b)
        PROVE  Order'
    BY <1>8, ConstantsAssumption DEF Suspend, WithoutUpcoming
  <1>9. ASSUME NEW s \in Session, NoShowRead(p, s) \/ MoveRead(p, s)
        PROVE  Order'
    BY <1>9, ConstantsAssumption DEF NoShowRead, MoveRead, Begin
  <1>10. QED
    BY <1>1, <1>2, <1>3, <1>4, <1>5, <1>6, <1>7, <1>8, <1>9 DEF Arrive

LEMMA ProceedOrder ==
    ASSUME TypeOK, Order, NEW p \in Api, Proceed(p)
    PROVE  Order'
  <1> USE RequestTypes
  <1> USE DEF Order, OnMade, CapacityKnown, MadeOnce, FreedFirst, GivenUp, calendar, At,
              SessionOps, TypeOK, Activity, Continue, Finish, Idle
  <1>1. CASE CreateSession(p)
    BY <1>1 DEF CreateSession
  <1>2. CASE ReleaseBacking(p)
    BY <1>2 DEF ReleaseBacking, Free, Follow
  <1>3. CASE MarkCancelled(p)
    BY <1>3 DEF MarkCancelled
  <1>4. CASE MailRegistrants(p)
    BY <1>4 DEF MailRegistrants
  <1>5. CASE CheckStanding(p)
    BY <1>5 DEF CheckStanding
  <1>6. CASE CountRegistrations(p)
    BY <1>6 DEF CountRegistrations
  <1>7. CASE InsertRegistration(p)
    BY <1>7 DEF InsertRegistration
  <1>8. CASE NoShowCommit(p)
    BY <1>8 DEF NoShowCommit, Follow
  <1>9. CASE MoveCommit(p) \/ MoveRefused(p)
    BY <1>9 DEF MoveCommit, MoveRefused
  <1>10. QED
    BY <1>1, <1>2, <1>3, <1>4, <1>5, <1>6, <1>7, <1>8, <1>9 DEF Proceed

LEMMA NextOrder ==
    ASSUME TypeOK, Order, [Next]_vars
    PROVE  Order'
  <1> USE DEF Order, OnMade, CapacityKnown, MadeOnce, FreedFirst, GivenUp, calendar, At,
              SessionOps, TypeOK
  <1>1. CASE \E p \in Api : Arrive(p) \/ Proceed(p)
    BY <1>1, ArriveOrder, ProceedOrder
  <1>2. ASSUME NEW p \in Api, Crash(p)
        PROVE  Order'
    BY <1>2 DEF Crash, Finish, Idle
  <1>3. ASSUME NEW a \in Activity, Pass(a)
        PROVE  Order'
    BY <1>3 DEF Pass
  <1>4. CASE UNCHANGED vars
    BY <1>4 DEF vars
  <1>5. QED
    BY <1>1, <1>2, <1>3, <1>4 DEF Next

-----------------------------------------------------------------------------
(***************************************************************************)
(* Places and the handlers that are about to take one.                     *)
(***************************************************************************)

Places == FinitePlaces /\ OversoldByRacersOnly

\* The places of a session, and the handlers about to take one, can be counted.
LEMMA Countable ==
    ASSUME FinitePlaces, NEW s \in Session
    PROVE  /\ IsFiniteSet(registered[s]) /\ Cardinality(registered[s]) \in Nat
           /\ IsFiniteSet(Inserting(s)) /\ Cardinality(Inserting(s)) \in Nat
           /\ Cardinality(Inserting(s)) <= Cardinality(Api)
           /\ Cardinality(Api) \in Nat
  <1>1. IsFiniteSet(Api) /\ Inserting(s) \in SUBSET Api
    BY ConstantsAssumption DEF Inserting
  <1>2. QED
    BY <1>1, FS_Subset, FS_CardinalityType DEF FinitePlaces

LEMMA CapacityType ==
    ASSUME TypeOK, NEW s \in Session
    PROVE  capacity[s] \in Nat
  <1>1. capacity[s] \in Capacities \cup {0}
    BY DEF TypeOK, Activity
  <1>2. \A n \in Capacities : n \in Nat
    BY ConstantsAssumption
  <1>3. QED
    BY <1>1, <1>2

\* A session on which nobody takes a place, and nobody is about to that was not
\* before.
LEMMA FewerPlaces ==
    ASSUME TypeOK, Places, NEW s \in Session,
           registered'[s] \in SUBSET registered[s], Inserting(s)' \in SUBSET Inserting(s),
           capacity'[s] = capacity[s]
    PROVE  /\ IsFiniteSet(registered'[s])
           /\ Cardinality(registered'[s]) + Cardinality(Inserting(s)')
                < capacity'[s] + Cardinality(Api)
  <1>1. /\ Cardinality(registered[s]) \in Nat /\ Cardinality(Inserting(s)) \in Nat
        /\ IsFiniteSet(registered[s]) /\ IsFiniteSet(Inserting(s)) /\ Cardinality(Api) \in Nat
    BY Countable DEF Places
  <1>2. /\ IsFiniteSet(registered'[s]) /\ Cardinality(registered'[s]) \in Nat
        /\ Cardinality(registered'[s]) <= Cardinality(registered[s])
    BY <1>1, FS_Subset, FS_CardinalityType
  <1>3. /\ Cardinality(Inserting(s)') \in Nat
        /\ Cardinality(Inserting(s)') <= Cardinality(Inserting(s))
    BY <1>1, FS_Subset, FS_CardinalityType
  <1>4. capacity[s] \in Nat
    BY CapacityType
  <1>5. QED
    BY <1>1, <1>2, <1>3, <1>4 DEF Places, OversoldByRacersOnly

\* A step that leaves every session so.
KeepsPlaces ==
    \A s \in Session : /\ registered'[s] \in SUBSET registered[s]
                       /\ Inserting(s)' \in SUBSET Inserting(s)
                       /\ capacity'[s] = capacity[s]
                       /\ state'[s] = "none" => state[s] = "none"

LEMMA NoNewPlaces ==
    ASSUME TypeOK, Places, KeepsPlaces
    PROVE  Places'
  <1>1. ASSUME NEW s \in Session
        PROVE  /\ IsFiniteSet(registered'[s])
               /\ Cardinality(registered'[s]) + Cardinality(Inserting(s)')
                    < capacity'[s] + Cardinality(Api)
               /\ state'[s] = "none" => registered'[s] = {}
    BY FewerPlaces DEF Places, FinitePlaces, KeepsPlaces
  <1>2. QED
    BY <1>1 DEF Places, FinitePlaces, OversoldByRacersOnly

LEMMA ArrivePlaces ==
    ASSUME TypeOK, Places, NEW p \in Api, Arrive(p)
    PROVE  Places'
  <1> USE DEF KeepsPlaces, Inserting, At, TypeOK, Activity
  <1>1. ASSUME NEW e \in Event, NEW n \in Capacities, NEW ph \in Phases, NEW b \in BOOLEAN,
               CreateEvent(p, e, n, ph, b) \/ UpdateEvent(p, e, n, ph, b)
        PROVE  KeepsPlaces
    BY <1>1, ConstantsAssumption DEF CreateEvent, UpdateEvent, Published
  <1>2. ASSUME NEW s \in Session, NEW n \in Capacities, ReserveSession(p, s, n)
        PROVE  KeepsPlaces
    BY <1>2, ConstantsAssumption DEF ReserveSession, Begin
  <1>3. ASSUME NEW s \in Session, CancelRead(p, s)
        PROVE  KeepsPlaces
    BY <1>3, ConstantsAssumption DEF CancelRead, Begin
  <1>4. ASSUME NEW s \in Session, CalendarCancel(p, s)
        PROVE  KeepsPlaces
    BY <1>4, ConstantsAssumption DEF CalendarCancel
  <1>5. ASSUME NEW a \in Activity, NEW u \in User, RegisterRead(p, a, u)
        PROVE  KeepsPlaces
    BY <1>5, ConstantsAssumption DEF RegisterRead, Begin
  <1>6. ASSUME NEW a \in Activity, NEW u \in User, Unregister(p, a, u)
        PROVE  KeepsPlaces
    BY <1>6, ConstantsAssumption DEF Unregister
  <1>7. ASSUME NEW u \in User, Reinstate(p, u)
        PROVE  KeepsPlaces
    BY <1>7, ConstantsAssumption DEF Reinstate
  <1>8. ASSUME NEW u \in User, NEW b \in BOOLEAN, Suspend(p, u, b)
        PROVE  KeepsPlaces
    BY <1>8, ConstantsAssumption DEF Suspend, WithoutUpcoming
  <1>9. ASSUME NEW s \in Session, NoShowRead(p, s) \/ MoveRead(p, s)
        PROVE  KeepsPlaces
    BY <1>9, ConstantsAssumption DEF NoShowRead, MoveRead, Begin
  <1>10. KeepsPlaces
    BY <1>1, <1>2, <1>3, <1>4, <1>5, <1>6, <1>7, <1>8, <1>9 DEF Arrive
  <1>11. QED
    BY <1>10, NoNewPlaces

\* The session is made: it has no place taken, and nobody is about to take one.
LEMMA CreatePlaces ==
    ASSUME TypeOK, Order, Places, NEW p \in Api, CreateSession(p)
    PROVE  Places'
  <1>0. req[p].on \in Session /\ req[p].cap \in Capacities /\ At(p, "create")
    BY RequestTypes DEF CreateSession, At
  <1> PICK made \in Session : made = req[p].on
    BY <1>0
  <1>1. req[p].on = made /\ req[p].cap \in Capacities /\ At(p, "create")
    BY <1>0
  <1>2. \A s \in Session : registered'[s] = registered[s] /\ Inserting(s)' \in SUBSET Inserting(s)
    BY DEF CreateSession, Finish, Idle, Inserting, At, TypeOK
  <1>3. \A s \in Session \ {made} : capacity'[s] = capacity[s] /\ state'[s] = state[s]
    BY DEF CreateSession, TypeOK, Activity
  <1>4. /\ IsFiniteSet(registered'[made])
        /\ Cardinality(registered'[made]) + Cardinality(Inserting(made)')
             < capacity'[made] + Cardinality(Api)
        /\ state'[made] # "none"
    <2>1. state[made] = "none" /\ state'[made] = "open" /\ capacity'[made] = req[p].cap
      BY <1>1 DEF CreateSession, Order, MadeOnce, TypeOK, Activity
    <2>2. registered'[made] = {}
      BY <1>2, <2>1 DEF Places, FinitePlaces
    <2>3. Inserting(made) = {}
      BY <2>1 DEF Order, OnMade, SessionOps, Inserting, At
    <2>4. Inserting(made)' = {}
      BY <1>2, <2>3
    <2>5. capacity'[made] \in Nat \ {0} /\ Cardinality(Api) \in Nat
      BY <1>1, <2>1, ConstantsAssumption, FS_CardinalityType
    <2>6. QED
      BY <2>1, <2>2, <2>4, <2>5, FS_EmptySet
  <1>5. ASSUME NEW s \in Session
        PROVE  /\ IsFiniteSet(registered'[s])
               /\ Cardinality(registered'[s]) + Cardinality(Inserting(s)')
                    < capacity'[s] + Cardinality(Api)
               /\ state'[s] = "none" => registered'[s] = {}
    <2>1. CASE s = made
      BY <1>4, <2>1
    <2>2. CASE s # made
      BY <1>2, <1>3, <2>2, FewerPlaces DEF Places, FinitePlaces
    <2>3. QED
      BY <2>1, <2>2
  <1>6. QED
    BY <1>5 DEF Places, FinitePlaces, OversoldByRacersOnly

\* A handler has counted: there are fewer places taken than there are, and no more
\* handlers about to take one than there are handlers.
LEMMA CountPlaces ==
    ASSUME TypeOK, Order, Places, NEW p \in Api, CountRegistrations(p)
    PROVE  Places'
  <1> DEFINE on == req[p].on
  <1>1. UNCHANGED <<state, capacity, registered>> /\ At(p, "count")
    BY DEF CountRegistrations
  <1>2. CASE Full(on, req[p].cap)
    <2>1. \A s \in Session : Inserting(s)' \in SUBSET Inserting(s)
      BY <1>2 DEF CountRegistrations, Finish, Idle, Inserting, At, TypeOK
    <2>2. QED
      BY <1>1, <2>1, NoNewPlaces DEF KeepsPlaces
  <1>3. CASE ~ Full(on, req[p].cap)
    <2>1. Continue(p, "insert")
      BY <1>3 DEF CountRegistrations
    <2>2. ASSUME NEW s \in Session
          PROVE  Cardinality(registered'[s]) + Cardinality(Inserting(s)')
                   < capacity'[s] + Cardinality(Api)
      <3>1. CASE s = on
        <4>1. req[p].cap = capacity[s] /\ capacity[s] \in Nat
          BY <1>1, <3>1, CapacityType DEF Order, CapacityKnown, At
        <4>2. Cardinality(registered[s]) \in Nat /\ Cardinality(registered[s]) < capacity[s]
          BY <1>3, <3>1, <4>1, Countable DEF Full, Places
        <4>3. Inserting(s)' \in SUBSET Api /\ IsFiniteSet(Api)
          BY ConstantsAssumption DEF Inserting
        <4>4. /\ Cardinality(Inserting(s)') \in Nat /\ Cardinality(Api) \in Nat
              /\ Cardinality(Inserting(s)') <= Cardinality(Api)
          BY <4>3, FS_Subset, FS_CardinalityType
        <4>5. QED
          BY <1>1, <4>1, <4>2, <4>4
      <3>2. CASE s # on
        <4>1. Inserting(s)' \in SUBSET Inserting(s)
          BY <2>1, <3>2 DEF Continue, Inserting, At, TypeOK
        <4>2. QED
          BY <1>1, <4>1, FewerPlaces
      <3>3. QED
        BY <3>1, <3>2
    <2>3. QED
      BY <1>1, <2>2 DEF Places, FinitePlaces, OversoldByRacersOnly
  <1>4. QED
    BY <1>2, <1>3

\* A handler that was about to take a place has it.
LEMMA InsertPlaces ==
    ASSUME TypeOK, Order, Places, NEW p \in Api, InsertRegistration(p)
    PROVE  Places'
  <1> DEFINE on == req[p].on
             user == req[p].user
  <1>1. UNCHANGED <<state, capacity>> /\ At(p, "insert")
    BY DEF InsertRegistration
  <1>2. ASSUME NEW s \in Session
        PROVE  /\ IsFiniteSet(registered'[s])
               /\ Cardinality(registered'[s]) + Cardinality(Inserting(s)')
                    < capacity'[s] + Cardinality(Api)
               /\ state'[s] = "none" => registered'[s] = {}
    <2>1. CASE s = on
      <3>1. registered'[s] = registered[s] \cup {user}
        BY <2>1 DEF InsertRegistration, TypeOK, Activity
      <3>2. p \in Inserting(s) /\ Inserting(s)' = Inserting(s) \ {p}
        BY <1>1, <2>1 DEF InsertRegistration, Finish, Idle, Inserting, At, TypeOK
      <3>3. /\ IsFiniteSet(registered[s]) /\ Cardinality(registered[s]) \in Nat
            /\ IsFiniteSet(Inserting(s)) /\ Cardinality(Inserting(s)) \in Nat
            /\ Cardinality(Api) \in Nat /\ capacity[s] \in Nat
        BY Countable, CapacityType DEF Places
      <3>4. /\ IsFiniteSet(registered'[s]) /\ Cardinality(registered'[s]) \in Nat
            /\ Cardinality(registered'[s]) <= Cardinality(registered[s]) + 1
        <4>1. /\ IsFiniteSet(registered[s] \cup {user})
              /\ \/ Cardinality(registered[s] \cup {user}) = Cardinality(registered[s])
                 \/ Cardinality(registered[s] \cup {user}) = Cardinality(registered[s]) + 1
          BY <3>3, FS_AddElement
        <4>2. QED
          BY <3>1, <3>3, <4>1
      <3>5. Cardinality(Inserting(s)') = Cardinality(Inserting(s)) - 1
        BY <3>2, <3>3, FS_RemoveElement
      <3>6. state'[s] # "none"
        BY <1>1, <2>1 DEF Order, OnMade, SessionOps, At
      <3>7. QED
        BY <1>1, <3>3, <3>4, <3>5, <3>6 DEF Places, OversoldByRacersOnly
    <2>2. CASE s # on
      <3>1. registered'[s] = registered[s] /\ Inserting(s)' \in SUBSET Inserting(s)
        BY <2>2 DEF InsertRegistration, Finish, Idle, Inserting, At, TypeOK, Activity
      <3>2. QED
        BY <1>1, <3>1, FewerPlaces DEF Places, FinitePlaces
    <2>3. QED
      BY <2>1, <2>2
  <1>3. QED
    BY <1>2 DEF Places, FinitePlaces, OversoldByRacersOnly

LEMMA ProceedPlaces ==
    ASSUME TypeOK, Order, Places, NEW p \in Api, Proceed(p)
    PROVE  Places'
  <1> USE DEF KeepsPlaces, Inserting, At, TypeOK, Activity, Continue, Finish, Idle
  <1>1. CASE ReleaseBacking(p)
    BY <1>1, NoNewPlaces DEF ReleaseBacking
  <1>2. CASE MarkCancelled(p)
    BY <1>2, NoNewPlaces DEF MarkCancelled
  <1>3. CASE MailRegistrants(p)
    BY <1>3, NoNewPlaces DEF MailRegistrants
  <1>4. CASE CheckStanding(p)
    <2>1. \E op \in {"count", "idle"} :
             req'[p].op = op /\ \A q \in Api \ {p} : req'[q] = req[q]
      BY <1>4, RequestTypes DEF CheckStanding
    <2>2. UNCHANGED <<state, capacity, registered>>
      BY <1>4 DEF CheckStanding
    <2>3. KeepsPlaces
      BY <2>1, <2>2
    <2>4. QED
      BY <2>3, NoNewPlaces
  <1>5. CASE NoShowCommit(p) \/ MoveCommit(p) \/ MoveRefused(p)
    BY <1>5, NoNewPlaces DEF NoShowCommit, MoveCommit, MoveRefused
  <1>6. QED
    BY <1>1, <1>2, <1>3, <1>4, <1>5, CreatePlaces, CountPlaces, InsertPlaces DEF Proceed

LEMMA NextPlaces ==
    ASSUME TypeOK, Order, Places, [Next]_vars
    PROVE  Places'
  <1>1. CASE \E p \in Api : Arrive(p) \/ Proceed(p)
    BY <1>1, ArrivePlaces, ProceedPlaces
  <1>2. ASSUME NEW p \in Api, Crash(p)
        PROVE  Places'
    <2>1. \A s \in Session : Inserting(s)' \in SUBSET Inserting(s)
      BY <1>2 DEF Crash, Finish, Idle, Inserting, At, TypeOK
    <2>2. QED
      BY <1>2, <2>1, NoNewPlaces DEF Crash, KeepsPlaces
  <1>3. ASSUME NEW a \in Activity, Pass(a)
        PROVE  Places'
    <2>1. \A s \in Session : Inserting(s)' = Inserting(s)
      BY <1>3 DEF Pass, Inserting, At
    <2>2. QED
      BY <1>3, <2>1, NoNewPlaces DEF Pass, KeepsPlaces
  <1>4. CASE UNCHANGED vars
    <2>1. \A s \in Session : Inserting(s)' = Inserting(s)
      BY <1>4 DEF vars, Inserting, At
    <2>2. QED
      BY <1>4, <2>1, NoNewPlaces DEF vars, KeepsPlaces
  <1>5. QED
    BY <1>1, <1>2, <1>3, <1>4 DEF Next

-----------------------------------------------------------------------------
(***************************************************************************)
(* The theorems.                                                           *)
(***************************************************************************)

LEMMA Start == Init => IInv
  <1> SUFFICES ASSUME Init
               PROVE  IInv
    OBVIOUS
  <1>1. TypeOK
    BY DEF Init, TypeOK, Phases, Requests, Idle
  <1>2. Order
    BY DEF Init, Order, OnMade, CapacityKnown, MadeOnce, FreedFirst, GivenUp, calendar, At,
           SessionOps, Idle, Activity
  <1>3. FinitePlaces
    BY FS_EmptySet DEF Init, FinitePlaces, Activity
  <1>4. OversoldByRacersOnly
    <2>1. \A s \in Session : Inserting(s) = {} /\ registered[s] = {} /\ capacity[s] = 0
      BY DEF Init, Inserting, At, Idle, Activity
    <2>2. Cardinality(Api) \in Nat \ {0}
      BY ConstantsAssumption, FS_CardinalityType, FS_EmptySet
    <2>3. QED
      BY <2>1, <2>2, FS_EmptySet DEF OversoldByRacersOnly
  <1>5. QED
    BY <1>1, <1>2, <1>3, <1>4 DEF IInv, Order

LEMMA Inductive == IInv /\ [Next]_vars => IInv'
  BY NextTypes, NextOrder, NextPlaces DEF IInv, Order, Places

LEMMA Invariance == Spec => []IInv
  BY Start, Inductive, PTL DEF Spec

\* A cancelled session holds neither coach nor court, wherever the handler that
\* cancelled it died, and whatever staff did to its reservation in the calendar,
\* unless a move overtook the cancellation: the reservation is given up before the
\* session is marked, and a session is made once.
THEOREM CancelledIsFree == Spec => []CancelledHoldsNothing
  <1>1. IInv => CancelledHoldsNothing
    BY DEF IInv, FreedFirst, CancelledHoldsNothing
  <1>2. QED
    BY <1>1, Invariance, PTL

\* A session is oversold by no more than the handlers that race each other, less
\* one, with any capacities and any number of players.
THEOREM OversoldByRacers == Spec => []OversoldByRacersOnly
  <1>1. IInv => OversoldByRacersOnly
    BY DEF IInv
  <1>2. QED
    BY <1>1, Invariance, PTL

-----------------------------------------------------------------------------
(***************************************************************************)
(* Sessions on which no handler was disturbed.                             *)
(***************************************************************************)

\* The standing a player was found in is the one he is in.
StandingKept ==
    \A p \in Api : req[p].op \in {"count", "insert"} /\ req[p].on \in Session \ disturbed
                     => req[p].user \notin suspended

\* The list a cancellation has read is the list.
ListKept ==
    \A p \in Api : req[p].op \in {"release", "mark", "mail"} /\ req[p].on \in Session \ disturbed
                     => registered[req[p].on] = req[p].seen

\* Nobody is about to join a cancelled session.
NobodyJoins ==
    \A p \in Api : req[p].op \in {"standing", "count", "insert"} /\ req[p].on \in Session \ disturbed
                     => state[req[p].on] # "cancelled"

\* A cancelled session has told its players or is about to.
ToldOrMailing ==
    \A s \in Session \ disturbed :
        state[s] = "cancelled" =>
            \/ registered[s] \subseteq told[s]
            \/ \E p \in Api : At(p, "mail") /\ req[p].on = s

Undisturbed == StandingKept /\ ListKept /\ NobodyJoins /\ ToldOrMailing

WInv == TypeOK /\ Order /\ Undisturbed

\* What a handler works on is what it left, where nobody disturbed it.
LEMMA Left ==
    ASSUME NEW p \in Api, OnActivity(p), req'[p] = req[p],
           disturbed' = disturbed \cup DisturbedByOthers, req[p].on \notin disturbed'
    PROVE  /\ state'[req[p].on] = state[req[p].on]
           /\ registered'[req[p].on] = registered[req[p].on]
           /\ suspended' = suspended
  BY DEF DisturbedByOthers, Changed

\* Handlers that wait keep what they know.
LEMMA WaitersKept ==
    ASSUME TypeOK, Undisturbed, disturbed' = disturbed \cup DisturbedByOthers,
           NEW p \in Api, req'[p] = req[p]
    PROVE  /\ req'[p].op \in {"count", "insert"} /\ req'[p].on \in Session \ disturbed'
                => req'[p].user \notin suspended'
           /\ req'[p].op \in {"release", "mark", "mail"} /\ req'[p].on \in Session \ disturbed'
                => registered'[req'[p].on] = req'[p].seen
           /\ req'[p].op \in {"standing", "count", "insert"} /\ req'[p].on \in Session \ disturbed'
                => state'[req'[p].on] # "cancelled"
  <1>1. CASE ~ OnActivity(p)
    BY <1>1 DEF OnActivity
  <1>2. CASE OnActivity(p) /\ req[p].on \notin disturbed'
    <2>1. /\ state'[req[p].on] = state[req[p].on]
          /\ registered'[req[p].on] = registered[req[p].on]
          /\ suspended' = suspended
      BY <1>2, Left
    <2>2. req[p].on \notin disturbed
      BY <1>2
    <2>3. QED
      BY <2>1, <2>2 DEF Undisturbed, StandingKept, ListKept, NobodyJoins
  <1>3. QED
    BY <1>1, <1>2

\* Requests that arrive.
LEMMA ArriveReq ==
    ASSUME TypeOK, NEW p \in Api, Arrive(p)
    PROVE  /\ \A q \in Api \ {p} : req'[q] = req[q]
           /\ told' = told
           /\ req[p] = Idle
           /\ \/ req' = req
              \/ req'[p].op = "create" /\ UNCHANGED <<state, registered>>
              \/ req'[p].op \in {"move", "noshow"} /\ UNCHANGED <<state, registered>>
              \/ /\ req'[p].op = "release"
                 /\ req'[p].on \in Session => registered[req'[p].on] = req'[p].seen
                 /\ UNCHANGED <<state, registered>>
              \/ /\ req'[p].op \in {"standing", "count"} /\ state[req'[p].on] # "cancelled"
                 /\ req'[p].op = "count" => req'[p].on \notin Session
                 /\ UNCHANGED <<state, registered>>
  <1> USE DEF TypeOK, Begin
  <1>1. ASSUME NEW e \in Event, NEW n \in Capacities, NEW ph \in Phases, NEW b \in BOOLEAN,
               CreateEvent(p, e, n, ph, b) \/ UpdateEvent(p, e, n, ph, b)
        PROVE  req' = req /\ told' = told /\ req[p] = Idle
    BY <1>1 DEF CreateEvent, UpdateEvent
  <1>2. ASSUME NEW s \in Session, NEW n \in Capacities, ReserveSession(p, s, n)
        PROVE  /\ \A q \in Api \ {p} : req'[q] = req[q]
               /\ told' = told /\ req[p] = Idle /\ req'[p].op = "create"
               /\ UNCHANGED <<state, registered>>
    BY <1>2 DEF ReserveSession
  <1>3. ASSUME NEW s \in Session, CancelRead(p, s)
        PROVE  /\ \A q \in Api \ {p} : req'[q] = req[q]
               /\ told' = told /\ req[p] = Idle /\ req'[p].op = "release"
               /\ registered[req'[p].on] = req'[p].seen
               /\ UNCHANGED <<state, registered>>
    BY <1>3 DEF CancelRead
  <1>4. ASSUME NEW s \in Session, CalendarCancel(p, s)
        PROVE  req' = req /\ told' = told /\ req[p] = Idle
    BY <1>4 DEF CalendarCancel
  <1>5. ASSUME NEW a \in Activity, NEW u \in User, RegisterRead(p, a, u)
        PROVE  /\ \A q \in Api \ {p} : req'[q] = req[q]
               /\ told' = told /\ req[p] = Idle
               /\ req'[p].op \in {"standing", "count"} /\ state[req'[p].on] # "cancelled"
               /\ req'[p].op = "count" => req'[p].on \notin Session
               /\ UNCHANGED <<state, registered>>
    BY <1>5 DEF RegisterRead, Takes
  <1>6. ASSUME NEW a \in Activity, NEW u \in User, Unregister(p, a, u)
        PROVE  req' = req /\ told' = told /\ req[p] = Idle
    BY <1>6 DEF Unregister
  <1>7. ASSUME NEW u \in User, Reinstate(p, u)
        PROVE  req' = req /\ told' = told /\ req[p] = Idle
    BY <1>7 DEF Reinstate
  <1>8. ASSUME NEW u \in User, NEW b \in BOOLEAN, Suspend(p, u, b)
        PROVE  req' = req /\ told' = told /\ req[p] = Idle
    BY <1>8 DEF Suspend
  <1>9. ASSUME NEW s \in Session, NoShowRead(p, s) \/ MoveRead(p, s)
        PROVE  /\ \A q \in Api \ {p} : req'[q] = req[q]
               /\ told' = told /\ req[p] = Idle /\ req'[p].op \in {"move", "noshow"}
               /\ UNCHANGED <<state, registered>>
    BY <1>9 DEF NoShowRead, MoveRead
  <1>10. QED
    BY <1>1, <1>2, <1>3, <1>4, <1>5, <1>6, <1>7, <1>8, <1>9 DEF Arrive

\* Nothing that arrives cancels a session or adds to its players.
LEMMA ArriveRows ==
    ASSUME TypeOK, NEW p \in Api, Arrive(p), NEW s \in Session
    PROVE  state'[s] = state[s] /\ registered'[s] \subseteq registered[s]
  <1> USE ConstantsAssumption DEF TypeOK, Activity
  <1>1. ASSUME NEW e \in Event, NEW n \in Capacities, NEW ph \in Phases, NEW b \in BOOLEAN,
               CreateEvent(p, e, n, ph, b) \/ UpdateEvent(p, e, n, ph, b)
        PROVE  state'[s] = state[s] /\ registered' = registered
    BY <1>1 DEF CreateEvent, UpdateEvent
  <1>2. ASSUME NEW a \in Activity, NEW u \in User, Unregister(p, a, u)
        PROVE  state' = state /\ registered'[s] \subseteq registered[s]
    BY <1>2 DEF Unregister
  <1>3. ASSUME NEW u \in User, NEW b \in BOOLEAN, Suspend(p, u, b)
        PROVE  state' = state /\ registered'[s] \subseteq registered[s]
    BY <1>3 DEF Suspend, WithoutUpcoming
  <1>4. CASE \/ \E z \in Session, n \in Capacities : ReserveSession(p, z, n)
             \/ \E z \in Session : CancelRead(p, z) \/ CalendarCancel(p, z)
             \/ \E z \in Session : NoShowRead(p, z) \/ MoveRead(p, z)
    BY <1>4 DEF ReserveSession, CancelRead, CalendarCancel, NoShowRead, MoveRead
  <1>5. CASE \/ \E a \in Activity, u \in User : RegisterRead(p, a, u)
             \/ \E u \in User : Reinstate(p, u)
    BY <1>5 DEF RegisterRead, Reinstate
  <1>6. QED
    BY <1>1, <1>2, <1>3, <1>4, <1>5 DEF Arrive

LEMMA ArriveUndisturbed ==
    ASSUME TypeOK, Undisturbed, NEW p \in Api, Arrive(p),
           disturbed' = disturbed \cup DisturbedByOthers
    PROVE  Undisturbed'
  <1>1. /\ \A q \in Api \ {p} : req'[q] = req[q]
        /\ told' = told
        /\ req[p] = Idle
        /\ \/ req' = req
           \/ req'[p].op = "create" /\ UNCHANGED <<state, registered>>
           \/ req'[p].op \in {"move", "noshow"} /\ UNCHANGED <<state, registered>>
           \/ /\ req'[p].op = "release"
              /\ req'[p].on \in Session => registered[req'[p].on] = req'[p].seen
              /\ UNCHANGED <<state, registered>>
           \/ /\ req'[p].op \in {"standing", "count"} /\ state[req'[p].on] # "cancelled"
              /\ req'[p].op = "count" => req'[p].on \notin Session
              /\ UNCHANGED <<state, registered>>
    BY ArriveReq
  <1>2. ASSUME NEW q \in Api
        PROVE  /\ req'[q].op \in {"count", "insert"} /\ req'[q].on \in Session \ disturbed'
                    => req'[q].user \notin suspended'
               /\ req'[q].op \in {"release", "mark", "mail"} /\ req'[q].on \in Session \ disturbed'
                    => registered'[req'[q].on] = req'[q].seen
               /\ req'[q].op \in {"standing", "count", "insert"} /\ req'[q].on \in Session \ disturbed'
                    => state'[req'[q].on] # "cancelled"
    <2>1. CASE req'[q] = req[q]
      BY <2>1, WaitersKept
    <2>2. CASE req'[q] # req[q]
      BY <1>1, <2>2
    <2>3. QED
      BY <2>1, <2>2
  <1>3. ToldOrMailing'
    <2>1. ASSUME NEW s \in Session \ disturbed', state'[s] = "cancelled"
          PROVE  \/ registered'[s] \subseteq told'[s]
                 \/ \E q \in Api : req'[q].op = "mail" /\ req'[q].on = s
      <3>1. state[s] = "cancelled" /\ registered'[s] \subseteq registered[s] /\ s \notin disturbed
        BY <2>1, ArriveRows
      <3>2. CASE registered[s] \subseteq told[s]
        BY <1>1, <3>1, <3>2
      <3>3. ASSUME NEW q \in Api, req[q].op = "mail", req[q].on = s
            PROVE  req'[q] = req[q]
        BY <1>1, <3>3 DEF Idle
      <3>4. QED
        BY <3>1, <3>2, <3>3 DEF Undisturbed, ToldOrMailing, At
    <2>2. QED
      BY <2>1 DEF ToldOrMailing, At
  <1>4. QED
    BY <1>2, <1>3 DEF Undisturbed, StandingKept, ListKept, NobodyJoins

\* What a handler does with its own session.
LEMMA ProceedUndisturbed ==
    ASSUME TypeOK, Order, Undisturbed, NEW p \in Api, Proceed(p),
           disturbed' = disturbed \cup DisturbedByOthers
    PROVE  Undisturbed'
  <1>1. \A q \in Api \ {p} : req'[q] = req[q]
    BY DEF Proceed, CreateSession, ReleaseBacking, MarkCancelled, MailRegistrants, CheckStanding,
           CountRegistrations, InsertRegistration, NoShowCommit, MoveCommit, MoveRefused,
           Continue, Finish, TypeOK
  <1>2. \A q \in Api \ {p} :
             /\ req'[q].op \in {"count", "insert"} /\ req'[q].on \in Session \ disturbed'
                  => req'[q].user \notin suspended'
             /\ req'[q].op \in {"release", "mark", "mail"} /\ req'[q].on \in Session \ disturbed'
                  => registered'[req'[q].on] = req'[q].seen
             /\ req'[q].op \in {"standing", "count", "insert"} /\ req'[q].on \in Session \ disturbed'
                  => state'[req'[q].on] # "cancelled"
    BY <1>1, WaitersKept
  <1>3. /\ req'[p].op \in {"count", "insert"} /\ req'[p].on \in Session \ disturbed'
             => req'[p].user \notin suspended'
        /\ req'[p].op \in {"release", "mark", "mail"} /\ req'[p].on \in Session \ disturbed'
             => registered'[req'[p].on] = req'[p].seen
        /\ req'[p].op \in {"standing", "count", "insert"} /\ req'[p].on \in Session \ disturbed'
             => state'[req'[p].on] # "cancelled"
    <2> USE RequestTypes DEF Undisturbed, StandingKept, ListKept, NobodyJoins, At, Continue, Finish,
                             Idle, TypeOK
    <2>1. CASE \/ CreateSession(p) \/ MailRegistrants(p) \/ InsertRegistration(p)
               \/ NoShowCommit(p) \/ MoveCommit(p) \/ MoveRefused(p)
      <3>1. req'[p].op = "idle"
        BY <2>1 DEF CreateSession, MailRegistrants, InsertRegistration, NoShowCommit, MoveCommit,
                    MoveRefused
      <3>2. QED
        BY <3>1
    <2>2. CASE ReleaseBacking(p) \/ MarkCancelled(p)
      <3>1. /\ req'[p].op \in {"mark", "mail"} /\ req'[p].on = req[p].on
            /\ req'[p].seen = req[p].seen /\ registered' = registered
            /\ req[p].op \in {"release", "mark"}
        BY <2>2 DEF ReleaseBacking, MarkCancelled
      <3>2. QED
        BY <3>1
    <2>3. CASE CheckStanding(p)
      <3>1. /\ \/ req'[p].op = "idle"
               \/ /\ req'[p].op = "count" /\ req'[p].on = req[p].on
                  /\ req'[p].user = req[p].user /\ req[p].user \notin suspended
            /\ req[p].op = "standing" /\ suspended' = suspended /\ state' = state
        BY <2>3 DEF CheckStanding, InGoodStanding
      <3>2. QED
        BY <3>1
    <2>4. CASE CountRegistrations(p)
      <3>1. /\ \/ req'[p].op = "idle"
               \/ /\ req'[p].op = "insert" /\ req'[p].on = req[p].on
                  /\ req'[p].user = req[p].user
            /\ req[p].op = "count" /\ suspended' = suspended /\ state' = state
        BY <2>4 DEF CountRegistrations
      <3>2. QED
        BY <3>1
    <2>5. QED
      BY <2>1, <2>2, <2>3, <2>4 DEF Proceed
  <1>4. ASSUME NEW s \in Session \ disturbed', state'[s] = "cancelled"
        PROVE  \/ registered'[s] \subseteq told'[s]
               \/ \E q \in Api : req'[q].op = "mail" /\ req'[q].on = s
    <2>1. s \in Activity /\ s \notin disturbed
      BY <1>4 DEF Activity
    <2>2. CASE MarkCancelled(p) /\ req[p].on = s
      <3>1. req'[p].op = "mail" /\ req'[p].on = s
        BY <2>2, RequestTypes DEF MarkCancelled, At, Continue, TypeOK
      <3>2. QED
        BY <3>1
    <2>3. CASE MailRegistrants(p) /\ req[p].on = s
      <3>1. registered[s] = req[p].seen
        BY <1>4, <2>1, <2>3 DEF MailRegistrants, At, Undisturbed, ListKept
      <3>2. registered' = registered /\ told'[s] = told[s] \cup req[p].seen
        BY <1>4, <2>3 DEF MailRegistrants, TypeOK
      <3>3. QED
        BY <3>1, <3>2
    <2>4. CASE ~ (MarkCancelled(p) \/ MailRegistrants(p)) \/ req[p].on # s
      <3>1. state[s] = "cancelled"
        <4>1. CASE CreateSession(p)
          BY <1>4, <2>1, <4>1 DEF CreateSession, TypeOK
        <4>2. CASE MarkCancelled(p)
          BY <1>4, <2>1, <2>4, <4>2 DEF MarkCancelled, TypeOK
        <4>3. CASE ~ CreateSession(p) /\ ~ MarkCancelled(p)
          BY <1>4, <4>3 DEF Proceed, ReleaseBacking, MailRegistrants, CheckStanding,
                            CountRegistrations, InsertRegistration, NoShowCommit, MoveCommit,
                            MoveRefused
        <4>4. QED
          BY <4>1, <4>2, <4>3
      <3>2. registered'[s] = registered[s]
        <4>1. CASE InsertRegistration(p)
          <5>1. req[p].op = "insert" /\ registered' = [registered EXCEPT ![req[p].on] = @ \cup {req[p].user}]
            BY <4>1 DEF InsertRegistration, At
          <5>2. req[p].on # s
            BY <1>4, <2>1, <3>1, <5>1 DEF Undisturbed, NobodyJoins
          <5>3. QED
            BY <2>1, <5>1, <5>2 DEF TypeOK
        <4>2. CASE ~ InsertRegistration(p)
          BY <4>2 DEF Proceed, CreateSession, ReleaseBacking, MarkCancelled, MailRegistrants,
                      CheckStanding, CountRegistrations, NoShowCommit, MoveCommit, MoveRefused
        <4>3. QED
          BY <4>1, <4>2
      <3>3. told'[s] = told[s]
        BY <1>4, <2>4 DEF Proceed, CreateSession, ReleaseBacking, MarkCancelled, MailRegistrants,
                          CheckStanding, CountRegistrations, InsertRegistration, NoShowCommit,
                          MoveCommit, MoveRefused, TypeOK
      <3>4. ASSUME NEW q \in Api, req[q].op = "mail", req[q].on = s
            PROVE  req'[q] = req[q]
        <4>1. q # p
          BY <2>4, <3>4 DEF Proceed, CreateSession, ReleaseBacking, MarkCancelled, MailRegistrants,
                            CheckStanding, CountRegistrations, InsertRegistration, NoShowCommit,
                            MoveCommit, MoveRefused, At
        <4>2. QED
          BY <1>1, <4>1
      <3>5. QED
        BY <2>1, <3>1, <3>2, <3>3, <3>4, <1>4 DEF Undisturbed, ToldOrMailing, At
    <2>5. QED
      BY <2>2, <2>3, <2>4
  <1>5. ToldOrMailing'
    BY <1>4 DEF ToldOrMailing, At
  <1>6. QED
    BY <1>2, <1>3, <1>5 DEF Undisturbed, StandingKept, ListKept, NobodyJoins

\* What has died is not looked at any more.
LEMMA CrashUndisturbed ==
    ASSUME TypeOK, Undisturbed, NEW p \in Api, Crash(p),
           disturbed' = IF OnActivity(p) THEN disturbed \cup {req[p].on} ELSE disturbed
    PROVE  Undisturbed'
  <1>1. /\ req'[p].op = "idle" /\ \A q \in Api \ {p} : req'[q] = req[q]
        /\ UNCHANGED <<state, registered, suspended, told>>
    BY DEF Crash, Finish, Idle, TypeOK
  <1>2. (StandingKept /\ ListKept /\ NobodyJoins)'
    BY <1>1 DEF Undisturbed, StandingKept, ListKept, NobodyJoins
  <1>3. ToldOrMailing'
    BY <1>1 DEF Undisturbed, ToldOrMailing, At, OnActivity
  <1>4. QED
    BY <1>2, <1>3 DEF Undisturbed

LEMMA WatchedInductive == WInv /\ [WatchedNext]_watchedVars => WInv'
  <1> SUFFICES ASSUME WInv, [WatchedNext]_watchedVars
               PROVE  WInv'
    OBVIOUS
  <1>1. [Next]_vars
    BY DEF WatchedNext, watchedVars, Step, Next
  <1>2. (TypeOK /\ Order)'
    BY <1>1, NextTypes, NextOrder DEF WInv
  <1>3. ASSUME NEW a \in Activity, Pass(a), disturbed' = disturbed \cup DisturbedByOthers
        PROVE  Undisturbed'
    <2>1. UNCHANGED <<state, registered, suspended, told, req>>
      BY <1>3 DEF Pass
    <2>2. disturbed \subseteq disturbed' /\ Undisturbed
      BY <1>3 DEF WInv
    <2>3. (StandingKept /\ ListKept /\ NobodyJoins)'
      BY <2>1, <2>2 DEF Undisturbed, StandingKept, ListKept, NobodyJoins
    <2>4. ToldOrMailing'
      BY <2>1, <2>2 DEF Undisturbed, ToldOrMailing, At
    <2>5. QED
      BY <2>3, <2>4 DEF Undisturbed
  <1>4. ASSUME UNCHANGED watchedVars
        PROVE  Undisturbed'
    <2>1. UNCHANGED <<state, registered, suspended, told, req, disturbed>> /\ Undisturbed
      BY <1>4 DEF watchedVars, vars, WInv
    <2>2. (StandingKept /\ ListKept /\ NobodyJoins)'
      BY <2>1 DEF Undisturbed, StandingKept, ListKept, NobodyJoins
    <2>3. ToldOrMailing'
      BY <2>1 DEF Undisturbed, ToldOrMailing, At
    <2>4. QED
      BY <2>2, <2>3 DEF Undisturbed
  <1>5. Undisturbed'
    BY <1>3, <1>4, ArriveUndisturbed, ProceedUndisturbed, CrashUndisturbed
       DEF WatchedNext, Step, WInv
  <1>6. QED
    BY <1>2, <1>5 DEF WInv

LEMMA WatchedInvariance == WatchedSpec => []WInv
  <1>1. WatchedInit => WInv
    <2>1. Init => TypeOK /\ Order
      BY Start DEF IInv, Order
    <2>2. WatchedInit => Undisturbed
      BY DEF WatchedInit, Init, Undisturbed, StandingKept, ListKept, NobodyJoins, ToldOrMailing,
             Idle, Activity
    <2>3. QED
      BY <2>1, <2>2 DEF WatchedInit, WInv
  <1>2. QED
    BY <1>1, WatchedInductive, PTL DEF WatchedSpec

\* A cancelled session on which no handler was disturbed has told everyone on its
\* list by the time its handler is done: GroupSessionsService.cancel.
THEOREM PlayersAreTold == WatchedSpec => []UndisturbedTold
  <1>1. WInv => UndisturbedTold
    BY DEF WInv, Undisturbed, ToldOrMailing, UndisturbedTold, Told
  <1>2. QED
    BY <1>1, WatchedInvariance, PTL

\* No suspended player joins a session on which no handler was disturbed, at any
\* step: assertInGoodStanding.
THEOREM SuspendedStayOut == WatchedSpec => UndisturbedInGoodStanding
  <1>1. WInv /\ [WatchedNext]_watchedVars
          => [\A s \in Session \ disturbed : InGoodStandingOnly(s)]_watchedVars
    <2>1. SUFFICES ASSUME WInv, WatchedNext, NEW s \in Session \ disturbed
                   PROVE  Joining(s) \cap suspended = {}
      BY DEF InGoodStandingOnly
    <2>2. ASSUME NEW p \in Api, InsertRegistration(p)
          PROVE  Joining(s) \cap suspended = {}
      <3>1. /\ req[p].op = "insert"
            /\ registered' = [registered EXCEPT ![req[p].on] = @ \cup {req[p].user}]
        BY <2>2 DEF InsertRegistration, At
      <3>2. CASE req[p].on = s
        <4>1. req[p].user \notin suspended
          BY <2>1, <3>1, <3>2 DEF WInv, Undisturbed, StandingKept
        <4>2. registered'[s] = registered[s] \cup {req[p].user}
          BY <2>1, <3>1, <3>2 DEF WInv, TypeOK, Activity
        <4>3. QED
          BY <4>1, <4>2 DEF Joining
      <3>3. CASE req[p].on # s
        BY <2>1, <3>1, <3>3 DEF WInv, TypeOK, Activity, Joining
      <3>4. QED
        BY <3>2, <3>3
    <2>3. ASSUME NEW p \in Api, Arrive(p)
          PROVE  Joining(s) \cap suspended = {}
      BY <2>1, <2>3, ArriveRows DEF WInv, Joining
    <2>4. CASE registered' = registered
      BY <2>4 DEF Joining
    <2>5. QED
      BY <2>1, <2>2, <2>3, <2>4 DEF WatchedNext, Step, Proceed, CreateSession, ReleaseBacking,
           MarkCancelled, MailRegistrants, CheckStanding, CountRegistrations, NoShowCommit,
           MoveCommit, MoveRefused, Crash, Pass
  <1>2. QED
    BY <1>1, WatchedInvariance, PTL DEF WatchedSpec, UndisturbedInGoodStanding
=============================================================================
