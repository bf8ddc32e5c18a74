----------------------------- MODULE BookingTxProofs -----------------------------
(***************************************************************************)
(* BookingTx is type correct, the row lock is enough for courts, and the   *)
(* transactions implement the ledger of Inventory, for any bookings,       *)
(* courts, coaches and periods, with deadlocks broken and connections lost *)
(* at any statement.                                                       *)
(*                                                                         *)
(* The argument.  Courts and coaches are kept apart by different means.    *)
(* From its check on a transaction has the lock of all its courts (Locks), *)
(* so nobody else inserts or commits a row for one of them.  A coach has   *)
(* no lock; but a row that has passed the constraint stands in the way of  *)
(* no committed row (Clear) and of no other row that has passed (Unshared) *)
(* until its transaction ends, because whoever comes second has to wait.   *)
(* A transaction commits only rows that have passed.                       *)
(*                                                                         *)
(* The last two parts are about waiting: where the courts are scanned in   *)
(* one order, new bookings wait in a circle for coaches alone, and a       *)
(* booking loses only where another one is served.                         *)
(***************************************************************************)
EXTENDS BookingTx, TLAPS

\* The statements from the first INSERT on.
Working == {"insert", "verify", "update"}

\* A transaction holds the locks of the courts that it has scanned.
Locks ==
    \A b \in Booking : \A c \in want[b].courts :
        /\ pc[b] = "delete" => c \in DOMAIN todo[b]
        /\ pc[b] = "lock" /\ c \notin DOMAIN todo[b] => locked[c] = b
        /\ pc[b] \in Working \cup {"check"} => locked[c] = b

\* It inserts rows for what it wants and for nothing else.
Inserted ==
    \A b \in Booking : /\ pc[b] \notin Working => ins[b] = {}
                       /\ ins[b] \subseteq Rooms(b)
                       /\ pc[b] = "update" => ins[b] = Rooms(b)

\* What the conflict query has found of the courts is still so.
CourtsFree ==
    \A b \in Booking : pc[b] \in Working => Committed(b, want[b].courts) = {}

\* The rows that have passed the constraint.
Passed(b) == IF pc[b] = "verify" THEN ins[b] \ {last[b]} ELSE ins[b]

\* They are in the way of no committed row ...
Clear ==
    \A b \in Booking : \A r \in Passed(b) : Committed(b, {r}) = {}

\* ... and of no other row that has passed.
Unshared ==
    \A b, u \in Booking : b # u /\ Passed(b) \cap Passed(u) # {} =>
        ~ Overlap(want[b].period, want[u].period)

\* No two bookings have a committed row of one place for overlapping hours.
Exclusive ==
    \A x, y \in rows : x.of # y.of /\ x.room = y.room => ~ Overlap(x.period, y.period)

IInv == TypeOK /\ Locks /\ Inserted /\ CourtsFree /\ Clear /\ Unshared /\ Exclusive

-----------------------------------------------------------------------------
(***************************************************************************)
(* Types.                                                                  *)
(***************************************************************************)

LEMMA EndType ==
    ASSUME TypeOK, NEW b \in Booking, NEW answer \in Results, End(b, answer),
           rows' \subseteq Row, moves' = moves
    PROVE  TypeOK'
  <1>1. DOMAIN NoCourts = {} /\ NoCourts \in [{} -> Nat]
    BY DEF NoCourts
  <1>2. \A u \in Booking : todo'[u] = NoCourts \/ todo'[u] = todo[u]
    BY DEF End, TypeOK
  <1>3. \A u \in Booking : DOMAIN todo'[u] \subseteq Court /\ todo'[u] \in [DOMAIN todo'[u] -> Nat]
    BY <1>1, <1>2 DEF TypeOK
  <1>4. locked' \in [Court -> Booking \cup {"nobody"}]
    BY DEF End, Released, TypeOK
  <1>5. QED
    BY <1>3, <1>4 DEF End, TypeOK, Statements

LEMMA OpenType ==
    ASSUME TypeOK, NEW b \in Booking, NEW R \in CourtSets, NEW K \in SUBSET Coach,
           NEW t \in Period, NEW s \in Statements \ {"verify"}, Open(b, R, K, t, s),
           moves' \in [Booking -> 0 .. MaxMoves]
    PROVE  TypeOK'
  <1>1. R \subseteq Court
    BY ConstantsAssumption
  <1>2. [courts |-> R, coach |-> K, period |-> t] \in Wish
    BY <1>1, ConstantsAssumption DEF Wish
  <1>3. PICK scan \in [Court -> Nat] : todo' = [todo EXCEPT ![b] = Scanned(R, scan)]
    BY ConstantsAssumption DEF Open
  <1>4. DOMAIN Scanned(R, scan) = R /\ Scanned(R, scan) \in [R -> Nat]
    BY <1>1 DEF Scanned
  <1>5. \A u \in Booking : DOMAIN todo'[u] \subseteq Court /\ todo'[u] \in [DOMAIN todo'[u] -> Nat]
    BY <1>1, <1>3, <1>4 DEF TypeOK
  <1>6. QED
    BY <1>2, <1>5 DEF Open, Goto, TypeOK

LEMMA ProceedType ==
    ASSUME TypeOK, NEW b \in Booking, Proceed(b)
    PROVE  TypeOK'
  <1>1. CASE DeleteRows(b)
    BY <1>1 DEF DeleteRows, Goto, TypeOK, Statements
  <1>2. CASE LockCourt(b)
    <2>1. PICK c \in NextCourts(b) :
             /\ locked' = [locked EXCEPT ![c] = b]
             /\ todo' = [todo EXCEPT ![b] = [d \in DOMAIN todo[b] \ {c} |-> todo[b][d]]]
             /\ Goto(b, IF DOMAIN todo[b] = {c} THEN "check" ELSE "lock")
      BY <1>2 DEF LockCourt
    <2>2. locked' \in [Court -> Booking \cup {"nobody"}]
      BY <2>1 DEF TypeOK
    <2>3. \A u \in Booking : DOMAIN todo'[u] \subseteq Court /\ todo'[u] \in [DOMAIN todo'[u] -> Nat]
      BY <2>1 DEF TypeOK
    <2>4. QED
      BY <1>2, <2>1, <2>2, <2>3 DEF LockCourt, Goto, TypeOK, Statements
  <1>3. CASE CheckConflicts(b)
    <2>1. CASE Rollback(b, "overlap")
      BY <2>1, EndType DEF Rollback, Results, TypeOK
    <2>2. CASE ~ Rollback(b, "overlap")
      BY <1>3, <2>2 DEF CheckConflicts, Goto, TypeOK, Statements
    <2>3. QED
      BY <2>1, <2>2
  <1>4. ASSUME NEW x \in NextRooms(b), InsertRow(b, x)
        PROVE  TypeOK'
    <2>1. x \in Place
      BY <1>4 DEF NextRooms, Rooms, InsertRow, TypeOK, Wish, Place
    <2>2. last' = [last EXCEPT ![b] = x] /\ ins' = [ins EXCEPT ![b] = @ \cup {x}]
      BY <1>4 DEF InsertRow
    <2>3. ins' \in [Booking -> SUBSET Place]
      BY <2>1, <2>2 DEF TypeOK
    <2>4. pc' \in [Booking -> Statements] /\ \A u \in Booking \ {b} : pc'[u] = pc[u]
      BY <1>4 DEF InsertRow, Goto, TypeOK, Statements
    <2>5. x \in ins'[b]
      BY <2>2 DEF TypeOK
    <2>6. QED
      BY <1>4, <2>2, <2>3, <2>4, <2>5 DEF InsertRow, TypeOK
  <1>5. CASE VerifyRow(b)
    <2>1. CASE Rollback(b, "overlap")
      BY <2>1, EndType DEF Rollback, Results, TypeOK
    <2>2. CASE ~ Rollback(b, "overlap")
      BY <1>5, <2>2 DEF VerifyRow, Goto, TypeOK, Statements
    <2>3. QED
      BY <2>1, <2>2
  <1>6. CASE Commit(b)
    <2>1. want[b].period \in Period /\ ins[b] \subseteq Place
      BY <1>6 DEF Commit, TypeOK, Wish
    <2>2. rows' \subseteq Row
      BY <1>6, <2>1 DEF Commit, Row, TypeOK
    <2>3. QED
      BY <1>6, <2>2, EndType DEF Commit, Results
  <1>7. QED
    BY <1>1, <1>2, <1>3, <1>4, <1>5, <1>6 DEF Proceed

LEMMA NextType ==
    ASSUME TypeOK, [Next]_vars
    PROVE  TypeOK'
  <1>1. ASSUME NEW b \in Booking, Request(b)
        PROVE  TypeOK'
    <2>1. ASSUME NEW R \in CourtSets, NEW K \in CoachSets, NEW t \in Period, BeginBooking(b, R, K, t)
          PROVE  TypeOK'
      <3>1. K \in SUBSET Coach /\ "lock" \in Statements \ {"verify"}
        BY ConstantsAssumption DEF Statements
      <3>2. QED
        BY <2>1, <3>1, OpenType DEF BeginBooking, TypeOK
    <2>2. ASSUME NEW R \in CourtSets, NEW t \in Period, BeginMove(b, R, t)
          PROVE  TypeOK'
      <3>1. moves' \in [Booking -> 0 .. MaxMoves]
        BY <2>2, ConstantsAssumption DEF BeginMove, TypeOK
      <3>2. {} \in SUBSET Coach /\ "delete" \in Statements \ {"verify"}
        BY DEF Statements
      <3>3. QED
        BY <2>2, <3>1, <3>2, OpenType DEF BeginMove
    <2>3. CASE Cancel(b)
      BY <2>3 DEF Cancel, TypeOK, Results
    <2>4. QED
      BY <1>1, <2>1, <2>2, <2>3 DEF Request
  <1>2. ASSUME NEW b \in Booking, BreakDeadlock(b) \/ Lose(b)
        PROVE  TypeOK'
    <2>1. PICK answer \in Results : Rollback(b, answer)
      BY <1>2 DEF BreakDeadlock, Lose, Results
    <2>2. QED
      BY <2>1, EndType DEF Rollback, TypeOK
  <1>3. CASE UNCHANGED vars
    BY <1>3 DEF vars, TypeOK
  <1>4. QED
    BY <1>1, <1>2, <1>3, ProceedType DEF Next

-----------------------------------------------------------------------------
(***************************************************************************)
(* Steps.                                                                  *)
(***************************************************************************)

Step(b) == Request(b) \/ Proceed(b) \/ BreakDeadlock(b) \/ Lose(b)

\* The transaction of b is over, or had not begun.
Over(b) == pc'[b] = "idle" /\ ins'[b] = {}

Opened(b) ==
    /\ pc'[b] \in {"lock", "delete"} /\ ins'[b] = {}
    /\ DOMAIN todo'[b] = want'[b].courts
    /\ rows' = rows

\* CheckConflicts and VerifyRow when they find nothing.
Found(b) ==
    /\ pc[b] = "check" /\ Conflicts(b) = {}
    /\ Goto(b, "insert")
    /\ UNCHANGED <<want, todo, locked, ins, last, rows, result, moves>>

Verified(b) ==
    /\ pc[b] = "verify" /\ Violates(b) = {} /\ Against(b) = {}
    /\ Goto(b, IF ins[b] = Rooms(b) THEN "update" ELSE "insert")
    /\ UNCHANGED <<want, todo, locked, ins, last, rows, result, moves>>

\* A step of b ends its transaction, opens one, or is one of five statements.
LEMMA Forms ==
    ASSUME TypeOK, Inserted, NEW b \in Booking, Step(b)
    PROVE  \/ Over(b) \/ Opened(b)
           \/ DeleteRows(b) \/ LockCourt(b) \/ Found(b)
           \/ \E x \in NextRooms(b) : InsertRow(b, x)
           \/ Verified(b)
  <1>1. ASSUME NEW answer, End(b, answer)
        PROVE  Over(b)
    BY <1>1 DEF End, Over, TypeOK
  <1>2. ASSUME NEW answer, Rollback(b, answer)
        PROVE  Over(b)
    BY <1>1, <1>2 DEF Rollback
  <1>3. ASSUME NEW R \in CourtSets, NEW K, NEW t, NEW s \in {"lock", "delete"},
               pc[b] = "idle", Open(b, R, K, t, s)
        PROVE  Opened(b)
    <2>1. PICK scan \in Scans : todo' = [todo EXCEPT ![b] = Scanned(R, scan)]
      BY <1>3 DEF Open
    <2>2. DOMAIN todo'[b] = R
      BY <2>1 DEF Scanned, TypeOK
    <2>3. want'[b].courts = R /\ pc'[b] = s
      BY <1>3 DEF Open, Goto, TypeOK
    <2>4. ins'[b] = {} /\ rows' = rows
      BY <1>3 DEF Open, Inserted, Working
    <2>5. QED
      BY <2>2, <2>3, <2>4 DEF Opened
  <1>4. CASE Request(b)
    <2>1. CASE Cancel(b)
      BY <2>1 DEF Cancel, Over, Inserted, Working
    <2>2. CASE \E R \in CourtSets, K \in CoachSets, t \in Period : BeginBooking(b, R, K, t)
      BY <2>2, <1>3 DEF BeginBooking
    <2>3. CASE \E R \in CourtSets, t \in Period : BeginMove(b, R, t)
      BY <2>3, <1>3 DEF BeginMove
    <2>4. QED
      BY <1>4, <2>1, <2>2, <2>3 DEF Request
  <1>5. CASE Proceed(b)
    BY <1>5, <1>1, <1>2 DEF Proceed, CheckConflicts, Found, VerifyRow, Verified, Commit
  <1>6. CASE BreakDeadlock(b) \/ Lose(b)
    BY <1>6, <1>2 DEF BreakDeadlock, Lose
  <1>7. QED
    BY <1>4, <1>5, <1>6 DEF Step

\* A row that b adds was inserted by its transaction, at its last statement.
Added(b, x) == pc[b] = "update" /\ x.of = b /\ x.room \in ins[b] /\ x.period = want[b].period

\* What a step of b leaves alone.
LEMMA Others ==
    ASSUME TypeOK, NEW b \in Booking, Step(b)
    PROVE  /\ \A u \in Booking \ {b} :
                /\ pc'[u] = pc[u] /\ want'[u] = want[u] /\ todo'[u] = todo[u]
                /\ ins'[u] = ins[u] /\ last'[u] = last[u]
                /\ \A c \in Court : locked[c] = u => locked'[c] = u
           /\ \A x \in rows' : x \in rows \/ Added(b, x)
           /\ \A x : x.of # b => (x \in rows' <=> x \in rows)
  <1> DEFINE Goal ==
             /\ \A u \in Booking \ {b} :
                  /\ pc'[u] = pc[u] /\ want'[u] = want[u] /\ todo'[u] = todo[u]
                  /\ ins'[u] = ins[u] /\ last'[u] = last[u]
                  /\ \A c \in Court : locked[c] = u => locked'[c] = u
             /\ \A x \in rows' : x \in rows \/ Added(b, x)
             /\ \A x : x.of # b => (x \in rows' <=> x \in rows)
  <1>1. ASSUME NEW answer, End(b, answer)
        PROVE  \A u \in Booking \ {b} :
                  /\ pc'[u] = pc[u] /\ want'[u] = want[u] /\ todo'[u] = todo[u]
                  /\ ins'[u] = ins[u] /\ last'[u] = last[u]
                  /\ \A c \in Court : locked[c] = u => locked'[c] = u
    BY <1>1 DEF End, Released, TypeOK
  <1>2. ASSUME NEW answer, Rollback(b, answer)
        PROVE  Goal
    BY <1>1, <1>2 DEF Rollback
  <1>3. ASSUME NEW R, NEW K, NEW t, NEW s, Open(b, R, K, t, s)
        PROVE  Goal
    BY <1>3 DEF Open, Goto, TypeOK
  <1>4. CASE Request(b)
    <2>1. CASE Cancel(b)
      BY <2>1 DEF Cancel, Held
    <2>2. QED
      BY <1>4, <2>1, <1>3 DEF Request, BeginBooking, BeginMove
  <1>5. CASE Proceed(b)
    <2>1. CASE DeleteRows(b)
      BY <2>1 DEF DeleteRows, Goto, TypeOK
    <2>2. CASE LockCourt(b)
      <3>1. PICK c \in NextCourts(b) :
               /\ LockFree(b, c)
               /\ locked' = [locked EXCEPT ![c] = b]
               /\ todo' = [todo EXCEPT ![b] = [d \in DOMAIN todo[b] \ {c} |-> todo[b][d]]]
               /\ Goto(b, IF DOMAIN todo[b] = {c} THEN "check" ELSE "lock")
        BY <2>2 DEF LockCourt
      <3>2. \A u \in Booking \ {b} : \A d \in Court : locked[d] = u => locked'[d] = u
        BY <3>1, ConstantsAssumption DEF LockFree, TypeOK
      <3>3. \A u \in Booking \ {b} : pc'[u] = pc[u] /\ todo'[u] = todo[u]
        BY <3>1 DEF Goto, TypeOK
      <3>4. QED
        BY <2>2, <3>2, <3>3 DEF LockCourt
    <2>3. CASE CheckConflicts(b)
      BY <2>3, <1>2 DEF CheckConflicts, Goto, TypeOK
    <2>4. CASE \E x \in NextRooms(b) : InsertRow(b, x)
      BY <2>4 DEF InsertRow, Goto, TypeOK
    <2>5. CASE VerifyRow(b)
      BY <2>5, <1>2 DEF VerifyRow, Goto, TypeOK
    <2>6. CASE Commit(b)
      <3>1. rows' = (rows \ Held(b)) \cup
                      {[of |-> b, room |-> x, period |-> want[b].period] : x \in ins[b]}
        BY <2>6 DEF Commit
      <3>2. \A x \in rows' : x \in rows \/ Added(b, x)
        BY <2>6, <3>1 DEF Commit, Added
      <3>3. \A x : x.of # b => (x \in rows' <=> x \in rows)
        BY <3>1 DEF Held
      <3>4. QED
        BY <2>6, <3>2, <3>3, <1>1 DEF Commit
    <2>7. QED
      BY <1>5, <2>1, <2>2, <2>3, <2>4, <2>5, <2>6 DEF Proceed
  <1>6. CASE BreakDeadlock(b) \/ Lose(b)
    BY <1>6, <1>2 DEF BreakDeadlock, Lose
  <1>7. QED
    BY <1>4, <1>5, <1>6 DEF Step

-----------------------------------------------------------------------------
(***************************************************************************)
(* The locks, and the rows of courts that they keep away.                  *)
(***************************************************************************)

LEMMA LocksNext ==
    ASSUME TypeOK, Locks, Inserted, NEW b \in Booking, Step(b)
    PROVE  Locks'
  <1>1. ASSUME NEW u \in Booking \ {b}, NEW c \in want'[u].courts
        PROVE  /\ pc'[u] = "delete" => c \in DOMAIN todo'[u]
               /\ pc'[u] = "lock" /\ c \notin DOMAIN todo'[u] => locked'[c] = u
               /\ pc'[u] \in Working \cup {"check"} => locked'[c] = u
    <2>1. /\ pc'[u] = pc[u] /\ want'[u] = want[u] /\ todo'[u] = todo[u]
          /\ \A d \in Court : locked[d] = u => locked'[d] = u
      BY Others
    <2>2. c \in want[u].courts /\ c \in Court
      BY <1>1, <2>1 DEF TypeOK, Wish
    <2>3. QED
      BY <2>1, <2>2 DEF Locks
  <1>2. ASSUME NEW c \in want'[b].courts
        PROVE  /\ pc'[b] = "delete" => c \in DOMAIN todo'[b]
               /\ pc'[b] = "lock" /\ c \notin DOMAIN todo'[b] => locked'[c] = b
               /\ pc'[b] \in Working \cup {"check"} => locked'[c] = b
    <2>1. CASE Over(b)
      BY <2>1 DEF Over, Working
    <2>2. CASE Opened(b)
      BY <2>2, <1>2 DEF Opened, Working
    <2>3. CASE DeleteRows(b)
      BY <2>3, <1>2 DEF DeleteRows, Goto, Locks, TypeOK, Working
    <2>4. CASE LockCourt(b)
      <3>1. PICK d \in NextCourts(b) :
               /\ locked' = [locked EXCEPT ![d] = b]
               /\ todo' = [todo EXCEPT ![b] = [e \in DOMAIN todo[b] \ {d} |-> todo[b][e]]]
               /\ Goto(b, IF DOMAIN todo[b] = {d} THEN "check" ELSE "lock")
        BY <2>4 DEF LockCourt
      <3>2. DOMAIN todo'[b] = DOMAIN todo[b] \ {d}
        BY <3>1 DEF TypeOK
      <3>3. c \in Court /\ c \in want[b].courts /\ pc[b] = "lock"
        BY <2>4, <1>2 DEF LockCourt, TypeOK, Wish
      <3>4. c \notin DOMAIN todo'[b] => locked'[c] = b
        BY <3>1, <3>2, <3>3 DEF Locks, TypeOK
      <3>5. pc'[b] = IF DOMAIN todo[b] = {d} THEN "check" ELSE "lock"
        BY <3>1 DEF Goto, TypeOK
      <3>6. QED
        BY <3>2, <3>4, <3>5 DEF Working
    <2>5. CASE Found(b)
      BY <2>5, <1>2 DEF Found, Goto, Locks, TypeOK, Working
    <2>6. CASE \E x \in NextRooms(b) : InsertRow(b, x)
      BY <2>6, <1>2 DEF InsertRow, Goto, Locks, TypeOK, Working
    <2>7. CASE Verified(b)
      BY <2>7, <1>2 DEF Verified, Goto, Locks, TypeOK, Working
    <2>8. QED
      BY Forms, <2>1, <2>2, <2>3, <2>4, <2>5, <2>6, <2>7
  <1>3. QED
    BY <1>1, <1>2 DEF Locks

LEMMA InsertedNext ==
    ASSUME TypeOK, Inserted, NEW b \in Booking, Step(b)
    PROVE  Inserted'
  <1> DEFINE Good(u) == /\ pc'[u] \notin Working => ins'[u] = {}
                        /\ ins'[u] \subseteq Rooms(u)'
                        /\ pc'[u] = "update" => ins'[u] = Rooms(u)'
  <1>1. ASSUME NEW u \in Booking \ {b}
        PROVE  Good(u)
    BY Others DEF Inserted, Rooms
  <1>2. Good(b)
    <2>1. CASE Over(b)
      BY <2>1 DEF Over
    <2>2. CASE Opened(b)
      BY <2>2 DEF Opened
    <2>3. CASE DeleteRows(b)
      BY <2>3 DEF DeleteRows, Goto, Inserted, TypeOK, Working, Rooms
    <2>4. CASE LockCourt(b)
      <3>1. pc'[b] \in {"check", "lock"} /\ ins'[b] = ins[b] /\ pc[b] = "lock"
        BY <2>4 DEF LockCourt, Goto, TypeOK
      <3>2. QED
        BY <3>1 DEF Inserted, Working
    <2>5. CASE Found(b)
      BY <2>5 DEF Found, Goto, Inserted, TypeOK, Working, Rooms
    <2>6. CASE \E x \in NextRooms(b) : InsertRow(b, x)
      <3>1. PICK x \in NextRooms(b) : InsertRow(b, x)
        BY <2>6
      <3>2. x \in Rooms(b) /\ ins'[b] = ins[b] \cup {x} /\ pc'[b] = "verify" /\ want' = want
        BY <3>1 DEF InsertRow, NextRooms, Goto, TypeOK
      <3>3. QED
        BY <3>2 DEF Inserted, Working, Rooms
    <2>7. CASE Verified(b)
      BY <2>7 DEF Verified, Goto, Inserted, TypeOK, Working, Rooms
    <2>8. QED
      BY Forms, <2>1, <2>2, <2>3, <2>4, <2>5, <2>6, <2>7
  <1>3. QED
    BY <1>1, <1>2 DEF Inserted

\* Two transactions that work have no court in common.
LEMMA CourtsApart ==
    ASSUME TypeOK, Locks, Inserted,
           NEW b \in Booking, NEW u \in Booking \ {b}, pc[b] \in Working
    PROVE  ins[u] \cap want[b].courts = {}
  <1> SUFFICES ASSUME NEW c \in ins[u], c \in want[b].courts
               PROVE  FALSE
    OBVIOUS
  <1>1. pc[u] \in Working /\ c \in Rooms(u)
    BY DEF Inserted
  <1>2. c \in Court /\ c \notin want[u].coach
    BY ConstantsAssumption DEF TypeOK, Wish
  <1>3. c \in want[u].courts
    BY <1>1, <1>2 DEF Rooms
  <1>4. locked[c] = b /\ locked[c] = u
    BY <1>1, <1>3 DEF Locks
  <1>5. QED
    BY <1>4

LEMMA CourtsFreeNext ==
    ASSUME TypeOK, Locks, Inserted, CourtsFree, NEW b \in Booking, Step(b)
    PROVE  CourtsFree'
  <1>1. ASSUME NEW u \in Booking \ {b}, pc'[u] \in Working,
               NEW x \in rows', x.of # u, x.room \in want'[u].courts,
               Overlap(x.period, want'[u].period)
        PROVE  FALSE
    <2>1. pc[u] \in Working /\ want'[u] = want[u]
      BY <1>1, Others
    <2>2. x \notin rows
      BY <1>1, <2>1 DEF CourtsFree, Committed
    <2>3. x.room \in ins[b]
      BY <2>2, <1>1, Others DEF Added
    <2>4. QED
      BY <1>1, <2>1, <2>3, CourtsApart
  <1>2. ASSUME pc'[b] \in Working
        PROVE  Committed(b, want[b].courts)' = {}
    <2>1. CASE Over(b) \/ Opened(b)
      BY <1>2, <2>1 DEF Over, Opened, Working
    <2>2. CASE DeleteRows(b) \/ LockCourt(b)
      BY <1>2, <2>2 DEF DeleteRows, LockCourt, Goto, TypeOK, Working
    <2>3. CASE Found(b)
      BY <2>3 DEF Found, Conflicts, Committed, Rooms
    <2>4. CASE \E x \in NextRooms(b) : InsertRow(b, x)
      BY <2>4 DEF InsertRow, Committed, CourtsFree, Working
    <2>5. CASE Verified(b)
      BY <2>5 DEF Verified, Committed, CourtsFree, Working
    <2>6. QED
      BY Forms, <2>1, <2>2, <2>3, <2>4, <2>5
  <1>3. QED
    BY <1>1, <1>2 DEF CourtsFree, Committed

-----------------------------------------------------------------------------
(***************************************************************************)
(* The rows that have passed the constraint.                               *)
(***************************************************************************)

\* What has passed stays so, but for the row that is verified now.
LEMMA PassedNext ==
    ASSUME TypeOK, Inserted, NEW b \in Booking, Step(b)
    PROVE  /\ \A u \in Booking \ {b} : Passed(u)' = Passed(u)
           /\ \A r \in Passed(b)' :
                /\ want'[b] = want[b] /\ rows' = rows
                /\ r \in Passed(b) \/ (Verified(b) /\ r = last[b])
  <1>1. \A u \in Booking \ {b} : Passed(u)' = Passed(u)
    BY Others DEF Passed
  <1>2. ASSUME NEW r \in Passed(b)'
        PROVE  /\ want'[b] = want[b] /\ rows' = rows
               /\ r \in Passed(b) \/ (Verified(b) /\ r = last[b])
    <2>1. CASE Over(b) \/ Opened(b)
      BY <1>2, <2>1 DEF Over, Opened, Passed
    <2>2. CASE DeleteRows(b) \/ LockCourt(b)
      <3>1. ins'[b] = ins[b] /\ pc[b] \in {"delete", "lock"}
        BY <2>2 DEF DeleteRows, LockCourt
      <3>2. QED
        BY <1>2, <3>1 DEF Inserted, Working, Passed
    <2>3. CASE Found(b)
      <3>1. ins'[b] = ins[b] /\ pc[b] = "check"
        BY <2>3 DEF Found
      <3>2. QED
        BY <1>2, <3>1 DEF Inserted, Working, Passed
    <2>4. CASE \E x \in NextRooms(b) : InsertRow(b, x)
      <3>1. PICK x \in NextRooms(b) : InsertRow(b, x)
        BY <2>4
      <3>2. pc'[b] = "verify" /\ last'[b] = x /\ ins'[b] = ins[b] \cup {x}
        BY <3>1 DEF InsertRow, Goto, TypeOK
      <3>3. pc[b] = "insert" /\ want' = want /\ rows' = rows
        BY <3>1 DEF InsertRow
      <3>4. QED
        BY <1>2, <3>2, <3>3 DEF Passed
    <2>5. CASE Verified(b)
      <3>1. pc'[b] # "verify" /\ ins' = ins /\ want' = want /\ rows' = rows
        BY <2>5 DEF Verified, Goto, TypeOK
      <3>2. r \in ins[b] /\ pc[b] = "verify"
        BY <1>2, <2>5, <3>1 DEF Passed, Verified
      <3>3. QED
        BY <2>5, <3>1, <3>2 DEF Passed
    <2>6. QED
      BY Forms, <2>1, <2>2, <2>3, <2>4, <2>5
  <1>3. QED
    BY <1>1, <1>2

\* The row that is verified now is in nobody's way.
LEMMA VerifiedFree ==
    ASSUME NEW b \in Booking, Verified(b)
    PROVE  /\ Committed(b, {last[b]}) = {}
           /\ \A u \in Booking \ {b} :
                last[b] \in ins[u] => ~ Overlap(want[u].period, want[b].period)
  <1>1. \A u \in Booking \ {b} :
           ~ (ins[u] \cap {last[b]} # {} /\ Overlap(want[u].period, want[b].period))
    BY DEF Verified, Against, Pending
  <1>2. \A u \in Booking \ {b} : Leaving(u) \cap Committed(b, {last[b]}) = {}
    BY DEF Verified, Against, Pending
  <1>3. \A x \in Committed(b, {last[b]}) : \E u \in Booking \ {b} : x \in Leaving(u)
    BY DEF Verified, Violates
  <1>4. QED
    BY <1>1, <1>2, <1>3

LEMMA UnsharedNext ==
    ASSUME TypeOK, Inserted, Unshared, NEW b \in Booking, Step(b)
    PROVE  Unshared'
  <1>1. ASSUME NEW u \in Booking \ {b}, NEW v \in Booking \ {b}, u # v,
               (Passed(u) \cap Passed(v))' # {}
        PROVE  ~ Overlap(want[u].period, want[v].period)'
    <2>1. Passed(u)' = Passed(u) /\ Passed(v)' = Passed(v)
      BY PassedNext
    <2>2. want'[u] = want[u] /\ want'[v] = want[v]
      BY Others
    <2>3. QED
      BY <1>1, <2>1, <2>2 DEF Unshared, Overlap
  <1>2. ASSUME NEW u \in Booking \ {b}, NEW r \in Passed(b)', r \in Passed(u)'
        PROVE  ~ Overlap(want[b].period, want[u].period)' /\ ~ Overlap(want[u].period, want[b].period)'
    <2>1. r \in Passed(u) /\ want'[u] = want[u] /\ want'[b] = want[b]
      BY <1>2, PassedNext, Others
    <2>2. CASE r \in Passed(b)
      BY <2>1, <2>2 DEF Unshared, Overlap
    <2>3. CASE Verified(b) /\ r = last[b]
      <3>1. r \in ins[u]
        BY <2>1 DEF Passed
      <3>2. ~ Overlap(want[u].period, want[b].period)
        BY <2>3, <3>1, VerifiedFree
      <3>3. QED
        BY <2>1, <3>2 DEF Overlap
    <2>4. QED
      BY <1>2, <2>2, <2>3, PassedNext
  <1>3. QED
    BY <1>1, <1>2 DEF Unshared

LEMMA ClearNext ==
    ASSUME TypeOK, Inserted, Clear, Unshared, NEW b \in Booking, Step(b)
    PROVE  Clear'
  <1>1. ASSUME NEW u \in Booking \ {b}, NEW x \in rows', x.of # u, x.room \in Passed(u)',
               Overlap(x.period, want[u].period)'
        PROVE  FALSE
    <2>1. want'[u] = want[u] /\ x.room \in Passed(u)
      BY <1>1, Others, PassedNext
    <2>2. CASE x \in rows
      <3>1. x \in Committed(u, {x.room})
        BY <1>1, <2>1, <2>2 DEF Committed, Overlap
      <3>2. QED
        BY <2>1, <3>1 DEF Clear
    <2>3. CASE Added(b, x)
      <3>1. x.room \in Passed(b) /\ x.period = want[b].period
        BY <2>3 DEF Added, Passed
      <3>2. ~ Overlap(want[b].period, want[u].period)
        BY <2>1, <3>1 DEF Unshared
      <3>3. QED
        BY <1>1, <2>1, <3>1, <3>2 DEF Overlap
    <2>4. QED
      BY <2>2, <2>3, Others
  <1>2. ASSUME NEW r \in Passed(b)'
        PROVE  Committed(b, {r})' = {}
    <2>1. want'[b] = want[b] /\ rows' = rows
      BY <1>2, PassedNext
    <2>2. Committed(b, {r})' = Committed(b, {r})
      BY <2>1 DEF Committed, Overlap
    <2>3. Committed(b, {r}) = {}
      BY <1>2, PassedNext, VerifiedFree DEF Clear
    <2>4. QED
      BY <2>2, <2>3
  <1>3. QED
    BY <1>1, <1>2 DEF Clear, Committed

LEMMA ExclusiveNext ==
    ASSUME TypeOK, Clear, Exclusive, NEW b \in Booking, Step(b)
    PROVE  Exclusive'
  <1>1. ASSUME NEW x \in rows', NEW y \in rows', x.of # y.of, x.room = y.room,
               Added(b, x), y \in rows
        PROVE  ~ Overlap(y.period, x.period)
    <2>1. x.room \in Passed(b) /\ y.of # b /\ x.period = want[b].period
      BY <1>1 DEF Added, Passed
    <2>2. y \notin Committed(b, {x.room})
      BY <2>1 DEF Clear
    <2>3. QED
      BY <1>1, <2>1, <2>2 DEF Committed
  <1>2. ASSUME NEW x \in rows', NEW y \in rows', x.of # y.of, x.room = y.room
        PROVE  ~ Overlap(x.period, y.period)
    <2>1. CASE x \in rows /\ y \in rows
      BY <1>2, <2>1 DEF Exclusive
    <2>2. CASE Added(b, x) /\ y \in rows
      BY <1>1, <1>2, <2>2 DEF Overlap
    <2>3. CASE Added(b, y) /\ x \in rows
      BY <1>1, <1>2, <2>3
    <2>4. CASE Added(b, x) /\ Added(b, y)
      BY <1>2, <2>4 DEF Added
    <2>5. QED
      BY <2>1, <2>2, <2>3, <2>4, Others
  <1>3. QED
    BY <1>2 DEF Exclusive, Overlap

-----------------------------------------------------------------------------
(***************************************************************************)
(* The invariant and the theorems.                                         *)
(***************************************************************************)

LEMMA InitInv == Init => IInv
  <1> SUFFICES ASSUME Init PROVE IInv
    OBVIOUS
  <1>1. NoWish \in Wish
    BY DEF NoWish, Wish
  <1>2. DOMAIN NoCourts = {} /\ NoCourts \in [{} -> Nat]
    BY DEF NoCourts
  <1>3. TypeOK
    <2>1. \A b \in Booking : DOMAIN todo[b] \subseteq Court /\ todo[b] \in [DOMAIN todo[b] -> Nat]
      BY <1>2 DEF Init
    <2>2. moves \in [Booking -> 0 .. MaxMoves]
      BY ConstantsAssumption DEF Init
    <2>3. QED
      BY <1>1, <2>1, <2>2 DEF Init, TypeOK, Statements, Results
  <1>4. Locks /\ Inserted
    BY DEF Init, Locks, Inserted, NoWish, Working
  <1>5. CourtsFree /\ Clear /\ Unshared /\ Exclusive
    BY DEF Init, CourtsFree, Clear, Unshared, Exclusive, Passed, Working
  <1>6. QED
    BY <1>3, <1>4, <1>5 DEF IInv

LEMMA NextInv == IInv /\ [Next]_vars => IInv'
  <1> SUFFICES ASSUME IInv, [Next]_vars PROVE IInv'
    OBVIOUS
  <1>1. TypeOK'
    BY NextType DEF IInv
  <1>2. ASSUME NEW b \in Booking, Step(b)
        PROVE  (Locks /\ Inserted /\ CourtsFree /\ Clear /\ Unshared /\ Exclusive)'
    BY <1>2, LocksNext, InsertedNext, CourtsFreeNext, ClearNext, UnsharedNext, ExclusiveNext DEF IInv
  <1>3. CASE UNCHANGED vars
    BY <1>1, <1>3 DEF vars, IInv, Locks, Inserted, CourtsFree, Clear, Unshared, Exclusive,
                      Committed, Passed, Rooms
  <1>4. QED
    BY <1>1, <1>2, <1>3 DEF Next, Step, IInv

\* The inductive invariant holds in every state.
THEOREM Invariant == Spec => []IInv
  BY InitInv, NextInv, PTL DEF Spec

\* Every state of the engine is well formed.
THEOREM TypeCorrect == Spec => []TypeOK
  <1>1. IInv => TypeOK
    BY DEF IInv
  <1>2. QED
    BY <1>1, Invariant, PTL

\* Once the conflict query has found the courts of a booking free, nobody takes
\* or is about to take them before its transaction is over.
THEOREM CourtsStayFree == Spec => []CheckedCourtsStayFree
  <1>1. IInv => CheckedCourtsStayFree
    <2> SUFFICES ASSUME IInv, NEW b \in Booking, pc[b] \in Working
                 PROVE  /\ Committed(b, want[b].courts) = {}
                        /\ Pending(b, want[b].courts) = {}
      BY DEF CheckedCourtsStayFree, Working
    <2>1. Committed(b, want[b].courts) = {}
      BY DEF IInv, CourtsFree
    <2>2. \A u \in Booking \ {b} : ins[u] \cap want[b].courts = {}
      BY CourtsApart DEF IInv
    <2>3. QED
      BY <2>1, <2>2 DEF Pending
  <1>2. QED
    BY <1>1, Invariant, PTL

\* The ledger keeps bookings apart as the committed rows do.
LEMMA LedgerExclusive ==
    TypeOK /\ Exclusive => held \in [Booking -> SUBSET Ledger!Slot] /\ Ledger!Exclusive(held)
  <1> SUFFICES ASSUME TypeOK, Exclusive
               PROVE  held \in [Booking -> SUBSET Ledger!Slot] /\ Ledger!Exclusive(held)
    OBVIOUS
  <1>1. held \in [Booking -> SUBSET Ledger!Slot]
    BY DEF held, Held, Ledger!Slot, TypeOK, Row
  <1>2. ASSUME NEW a \in Booking, NEW b \in Booking, a # b,
               NEW p \in held[a], NEW q \in held[b]
        PROVE  ~ Ledger!Conflict(p, q)
    <2>1. PICK x \in rows : x.of = a /\ p = [room |-> x.room, period |-> x.period]
      BY DEF held, Held
    <2>2. PICK y \in rows : y.of = b /\ q = [room |-> y.room, period |-> y.period]
      BY DEF held, Held
    <2>3. x.room = y.room => ~ Overlap(x.period, y.period)
      BY <1>2, <2>1, <2>2 DEF Exclusive
    <2>4. QED
      BY <2>1, <2>2, <2>3 DEF Ledger!Conflict, Overlap
  <1>3. QED
    BY <1>1, <1>2 DEF Ledger!Exclusive

\* The engine implements the ledger: statement by statement, with locks and waits,
\* it changes one booking at a time, as a whole, and at nobody's expense.
THEOREM Implementation == Spec => ImplementsInventory
  <1>1. Init => Ledger!Init
    BY DEF Init, Ledger!Init, held, Held
  <1>2. ASSUME IInv, IInv', [Next]_vars
        PROVE  [Ledger!Next]_held
    <2>1. ASSUME NEW b \in Booking, Step(b)
          PROVE  Ledger!Next
      <3>1. \A u \in Booking \ {b} : Held(u)' = Held(u)
        <4>1. \A x : x.of # b => (x \in rows' <=> x \in rows)
          BY <1>2, <2>1, Others DEF IInv
        <4>2. QED
          BY <4>1 DEF Held
      <3>2. \A u \in Booking \ {b} : held'[u] = held[u]
        BY <3>1 DEF held
      <3>3. (held \in [Booking -> SUBSET Ledger!Slot] /\ Ledger!Exclusive(held))'
        BY <1>2, LedgerExclusive, PTL DEF IInv
      <3>4. Ledger!Change(b)
        BY <3>2, <3>3 DEF Ledger!Change
      <3>5. QED
        BY <3>4 DEF Ledger!Next
    <2>2. CASE UNCHANGED vars
      BY <2>2 DEF vars, held, Held
    <2>3. QED
      BY <1>2, <2>1, <2>2 DEF Next, Step
  <1>3. QED
    BY <1>1, <1>2, Invariant, PTL DEF Spec, ImplementsInventory, Ledger!Spec

-----------------------------------------------------------------------------
(***************************************************************************)
(* Deadlocks.  FOR UPDATE meets the courts in the order of an index, the   *)
(* same for everybody: a transaction waits for a court that ranks above    *)
(* all those it has (Ascending), and no circle closes over courts alone.   *)
(***************************************************************************)

\* There is one order, and it tells the courts apart.
OneOrder(order) ==
    /\ order \in [Court -> Nat] /\ Scans = {order}
    /\ \A c, d \in Court : order[c] = order[d] => c = d

Ascending(order) ==
    /\ \A b \in Booking : \A c \in DOMAIN todo[b] : todo[b][c] = order[c]
    /\ \A c \in Court : \A b \in Booking : locked[c] = b =>
         /\ pc[b] \notin {"idle", "delete"}
         /\ \A d \in DOMAIN todo[b] : order[c] < order[d]

LEMMA AscendingNext ==
    ASSUME NEW order, OneOrder(order), TypeOK, Inserted, Ascending(order),
           NEW b \in Booking, Step(b), TypeOK'
    PROVE  Ascending(order)'
  <1> USE DEF OneOrder
  <1>0. b # "nobody"
    BY ConstantsAssumption
  <1>1. CASE \E answer : End(b, answer)
    <2>1. PICK answer : End(b, answer)
      BY <1>1
    <2>2. /\ \A u \in Booking \ {b} : todo'[u] = todo[u] /\ pc'[u] = pc[u]
          /\ DOMAIN todo'[b] = {}
      BY <2>1 DEF End, TypeOK, NoCourts
    <2>3. \A c \in Court : locked'[c] # b /\ (locked'[c] = locked[c] \/ locked'[c] = "nobody")
      BY <1>0, <2>1 DEF End, Released, TypeOK
    <2>4. QED
      BY <2>2, <2>3, ConstantsAssumption DEF Ascending
  <1>2. ASSUME NEW R \in CourtSets, NEW K, NEW t, NEW s, pc[b] = "idle", Open(b, R, K, t, s)
        PROVE  Ascending(order)'
    <2>1. todo' = [todo EXCEPT ![b] = Scanned(R, order)] /\ R \subseteq Court
      BY <1>2, ConstantsAssumption DEF Open
    <2>2. \A c \in DOMAIN todo'[b] : todo'[b][c] = order[c]
      BY <2>1 DEF TypeOK, Scanned
    <2>3. \A c \in Court : locked'[c] = locked[c] /\ locked[c] # b
      BY <1>2 DEF Open, Ascending
    <2>4. \A u \in Booking \ {b} : todo'[u] = todo[u] /\ pc'[u] = pc[u]
      BY <1>2, <2>1 DEF Open, Goto, TypeOK
    <2>5. QED
      BY <2>2, <2>3, <2>4 DEF Ascending
  <1>3. CASE LockCourt(b)
    <2>1. PICK c \in NextCourts(b) :
             /\ LockFree(b, c)
             /\ locked' = [locked EXCEPT ![c] = b]
             /\ todo' = [todo EXCEPT ![b] = [d \in DOMAIN todo[b] \ {c} |-> todo[b][d]]]
             /\ Goto(b, IF DOMAIN todo[b] = {c} THEN "check" ELSE "lock")
      BY <1>3 DEF LockCourt
    <2>2. c \in Court /\ c \in DOMAIN todo[b] /\ DOMAIN todo[b] \subseteq Court
      BY DEF NextCourts, TypeOK
    <2>3. /\ DOMAIN todo'[b] = DOMAIN todo[b] \ {c}
          /\ \A d \in DOMAIN todo'[b] : todo'[b][d] = order[d]
      BY <2>1 DEF TypeOK, Ascending
    <2>4. \A d \in DOMAIN todo'[b] : order[c] < order[d]
      <3>1. ASSUME NEW d \in DOMAIN todo[b] \ {c}
            PROVE  order[c] < order[d]
        <4>1. order[c] <= order[d] /\ order[c] # order[d]
          BY <2>2 DEF NextCourts, Ascending
        <4>2. order[c] \in Nat /\ order[d] \in Nat
          BY <2>2
        <4>3. QED
          BY <4>1, <4>2
      <3>2. QED
        BY <3>1, <2>3
    <2>5. /\ \A u \in Booking \ {b} : todo'[u] = todo[u] /\ pc'[u] = pc[u]
          /\ pc'[b] \in {"check", "lock"}
      BY <2>1 DEF Goto, TypeOK
    <2>6. locked'[c] = b /\ \A d \in Court \ {c} : locked'[d] = locked[d]
      BY <2>1, <2>2 DEF TypeOK
    <2>7. ASSUME NEW d \in Court, locked'[d] = b
          PROVE  \A e \in DOMAIN todo'[b] : order[d] < order[e]
      BY <2>3, <2>4, <2>6, <2>7 DEF Ascending
    <2>8. ASSUME NEW u \in Booking, NEW d \in Court, locked'[d] = u, u # b
          PROVE  /\ pc'[u] \notin {"idle", "delete"}
                 /\ \A e \in DOMAIN todo'[u] : order[d] < order[e]
      BY <2>5, <2>6, <2>8 DEF Ascending
    <2>9. QED
      BY <2>3, <2>5, <2>7, <2>8 DEF Ascending
  <1>4. CASE /\ UNCHANGED <<todo, locked>>
             /\ \A u \in Booking : pc'[u] = pc[u] \/ pc'[u] \notin {"idle", "delete"}
    BY <1>4 DEF Ascending
  <1>5. CASE Request(b)
    BY <1>2, <1>4, <1>5 DEF Request, BeginBooking, BeginMove, Cancel
  <1>6. CASE Proceed(b)
    <2>1. CASE DeleteRows(b) \/ VerifyRow(b) \/ (\E x \in NextRooms(b) : InsertRow(b, x))
      BY <2>1, <1>1, <1>4 DEF DeleteRows, VerifyRow, InsertRow, Rollback, Goto, TypeOK
    <2>2. CASE CheckConflicts(b)
      BY <2>2, <1>1, <1>4 DEF CheckConflicts, Rollback, Goto, TypeOK
    <2>3. CASE Commit(b)
      BY <2>3, <1>1 DEF Commit
    <2>4. QED
      BY <1>3, <1>6, <2>1, <2>2, <2>3 DEF Proceed
  <1>7. CASE BreakDeadlock(b) \/ Lose(b)
    BY <1>1, <1>7 DEF BreakDeadlock, Lose, Rollback
  <1>8. QED
    BY <1>5, <1>6, <1>7 DEF Step

\* Who waits in a circle without old rows of its own and of the others waits for
\* an inserted row, or for a court that is locked.
LEMMA WaitsFor ==
    ASSUME TypeOK, Locks, Inserted, NEW b \in Booking, NEW u \in Booking,
           Held(u) = {}, Waits(b, u)
    PROVE  /\ b # u
           /\ \/ /\ pc[b] = "verify" /\ last[b] \in Coach
                 /\ pc[u] \in Working /\ Clash(b, u)
              \/ /\ pc[b] = "lock"
                 /\ \E c \in NextCourts(b) : c \in Court /\ locked[c] = u
  <1>1. CASE pc[b] = "verify"
    <2>1. u \in Pending(b, {last[b]}) /\ u # b
      BY <1>1 DEF Waits, Against, Pending
    <2>2. last[b] \in ins[u] /\ Overlap(want[u].period, want[b].period)
      BY <2>1 DEF Pending, Leaving
    <2>3. pc[u] \in Working /\ last[b] \in Rooms(u)
      BY <2>2 DEF Inserted
    <2>4. last[b] \in Rooms(b)
      BY <1>1 DEF TypeOK, Inserted
    <2>5. last[b] \notin want[b].courts
      BY <1>1, <2>1, <2>2, CourtsApart DEF Working
    <2>6. last[b] \in Coach
      BY <2>4, <2>5 DEF Rooms, TypeOK, Wish
    <2>7. Clash(b, u)
      BY <2>1, <2>2, <2>3, <2>4 DEF Clash, Overlap
    <2>8. QED
      BY <1>1, <2>1, <2>3, <2>6, <2>7
  <1>2. CASE pc[b] = "lock"
    <2>1. PICK c \in NextCourts(b) : ~ LockFree(b, c) /\ u = locked[c]
      BY <1>2 DEF Waits
    <2>2. c \in Court
      BY DEF NextCourts, TypeOK
    <2>3. QED
      BY <1>2, <2>1, <2>2 DEF LockFree
  <1>3. QED
    BY <1>1, <1>2 DEF Waits

LEMMA CircleOfCoaches ==
    ASSUME NEW order, OneOrder(order), TypeOK, Locks, Inserted, Ascending(order),
           NEW S \in SUBSET Booking, Circle(S), \A b \in S : Held(b) = {}
    PROVE  \A b \in S : pc[b] = "verify" /\ last[b] \in Coach
  <1>1. \A b \in S : \E u \in S : Waits(b, u)
    BY DEF Circle, Knot
  <1>2. \A b \in S : pc[b] \in {"verify", "lock"}
    BY <1>1 DEF Waits
  <1>3. CASE \E b \in S : pc[b] = "verify"
    <2> DEFINE T == {b \in S : pc[b] = "verify"}
    <2>1. ASSUME NEW b \in T
          PROVE  \E u \in T : Waits(b, u)
      <3>1. PICK u \in S : Waits(b, u)
        BY <1>1
      <3>2. pc[u] \in Working
        BY <3>1, WaitsFor
      <3>3. QED
        BY <1>2, <3>1, <3>2 DEF Working
    <2>2. Knot(T)
      BY <1>3, <2>1 DEF Knot
    <2>3. T = S
      BY <2>2 DEF Circle
    <2>4. QED
      BY <1>1, <2>3, WaitsFor
  <1>4. CASE \A b \in S : pc[b] = "lock"
    <2>1. \A b \in S : \E u \in S : \E c \in NextCourts(b) : c \in Court /\ locked[c] = u
      BY <1>1, <1>4, WaitsFor
    <2>2. \A b \in S : \A c, d \in NextCourts(b) : order[c] = order[d]
      <3>1. \A b \in S : \A c, d \in NextCourts(b) :
               /\ order[c] <= order[d] /\ order[d] <= order[c]
               /\ order[c] \in Nat /\ order[d] \in Nat
        BY DEF NextCourts, Ascending, TypeOK, OneOrder
      <3>2. QED
        BY <3>1
    <2>3. PICK b \in S : TRUE
      BY DEF Circle, Knot
    <2>4. PICK c \in NextCourts(b) : c \in Court /\ locked[c] \in S
      BY <2>1
    <2> DEFINE U == {u \in S : \E d \in NextCourts(u) : order[c] < order[d]}
    <2>5. ASSUME NEW v \in Booking, NEW d \in Court, locked[d] = v,
                 NEW e \in NextCourts(v), order[c] <= order[d]
          PROVE  order[c] < order[e]
      <3>1. order[d] < order[e]
        BY <2>5 DEF Ascending, NextCourts
      <3>2. order[c] \in Nat /\ order[d] \in Nat /\ order[e] \in Nat
        BY <2>4 DEF OneOrder, NextCourts, TypeOK
      <3>3. QED
        BY <2>5, <3>1, <3>2
    <2>6. locked[c] \in U
      <3>1. PICK e \in NextCourts(locked[c]) : TRUE
        BY <2>1, <2>4
      <3>2. order[c] <= order[c]
        BY <2>4 DEF OneOrder
      <3>3. QED
        BY <2>4, <2>5, <3>1, <3>2
    <2>7. ASSUME NEW u \in U
          PROVE  \E v \in U : Waits(u, v)
      <3>1. PICK v \in S : Waits(u, v)
        BY <1>1
      <3>2. PICK d \in NextCourts(u) : d \in Court /\ locked[d] = v
        BY <1>4, <3>1, WaitsFor
      <3>3. order[c] <= order[d]
        <4>1. PICK e \in NextCourts(u) : order[c] < order[e]
          OBVIOUS
        <4>2. order[e] = order[d] /\ order[c] \in Nat /\ order[d] \in Nat
          BY <2>2, <2>4, <3>2 DEF OneOrder
        <4>3. QED
          BY <4>1, <4>2
      <3>4. PICK e \in NextCourts(v) : TRUE
        BY <2>1
      <3>5. QED
        BY <2>5, <3>1, <3>2, <3>3, <3>4
    <2>8. Knot(U)
      BY <2>6, <2>7 DEF Knot
    <2>9. b \in U
      BY <2>8 DEF Circle
    <2>10. PICK d \in NextCourts(b) : order[c] < order[d]
      BY <2>9
    <2>11. order[c] = order[d] /\ order[c] \in Nat
      BY <2>2, <2>4 DEF OneOrder
    <2>12. QED
      BY <2>10, <2>11
  <1>5. QED
    BY <1>2, <1>3, <1>4

\* The inductive invariant and the order of the locks.
OInv(order) == IInv /\ Ascending(order)

LEMMA OInvHolds ==
    ASSUME NEW order, OneOrder(order)
    PROVE  Spec => []OInv(order)
  <1>1. Init => OInv(order)
    BY InitInv, ConstantsAssumption DEF Init, OInv, Ascending, NoCourts
  <1>2. OInv(order) /\ [Next]_vars => OInv(order)'
    <2> SUFFICES ASSUME OInv(order), [Next]_vars PROVE OInv(order)'
      OBVIOUS
    <2>1. IInv'
      BY NextInv DEF OInv
    <2>2. CASE UNCHANGED vars
      BY <2>1, <2>2 DEF vars, OInv, Ascending
    <2>3. ASSUME NEW b \in Booking, Step(b)
          PROVE  OInv(order)'
      BY <2>1, <2>3, AscendingNext DEF OInv, IInv
    <2>4. QED
      BY <2>2, <2>3 DEF Next, Step
  <1>3. QED
    BY <1>1, <1>2, PTL DEF Spec

\* Where the courts are scanned in one order, only the row of a coach makes new
\* bookings wait for each other.
THEOREM CoachesAloneDeadlock ==
    ASSUME NEW order, OneOrder(order)
    PROVE  Spec => []OnlyCoachesDeadlock
  <1>1. OInv(order) => OnlyCoachesDeadlock
    BY CircleOfCoaches DEF OInv, IInv, OnlyCoachesDeadlock
  <1>2. QED
    BY <1>1, OInvHolds, PTL

-----------------------------------------------------------------------------
(***************************************************************************)
(* Losers and winners.  Of a booking that was never moved, the rows say    *)
(* what it was answered (Plain).  While no booking was moved, cancelled or *)
(* lost, whoever was refused has somebody to point at (Refused), and where *)
(* there is a victim of a deadlock there is somebody who is served or not  *)
(* done yet (Survivor).                                                    *)
(***************************************************************************)

Plain ==
    \A b \in Booking : moves[b] = 0 =>
        /\ pc[b] # "delete"
        /\ result[b] # "none" => pc[b] = "idle"
        /\ pc[b] = "idle" /\ result[b] = "none" => Rooms(b) = {}
        /\ \A x \in Held(b) : /\ result[b] = "done"
                              /\ x.room \in Rooms(b)
                              /\ x.period = want[b].period

Quiet == \A b \in Booking : moves[b] = 0 /\ result[b] \notin {"lost", "cancelled"}

Refused ==
    \A b \in Booking : result[b] = "overlap" =>
        \E u \in Booking : result[u] = "done" /\ Clash(b, u)

Survivor ==
    \A S \in SUBSET Booking : Apart(S) /\ (\E b \in S : result[b] = "deadlock") =>
        \E u \in S : result[u] = "done" \/ pc[u] # "idle"

\* What a step of b does to the answers, the moves and the wishes.
LEMMA Answers ==
    ASSUME TypeOK, Inserted, NEW b \in Booking, Step(b)
    PROVE  /\ \A u \in Booking \ {b} : result'[u] = result[u] /\ moves'[u] = moves[u]
           /\ \/ /\ pc[b] = "idle" /\ result[b] = "none"
                 /\ pc'[b] = "lock" /\ UNCHANGED <<rows, result, moves>>
              \/ moves'[b] > 0 /\ moves[b] \in Nat
              \/ /\ Held(b) # {} /\ result'[b] = "cancelled"
                 /\ UNCHANGED <<pc, want, moves>> /\ rows' = rows \ Held(b)
              \/ /\ pc[b] # "idle" /\ pc'[b] \notin {"idle", "delete"}
                 /\ UNCHANGED <<want, rows, result, moves>>
              \/ Commit(b) /\ moves' = moves
              \/ /\ pc[b] # "idle" /\ Rollback(b, "overlap") /\ UNCHANGED moves
                 /\ \E x \in rows : /\ x.of # b /\ x.room \in Rooms(b)
                                    /\ Overlap(x.period, want[b].period)
              \/ BreakDeadlock(b)
              \/ pc[b] # "idle" /\ Rollback(b, "lost")
  <1>1. ASSUME NEW answer, End(b, answer)
        PROVE  \A u \in Booking \ {b} : result'[u] = result[u]
    BY <1>1 DEF End, TypeOK
  <1>2. CASE Request(b)
    <2>1. ASSUME NEW R \in CourtSets, NEW K \in CoachSets, NEW t \in Period, BeginBooking(b, R, K, t)
          PROVE  /\ pc[b] = "idle" /\ result[b] = "none"
                 /\ pc'[b] = "lock" /\ UNCHANGED <<rows, result, moves>>
      BY <2>1 DEF BeginBooking, Open, Goto, TypeOK
    <2>2. ASSUME NEW R \in CourtSets, NEW t \in Period, BeginMove(b, R, t)
          PROVE  /\ moves'[b] > 0 /\ moves[b] \in Nat
                 /\ \A u \in Booking \ {b} : result'[u] = result[u] /\ moves'[u] = moves[u]
      BY <2>2, ConstantsAssumption DEF BeginMove, Open, TypeOK
    <2>3. CASE Cancel(b)
      BY <2>3 DEF Cancel, TypeOK
    <2>4. QED
      BY <1>2, <2>1, <2>2, <2>3 DEF Request
  <1>3. CASE Proceed(b)
    <2>1. CASE DeleteRows(b)
      BY <2>1 DEF DeleteRows, Goto, TypeOK
    <2>2. CASE LockCourt(b)
      BY <2>2 DEF LockCourt, Goto, TypeOK
    <2>3. CASE CheckConflicts(b)
      <3>1. CASE Rollback(b, "overlap") /\ Conflicts(b) # {}
        BY <1>1, <2>3, <3>1 DEF CheckConflicts, Conflicts, Committed, Rollback
      <3>2. QED
        BY <2>3, <3>1 DEF CheckConflicts, Goto, TypeOK
    <2>4. CASE \E x \in NextRooms(b) : InsertRow(b, x)
      BY <2>4 DEF InsertRow, Goto, TypeOK
    <2>5. CASE VerifyRow(b)
      <3>1. CASE Rollback(b, "overlap") /\ Violates(b) # {}
        <4>1. last[b] \in Rooms(b)
          BY <2>5 DEF VerifyRow, TypeOK, Inserted
        <4>2. QED
          BY <1>1, <2>5, <3>1, <4>1 DEF VerifyRow, Violates, Committed, Rollback
      <3>2. QED
        BY <2>5, <3>1 DEF VerifyRow, Goto, TypeOK
    <2>6. CASE Commit(b)
      BY <2>6, <1>1 DEF Commit
    <2>7. QED
      BY <1>3, <2>1, <2>2, <2>3, <2>4, <2>5, <2>6 DEF Proceed
  <1>4. CASE BreakDeadlock(b) \/ Lose(b)
    BY <1>1, <1>4 DEF BreakDeadlock, Lose, Rollback
  <1>5. QED
    BY <1>2, <1>3, <1>4 DEF Step

LEMMA DeadlockWaits ==
    ASSUME NEW b \in Booking, BreakDeadlock(b)
    PROVE  /\ pc[b] \in {"lock", "verify"} /\ Rollback(b, "deadlock")
           /\ \E S \in SUBSET Booking : b \in S /\ Circle(S)
  BY DEF BreakDeadlock, Circle, Knot, Waits

LEMMA PlainNext ==
    ASSUME TypeOK, Inserted, Plain, NEW b \in Booking, Step(b)
    PROVE  Plain'
  <1> DEFINE Good(u) ==
          /\ pc'[u] # "delete"
          /\ result'[u] # "none" => pc'[u] = "idle"
          /\ pc'[u] = "idle" /\ result'[u] = "none" => Rooms(u)' = {}
          /\ \A x \in Held(u)' : /\ result'[u] = "done"
                                 /\ x.room \in Rooms(u)'
                                 /\ x.period = want'[u].period
  <1>1. ASSUME NEW u \in Booking \ {b}, moves'[u] = 0
        PROVE  Good(u)
    <2>1. Held(u)' = Held(u) /\ Rooms(u)' = Rooms(u)
      BY Others DEF Held, Rooms
    <2>2. QED
      BY <1>1, <2>1, Others, Answers DEF Plain
  <1>2. ASSUME moves'[b] = 0, moves[b] = 0
        PROVE  Good(b)
    <2>1. pc[b] # "idle" => result[b] = "none" /\ Held(b) = {}
      BY <1>2 DEF Plain
    <2>2. CASE /\ pc[b] = "idle" /\ result[b] = "none"
               /\ pc'[b] = "lock" /\ UNCHANGED <<rows, result, moves>>
      BY <1>2, <2>2 DEF Plain, Held
    <2>3. CASE /\ Held(b) # {} /\ result'[b] = "cancelled"
               /\ UNCHANGED <<pc, want, moves>> /\ rows' = rows \ Held(b)
      BY <1>2, <2>3 DEF Plain, Held
    <2>4. CASE /\ pc[b] # "idle" /\ pc'[b] \notin {"idle", "delete"}
               /\ UNCHANGED <<want, rows, result, moves>>
      BY <2>1, <2>4 DEF Held
    <2>5. CASE Commit(b)
      <3>1. pc'[b] = "idle" /\ result'[b] = "done" /\ want' = want
        BY <2>5 DEF Commit, End, TypeOK
      <3>2. \A x \in Held(b)' : x.room \in ins[b] /\ x.period = want[b].period
        BY <2>5 DEF Commit, Held
      <3>3. QED
        BY <3>1, <3>2 DEF Inserted, Rooms
    <2>6. ASSUME pc[b] # "idle", NEW answer \in Results \ {"none"}, Rollback(b, answer)
          PROVE  Good(b)
      <3>1. pc'[b] = "idle" /\ result'[b] = answer /\ rows' = rows
        BY <2>6 DEF Rollback, End, TypeOK
      <3>2. QED
        BY <2>1, <2>6, <3>1 DEF Held
    <2>7. QED
      BY <1>2, <2>2, <2>3, <2>4, <2>5, <2>6, Answers, DeadlockWaits DEF Results
  <1>3. moves'[b] = 0 => moves[b] = 0
    <2>1. moves'[b] = moves[b] \/ moves'[b] > 0
      BY Answers DEF Commit, Rollback, BreakDeadlock
    <2>2. QED
      BY <2>1
  <1>4. QED
    BY <1>1, <1>2, <1>3 DEF Plain

\* What was moved, cancelled or lost stays so.
LEMMA QuietBefore ==
    ASSUME TypeOK, Inserted, Plain, NEW b \in Booking, Step(b), Quiet'
    PROVE  /\ Quiet /\ moves'[b] = moves[b]
           /\ result[b] \in {"overlap", "deadlock"} => result'[b] = result[b]
           /\ result[b] = "done" => result'[b] = result[b]
  <1>1. moves'[b] = 0 /\ result'[b] \notin {"lost", "cancelled"}
    BY DEF Quiet
  <1>2. moves'[b] = moves[b]
    BY <1>1, Answers DEF Commit, Rollback, BreakDeadlock
  <1>3. result'[b] = result[b] \/ (pc[b] # "idle" /\ result[b] = "none")
    <2>1. Held(b) = {} \/ result'[b] # "cancelled"
      BY <1>1
    <2>2. pc[b] # "idle" => result[b] = "none"
      BY <1>1, <1>2 DEF Plain
    <2>3. Commit(b) => pc[b] # "idle"
      BY DEF Commit
    <2>4. QED
      BY <1>1, <2>1, <2>2, <2>3, Answers, DeadlockWaits
  <1>4. \A u \in Booking \ {b} : result'[u] = result[u] /\ moves'[u] = moves[u]
    BY Answers
  <1>5. QED
    BY <1>1, <1>2, <1>3, <1>4 DEF Quiet

\* Clashes do not go away while nothing is moved.
LEMMA ClashStays ==
    ASSUME TypeOK, Inserted, Plain, NEW b \in Booking, Step(b), Quiet'
    PROVE  \A u, v \in Booking : Clash(u, v) => Clash(u, v)'
  <1>1. \A u \in Booking \ {b} : want'[u] = want[u]
    BY Others
  <1>2. want'[b] = want[b] \/ Rooms(b) = {}
    <2>1. moves[b] = 0 /\ moves'[b] = 0
      BY QuietBefore DEF Quiet
    <2>2. QED
      BY <2>1, Answers DEF Commit, Rollback, BreakDeadlock, End, Plain
  <1>3. QED
    BY <1>1, <1>2 DEF Clash, Rooms, Overlap

LEMMA RefusedNext ==
    ASSUME TypeOK, Inserted, Plain, NEW b \in Booking, Step(b), Quiet', Quiet => Refused
    PROVE  Refused'
  <1>1. Quiet /\ Refused
    BY QuietBefore
  <1>2. \A u \in Booking : result[u] = "done" => result'[u] = "done"
    BY Answers, QuietBefore
  <1>3. ASSUME NEW u \in Booking, result'[u] = "overlap", result[u] = "overlap"
        PROVE  \E v \in Booking : result'[v] = "done" /\ Clash(u, v)'
    BY <1>1, <1>2, <1>3, ClashStays DEF Refused
  <1>4. ASSUME result'[b] = "overlap", result[b] # "overlap"
        PROVE  \E v \in Booking : result'[v] = "done" /\ Clash(b, v)'
    <2>1. PICK x \in rows : /\ x.of # b /\ x.room \in Rooms(b)
                            /\ Overlap(x.period, want[b].period)
      <3>1. moves'[b] = 0
        BY DEF Quiet
      <3>2. ~ Commit(b) /\ ~ BreakDeadlock(b) /\ ~ Rollback(b, "lost")
        BY <1>4 DEF Commit, BreakDeadlock, Rollback, End, TypeOK
      <3>3. QED
        BY <1>4, <3>1, <3>2, Answers
    <2>2. x.of \in Booking /\ x \in Held(x.of) /\ moves[x.of] = 0
      BY <1>1 DEF TypeOK, Row, Held, Quiet
    <2>3. result[x.of] = "done" /\ x.room \in Rooms(x.of) /\ x.period = want[x.of].period
      BY <2>2 DEF Plain
    <2>4. Clash(b, x.of)
      BY <2>1, <2>2, <2>3 DEF Clash, Overlap
    <2>5. QED
      BY <1>2, <2>2, <2>3, <2>4, ClashStays
  <1>5. QED
    BY <1>3, <1>4, Answers DEF Refused

LEMMA SurvivorNext ==
    ASSUME NEW order, OneOrder(order), IInv, Ascending(order), Plain,
           NEW b \in Booking, Step(b), Quiet', Quiet => Survivor, Refused'
    PROVE  Survivor'
  <1> USE DEF IInv
  <1>1. Quiet /\ Survivor
    BY QuietBefore
  <1>2. ASSUME NEW S \in SUBSET Booking, Apart(S)', NEW d \in S, result'[d] = "deadlock"
        PROVE  \E u \in S : result'[u] = "done" \/ pc'[u] # "idle"
    <2>1. Apart(S)
      BY <1>2, ClashStays DEF Apart
    <2>2. \A u \in Booking \ {b} : pc'[u] = pc[u] /\ result'[u] = result[u]
      BY Others, Answers
    \* Somebody else who was there, or b, whom its end leaves with a winner in S.
    <2>3. ASSUME NEW u \in S, result[u] = "done" \/ pc[u] # "idle"
          PROVE  \E v \in S : result'[v] = "done" \/ pc'[v] # "idle"
      <3>1. CASE u # b
        BY <2>2, <2>3, <3>1
      <3>2. CASE u = b /\ BreakDeadlock(b)
        <4>1. PICK C \in SUBSET Booking : b \in C /\ Circle(C)
          BY <3>2, DeadlockWaits
        <4>2. \A v \in C : pc[v] # "idle"
          BY <4>1 DEF Circle, Knot, Waits
        <4>3. \A v \in C : Held(v) = {}
          BY <1>1, <4>2 DEF Plain, Quiet
        <4>4. PICK v \in C : Waits(b, v)
          BY <4>1 DEF Circle, Knot
        <4>5. pc[b] = "verify"
          BY <4>1, <4>3, CircleOfCoaches
        <4>6. Clash(b, v) /\ v # b
          BY <4>3, <4>4, <4>5, WaitsFor
        <4>7. v \in S
          BY <2>1, <3>2, <4>6 DEF Apart
        <4>8. QED
          BY <2>2, <4>2, <4>6, <4>7
      <3>3. CASE u = b /\ result'[b] = "overlap"
        <4>1. PICK v \in Booking : result'[v] = "done" /\ Clash(b, v)'
          BY <3>3 DEF Refused
        <4>2. v \in S
          BY <1>2, <3>3, <4>1 DEF Apart
        <4>3. QED
          BY <4>1, <4>2
      <3>4. CASE u = b /\ ~ BreakDeadlock(b) /\ result'[b] # "overlap"
        <4>1. moves'[b] = 0 /\ result'[b] \notin {"lost", "cancelled"}
          BY DEF Quiet
        <4>2. \A answer : Rollback(b, answer) => result'[b] = answer
          BY DEF Rollback, End, TypeOK
        <4>3. Commit(b) => result'[b] = "done"
          BY DEF Commit, End, TypeOK
        <4>4. pc'[b] # "idle" \/ result'[b] = "done"
          BY <3>4, <4>1, <4>2, <4>3, Answers
        <4>5. QED
          BY <3>4, <4>4
      <3>5. QED
        BY <3>1, <3>2, <3>3, <3>4
    <2>4. CASE result[d] = "deadlock"
      BY <1>1, <2>1, <2>3, <2>4 DEF Survivor
    <2>5. CASE result[d] # "deadlock"
      <3>1. d = b
        BY <1>2, <2>2, <2>5
      <3>2. pc[b] # "idle"
        <4>1. moves'[b] = 0
          BY DEF Quiet
        <4>2. Commit(b) => pc[b] # "idle"
          BY DEF Commit
        <4>3. QED
          BY <1>2, <2>5, <3>1, <4>1, <4>2, Answers, DeadlockWaits
      <3>3. QED
        BY <2>3, <3>1, <3>2
    <2>6. QED
      BY <2>4, <2>5
  <1>3. QED
    BY <1>2 DEF Survivor

\* The inductive invariant of the answers.
AInv(order) == OInv(order) /\ Plain /\ (Quiet => Refused /\ Survivor)

\* A booking is turned away only where somebody is served: whoever finds the place
\* taken can name who holds it, and among any bookings that clash with nobody else
\* a victim of the deadlock detector leaves one that is served.
THEOREM WinnersForLosers ==
    ASSUME NEW order, OneOrder(order)
    PROVE  Spec => []LosersHaveWinner
  <1>1. Init => AInv(order)
    <2>1. Init => OInv(order)
      BY InitInv, ConstantsAssumption DEF Init, OInv, Ascending, NoCourts
    <2>2. Init => Plain /\ Refused /\ Survivor
      BY DEF Init, Plain, Refused, Survivor, Rooms, NoWish, Held
    <2>3. QED
      BY <2>1, <2>2 DEF AInv
  <1>2. AInv(order) /\ [Next]_vars => AInv(order)'
    <2> SUFFICES ASSUME AInv(order), [Next]_vars PROVE AInv(order)'
      OBVIOUS
    <2>1. CASE UNCHANGED vars
      <3>1. OInv(order)'
        BY <2>1, NextInv DEF AInv, OInv, Ascending, vars
      <3>2. (Plain /\ (Quiet => Refused /\ Survivor))'
        BY <2>1 DEF vars, AInv, Plain, Quiet, Refused, Survivor, Rooms, Held, Clash, Apart, Overlap
      <3>3. QED
        BY <3>1, <3>2 DEF AInv
    <2>2. ASSUME NEW b \in Booking, Step(b)
          PROVE  AInv(order)'
      <3>1. OInv(order)'
        BY <2>2, NextInv, AscendingNext DEF AInv, OInv, IInv
      <3>2. Plain'
        BY <2>2, PlainNext DEF AInv, OInv, IInv
      <3>3. Quiet' => Refused'
        BY <2>2, RefusedNext DEF AInv, OInv, IInv
      <3>4. Quiet' => Survivor'
        BY <2>2, <3>3, SurvivorNext DEF AInv, OInv
      <3>5. QED
        BY <3>1, <3>2, <3>3, <3>4 DEF AInv
    <2>3. QED
      BY <2>1, <2>2 DEF Next, Step
  <1>3. AInv(order) => LosersHaveWinner
    BY DEF AInv, Quiet, Refused, Survivor, LosersHaveWinner
  <1>4. QED
    BY <1>1, <1>2, <1>3, PTL DEF Spec

=============================================================================
