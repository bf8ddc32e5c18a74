-------------------------- MODULE ReservationsProofs --------------------------
(***************************************************************************)
(* Reservations is type correct, never books a resource twice, never lets  *)
(* a live booking lose its rows, and implements Inventory, for every set   *)
(* of reservations, courts, coaches, periods, handlers and faults; and     *)
(* what its comments say of one reservation holds wherever no handler was  *)
(* overtaken.                                                              *)
(*                                                                         *)
(* The argument.  Whatever a handler has read, all it can do to the rows   *)
(* is one of two things (RowStep): write a status together with the        *)
(* trigger that goes with it, or replace some rows of one reservation by   *)
(* new ones (a booking replaces none).  The constraint makes each of them  *)
(* keep the active rows apart.  That a live booking has rows for its own   *)
(* hours is not inductive by itself, because a status write can bring a    *)
(* cancelled booking back to life; CurrentRows is the strengthening: rows  *)
(* for the current hours are there whatever the status, since the only     *)
(* step that removes rows of a booking inserts the next ones and moves the *)
(* bounds along.  It needs RequestsOnRows: a handler writes only the       *)
(* status of a reservation that exists.                                    *)
(*                                                                         *)
(* That a hold is honoured rests on DueHolds: a worker about to expire a   *)
(* reservation has seen the end of its hold, time does not go back, and a  *)
(* hold is never set again.                                                *)
(*                                                                         *)
(* The last part is about ReservationsHistory.  Its invariant, HInv, says  *)
(* what each handler still knows when it writes (Informed): outside of the *)
(* reservations noted in overtaken, the status is one it may decide in,    *)
(* and a reschedule has chosen every row there is.  From that follow the   *)
(* rows, the legal transitions and the single refund.  Steps are sorted by *)
(* what they do to all this (HistoryStep), and each part of HInv is shown  *)
(* to be kept by each kind of step.                                        *)
(***************************************************************************)
EXTENDS ReservationsHistory, TLAPS

-----------------------------------------------------------------------------
(***************************************************************************)
(* Types.                                                                  *)
(***************************************************************************)

\* A request that a handler can carry is a request, whatever it is about.
LEMMA ReqType ==
    ASSUME NEW op \in Op, NEW r \in Reservation
    PROVE  Req(op, r) \in Requests
  BY DEF Req, Requests, Share, Ref

\* The row a handler in flight is about is a reservation, and what it read of
\* the payment and of the rows has its type.
LEMMA InFlightType ==
    ASSUME TypeOK, NEW p \in Process, req[p] # Idle
    PROVE  /\ req[p] \in Requests
           /\ req[p].res \in Reservation
           /\ req[p].share \in Share
           /\ req[p].ref \in Ref
  BY DEF TypeOK, Requests

\* A handler at one of its steps is in flight.
LEMMA AtType ==
    ASSUME TypeOK, NEW p \in Process, NEW op \in Op, At(p, op)
    PROVE  /\ req[p] \in Requests
           /\ req[p].res \in Reservation
           /\ req[p].share \in Share
           /\ req[p].ref \in Ref
  <1>1. req[p] # Idle
    BY DEF At, Idle, Op
  <1>2. QED
    BY <1>1, InFlightType

\* The rows a transaction inserts are what it says.
LEMMA RowsType ==
    ASSUME NEW r \in Reservation, NEW n \in Nat,
           NEW R \in SUBSET (Court \cup Coach), NEW t \in Period, NEW b \in BOOLEAN
    PROVE  /\ Rows(r, n, R, t, b) \in Claim
           /\ Rows(r, n, R, t, b).res = r
           /\ Rows(r, n, R, t, b).rooms = R
           /\ Rows(r, n, R, t, b).period = t
           /\ Rows(r, n, R, t, b).active = b
  BY DEF Rows, Claim

\* The trigger changes isActive and nothing else of a row.
LEMMA SetActiveType ==
    ASSUME NEW c \in Claim, NEW b \in BOOLEAN
    PROVE  /\ SetActive(c, b) \in Claim
           /\ SetActive(c, b).active = b
           /\ SetActive(c, b).res = c.res
           /\ SetActive(c, b).rooms = c.rooms
           /\ SetActive(c, b).period = c.period
  BY DEF SetActive, Claim

LEMMA SyncedType ==
    ASSUME TypeOK, NEW r \in Reservation, NEW s \in Statuses
    PROVE  Synced(r, s) \subseteq Claim
  <1>1. claims \subseteq Claim
    BY DEF TypeOK
  <1>2. (s \in TriggerStatuses) \in BOOLEAN
    OBVIOUS
  <1>3. \A c \in claims : SetActive(c, s \in TriggerStatuses) \in Claim
    BY <1>1, <1>2, SetActiveType
  <1>4. QED
    BY <1>1, <1>3 DEF Synced

\* A status write keeps the types of what it writes.
LEMMA UpdateStatusType ==
    ASSUME TypeOK, NEW r \in Reservation, NEW s \in Statuses, UpdateStatus(r, s)
    PROVE  status' \in [Reservation -> Statuses] /\ claims' \subseteq Claim
  BY SyncedType DEF UpdateStatus, TypeOK

LEMMA InitType == Init => TypeOK
  BY DEF Init, TypeOK, Statuses, PaymentState, Ref, Never, Idle, Process

LEMMA BookType ==
    ASSUME TypeOK, NEW p \in Api, NEW r \in Reservation, NEW k \in Kind,
           NEW R \in CourtSets, NEW t \in Period, NEW s \in finalStatus(k),
           Book(p, r, k, R, t, s)
    PROVE  TypeOK'
  <1>1. p \in Process
    BY DEF Process
  <1>2. s \in Statuses /\ k \in Kinds
    BY ConstantsAssumption DEF finalStatus, Statuses, Methods
  <1>3. claims' \subseteq Claim
    <2>1. PICK rooms \in Rooms(k, R) :
             claims' = claims \cup {Rows(r, 0, rooms, t, s \in TriggerStatuses)}
      BY DEF Book
    <2>2. rooms \subseteq Court \cup Coach
      BY ConstantsAssumption DEF Rooms
    <2>3. (s \in TriggerStatuses) \in BOOLEAN
      OBVIOUS
    <2>4. Rows(r, 0, rooms, t, s \in TriggerStatuses) \in Claim
      BY <2>2, <2>3, RowsType
    <2>5. QED
      BY <2>1, <2>4 DEF TypeOK
  <1>4. hold' \in [Reservation -> Nat \cup {Never}]
    BY ConstantsAssumption DEF Book, TypeOK
  <1>5. req' \in [Process -> Requests \cup {Idle}]
    BY <1>1, ReqType DEF Book, Begin, TypeOK, Op
  <1>6. QED
    BY <1>2, <1>3, <1>4, <1>5 DEF Book, TypeOK

\* Steps that only start a handler.
LEMMA ReadType ==
    ASSUME TypeOK, NEW p \in Process, NEW next \in Requests \cup {Idle},
           Begin(p, next) \/ Continue(p, next)
    PROVE  req' \in [Process -> Requests \cup {Idle}]
  BY DEF TypeOK, Begin, Continue

LEMMA FinishType ==
    ASSUME TypeOK, NEW p \in Process, Finish(p)
    PROVE  req' \in [Process -> Requests \cup {Idle}]
  BY DEF TypeOK, Finish

LEMMA ArriveType ==
    ASSUME TypeOK, NEW p \in Api, NEW r \in Reservation, Arrive(p, r)
    PROVE  TypeOK'
  <1>0. p \in Process
    BY DEF Process
  <1>1. CASE \E k \in Kind, R \in CourtSets, t \in Period :
               \E s \in finalStatus(k) : Book(p, r, k, R, t, s)
    BY <1>1, BookType
  <1>2. CASE ConfirmRead(p, r)
    <2>1. Req("confirm", r) \in Requests
      BY ReqType DEF Op
    <2>2. req' \in [Process -> Requests \cup {Idle}]
      BY <1>0, <1>2, <2>1, ReadType DEF ConfirmRead
    <2>3. QED
      BY <1>2, <2>2 DEF ConfirmRead, TypeOK
  <1>3. CASE MarkPaid(p, r)
    BY <1>3 DEF MarkPaid, TypeOK, PaymentState
  <1>4. CASE NoShowRead(p, r)
    <2>1. Req("noShow", r) \in Requests
      BY ReqType DEF Op
    <2>2. req' \in [Process -> Requests \cup {Idle}]
      BY <1>0, <1>4, <2>1, ReadType DEF NoShowRead
    <2>3. QED
      BY <1>4, <2>2 DEF NoShowRead, TypeOK
  <1>5. CASE ReleaseRead(p, r)
    <2>1. Req("release", r) \in Requests
      BY ReqType DEF Op
    <2>2. req' \in [Process -> Requests \cup {Idle}]
      BY <1>0, <1>5, <2>1, ReadType DEF ReleaseRead
    <2>3. QED
      BY <1>5, <2>2 DEF ReleaseRead, TypeOK
  <1>6. CASE MoveRead(p, r)
    <2>1. [Req("move", r) EXCEPT !.at = now] \in Requests
      BY DEF Req, Requests, Op, Share, Ref, TypeOK
    <2>2. req' \in [Process -> Requests \cup {Idle}]
      BY <1>0, <1>6, <2>1, ReadType DEF MoveRead
    <2>3. QED
      BY <1>6, <2>2 DEF MoveRead, TypeOK
  <1>7. ASSUME NEW share \in Share, CancelRead(p, r, share)
        PROVE  TypeOK'
    <2>1. [Req("cancel", r) EXCEPT
             !.share = IF payment[r].state = "CAPTURED" THEN share ELSE "none",
             !.ref = payment[r].ref] \in Requests
      BY DEF Req, Requests, Op, Share, TypeOK
    <2>2. req' \in [Process -> Requests \cup {Idle}]
      BY <1>0, <1>7, <2>1, ReadType DEF CancelRead
    <2>3. QED
      BY <1>7, <2>2 DEF CancelRead, TypeOK
  <1>8. CASE CancelUpcoming(p, r)
    <2>1. "CANCELLED" \in Statuses
      BY DEF Statuses
    <2>2. status' \in [Reservation -> Statuses] /\ claims' \subseteq Claim
      BY <1>8, <2>1, UpdateStatusType DEF CancelUpcoming
    <2>3. QED
      BY <1>8, <2>2 DEF CancelUpcoming, TypeOK
  <1>9. QED
    BY <1>1, <1>2, <1>3, <1>4, <1>5, <1>6, <1>7, <1>8 DEF Arrive

LEMMA DeliverType ==
    ASSUME TypeOK, NEW p \in Api, NEW r \in Reservation, Deliver(p, r)
    PROVE  TypeOK'
  <1>0. p \in Process
    BY DEF Process
  <1>1. CASE PaidRead(p, r)
    <2>1. Req("paid", r) \in Requests
      BY ReqType DEF Op
    <2>2. req' \in [Process -> Requests \cup {Idle}]
      BY <1>0, <1>1, <2>1, ReadType DEF PaidRead
    <2>3. QED
      BY <1>1, <2>2 DEF PaidRead, TypeOK
  <1>2. CASE FailedRead(p, r)
    <2>1. Req("failed", r) \in Requests
      BY ReqType DEF Op
    <2>2. req' \in [Process -> Requests \cup {Idle}]
      BY <1>0, <1>2, <2>1, ReadType DEF FailedRead
    <2>3. QED
      BY <1>2, <2>2 DEF FailedRead, TypeOK
  <1>3. QED
    BY <1>1, <1>2 DEF Deliver

LEMMA ExpireReadType ==
    ASSUME TypeOK, NEW w \in Worker, NEW r \in Reservation, ExpireRead(w, r)
    PROVE  TypeOK'
  <1>0. w \in Process
    BY DEF Process
  <1>1. Req("expire", r) \in Requests
    BY ReqType DEF Op
  <1>2. req' \in [Process -> Requests \cup {Idle}]
    BY <1>0, <1>1, ReadType DEF ExpireRead
  <1>3. job' \in [Reservation -> Nat \cup {Never}]
    BY DEF ExpireRead, TypeOK
  <1>4. QED
    BY <1>2, <1>3 DEF ExpireRead, TypeOK

\* The steps of a booking that follow its transaction.
LEMMA CheckoutType ==
    ASSUME TypeOK, NEW p \in Process,
           ScheduleExpiry(p) \/ CreateCheckout(p) \/ RecordPayment(p)
    PROVE  TypeOK'
  <1>1. CASE ScheduleExpiry(p)
    <2>1. req[p].res \in Reservation
      BY <1>1, AtType DEF ScheduleExpiry, Op
    <2>2. Req("checkout", req[p].res) \in Requests
      BY <2>1, ReqType DEF Op
    <2>3. req' \in [Process -> Requests \cup {Idle}]
      BY <1>1, <2>2, ReadType DEF ScheduleExpiry
    <2>4. QED
      BY <1>1, <2>1, <2>3 DEF ScheduleExpiry, JobDue, TypeOK
  <1>2. CASE CreateCheckout(p)
    <2>1. req[p].res \in Reservation
      BY <1>2, AtType DEF CreateCheckout, Op
    <2>2. Req("record", req[p].res) \in Requests
      BY <2>1, ReqType DEF Op
    <2>3. req' \in [Process -> Requests \cup {Idle}]
      BY <1>2, <2>2, ReadType DEF CreateCheckout
    <2>4. QED
      BY <1>2, <2>1, <2>3 DEF CreateCheckout, TypeOK
  <1>3. CASE RecordPayment(p)
    <2>1. req[p].res \in Reservation
      BY <1>3, AtType DEF RecordPayment, Op
    <2>2. req' \in [Process -> Requests \cup {Idle}]
      BY <1>3, FinishType DEF RecordPayment
    <2>3. QED
      BY <1>3, <2>1, <2>2 DEF RecordPayment, TypeOK, PaymentState, Ref
  <1>4. QED
    BY <1>1, <1>2, <1>3

\* Staff approvals, no-shows and releases.
LEMMA StaffType ==
    ASSUME TypeOK, NEW p \in Process,
           ConfirmWrite(p) \/ NoShowWrite(p) \/ ReleaseWrite(p)
    PROVE  TypeOK'
  <1>1. req' \in [Process -> Requests \cup {Idle}]
    BY FinishType DEF ConfirmWrite, NoShowWrite, ReleaseWrite
  <1>2. {"CONFIRMED", "NO_SHOW", "CANCELLED"} \subseteq Statuses
    BY DEF Statuses
  <1>3. CASE ConfirmWrite(p)
    <2>1. req[p].res \in Reservation
      BY <1>3, AtType DEF ConfirmWrite, Op
    <2>2. status' \in [Reservation -> Statuses] /\ claims' \subseteq Claim
      <3>1. CASE UpdateStatus(req[p].res, "CONFIRMED")
        BY <1>2, <2>1, <3>1, UpdateStatusType
      <3>2. CASE UNCHANGED <<status, claims>>
        BY <3>2 DEF TypeOK
      <3>3. QED
        BY <1>3, <3>1, <3>2 DEF ConfirmWrite
    <2>3. hold' \in [Reservation -> Nat \cup {Never}]
      BY <1>3 DEF ConfirmWrite, TypeOK
    <2>4. QED
      BY <1>1, <1>3, <2>2, <2>3 DEF ConfirmWrite, TypeOK
  <1>4. CASE NoShowWrite(p)
    <2>1. req[p].res \in Reservation
      BY <1>4, AtType DEF NoShowWrite, Op
    <2>2. status' \in [Reservation -> Statuses] /\ claims' \subseteq Claim
      BY <1>2, <1>4, <2>1, UpdateStatusType DEF NoShowWrite
    <2>3. QED
      BY <1>1, <1>4, <2>2 DEF NoShowWrite, TypeOK
  <1>5. CASE ReleaseWrite(p)
    <2>1. req[p].res \in Reservation
      BY <1>5, AtType DEF ReleaseWrite, Op
    <2>2. status' \in [Reservation -> Statuses] /\ claims' \subseteq Claim
      BY <1>2, <1>5, <2>1, UpdateStatusType DEF ReleaseWrite
    <2>3. QED
      BY <1>1, <1>5, <2>2 DEF ReleaseWrite, TypeOK
  <1>6. QED
    BY <1>3, <1>4, <1>5

\* The steps of a reschedule.
LEMMA MoveDeleteType ==
    ASSUME TypeOK, NEW p \in Process, MoveDelete(p)
    PROVE  TypeOK'
  <1>1. req[p].res \in Reservation
    BY AtType DEF MoveDelete, Op
  <1>2. SeenRows(req[p].res) \subseteq Nat
    BY DEF SeenRows, TypeOK, Claim
  <1>3. [req[p] EXCEPT !.op = "moving", !.old = SeenRows(req[p].res)] \in Requests
    BY <1>2, AtType DEF MoveDelete, Requests, Op
  <1>4. req' \in [Process -> Requests \cup {Idle}]
    BY <1>3, ReadType DEF MoveDelete
  <1>5. QED
    BY <1>4 DEF MoveDelete, TypeOK

LEMMA MoveCommitType ==
    ASSUME TypeOK, NEW p \in Process, NEW R \in CourtSets, NEW t \in Period,
           MoveCommit(p, R, t)
    PROVE  TypeOK'
  <1> DEFINE r    == req[p].res
             kept == {c \in claims : ~ (c.res = r /\ c.gen \in req[p].old)}
  <1>1. r \in Reservation
    BY AtType DEF MoveCommit, Op
  <1>2. req' \in [Process -> Requests \cup {Idle}]
    BY FinishType DEF MoveCommit
  <1>3. moves[r] + 1 \in Nat
    BY <1>1 DEF TypeOK
  <1>4. Rows(r, moves[r] + 1, R, t, TRUE) \in Claim
    BY <1>1, <1>3, RowsType, ConstantsAssumption
  <1>5. CASE UNCHANGED <<claims, moves, bounds>>
    BY <1>2, <1>5 DEF MoveCommit, TypeOK
  <1>6. CASE /\ claims' = kept \cup {Rows(r, moves[r] + 1, R, t, TRUE)}
             /\ moves' = [moves EXCEPT ![r] = @ + 1]
             /\ bounds' = MovedBounds(r, t)
    <2>1. claims' \subseteq Claim
      BY <1>4, <1>6 DEF TypeOK
    <2>2. moves' \in [Reservation -> Nat]
      BY <1>1, <1>6 DEF TypeOK
    <2>3. bounds' \in [Reservation -> Period \cup {NoPeriod}]
      BY <1>6 DEF TypeOK, MovedBounds
    <2>4. QED
      BY <1>2, <2>1, <2>2, <2>3 DEF MoveCommit, TypeOK
  <1>7. QED
    BY <1>5, <1>6 DEF MoveCommit

\* Cancellation and its refund.
LEMMA CancelType ==
    ASSUME TypeOK, NEW p \in Process, CancelCommit(p) \/ Refund(p)
    PROVE  TypeOK'
  <1>1. CASE CancelCommit(p)
    <2> DEFINE r    == req[p].res
               next == [Req("refund", r) EXCEPT !.ref = req[p].ref]
    <2>1. r \in Reservation /\ req[p].ref \in Ref
      BY <1>1, AtType DEF CancelCommit, Op
    <2>2. status' \in [Reservation -> Statuses] /\ claims' \subseteq Claim
      BY <1>1, <2>1, UpdateStatusType DEF CancelCommit, Statuses
    <2>3. payment' \in [Reservation -> [state: PaymentState, ref: Ref]]
      BY <1>1 DEF CancelCommit, TypeOK, PaymentState
    <2>4. next \in Requests
      BY <2>1 DEF Req, Requests, Op, Share
    <2>5. req' \in [Process -> Requests \cup {Idle}]
      BY <1>1, <2>4 DEF CancelCommit, Continue, TypeOK
    <2>6. QED
      BY <1>1, <2>2, <2>3, <2>5 DEF CancelCommit, TypeOK
  <1>2. CASE Refund(p)
    <2>1. req' \in [Process -> Requests \cup {Idle}]
      BY <1>2, FinishType DEF Refund
    <2>2. refunds' \in [Reservation -> Nat]
      BY <1>2 DEF Refund, TypeOK
    <2>3. QED
      BY <1>2, <2>1, <2>2 DEF Refund, TypeOK
  <1>3. QED
    BY <1>1, <1>2

\* The webhooks.
LEMMA WebhookType ==
    ASSUME TypeOK, NEW p \in Process, PaidCommit(p) \/ FailedCommit(p)
    PROVE  TypeOK'
  <1>1. req' \in [Process -> Requests \cup {Idle}]
    BY FinishType DEF PaidCommit, FailedCommit
  <1>2. CASE PaidCommit(p)
    <2>1. req[p].res \in Reservation
      BY <1>2, AtType DEF PaidCommit, Op
    <2>2. status' \in [Reservation -> Statuses] /\ claims' \subseteq Claim
      <3>1. CASE UpdateStatus(req[p].res, "CONFIRMED")
        BY <2>1, <3>1, UpdateStatusType DEF Statuses
      <3>2. CASE UNCHANGED <<status, claims>>
        BY <3>2 DEF TypeOK
      <3>3. QED
        BY <1>2, <3>1, <3>2 DEF PaidCommit
    <2>3. hold' \in [Reservation -> Nat \cup {Never}]
      BY <1>2 DEF PaidCommit, TypeOK
    <2>4. payment' \in [Reservation -> [state: PaymentState, ref: Ref]]
      BY <1>2 DEF PaidCommit, TypeOK, PaymentState, Ref
    <2>5. QED
      BY <1>1, <1>2, <2>2, <2>3, <2>4 DEF PaidCommit, TypeOK
  <1>3. CASE FailedCommit(p)
    <2>1. req[p].res \in Reservation
      BY <1>3, AtType DEF FailedCommit, Op
    <2>2. status' \in [Reservation -> Statuses] /\ claims' \subseteq Claim
      BY <1>3, <2>1, UpdateStatusType DEF FailedCommit, Statuses
    <2>3. payment' \in [Reservation -> [state: PaymentState, ref: Ref]]
      BY <1>3 DEF FailedCommit, TypeOK, PaymentState
    <2>4. QED
      BY <1>1, <1>3, <2>2, <2>3 DEF FailedCommit, TypeOK
  <1>4. QED
    BY <1>2, <1>3

LEMMA ExpireType ==
    ASSUME TypeOK, NEW p \in Process, ExpireWrite(p) \/ ExpireFail(p)
    PROVE  TypeOK'
  <1>1. req' \in [Process -> Requests \cup {Idle}]
    BY FinishType DEF ExpireWrite, ExpireFail
  <1>2. job' \in [Reservation -> Nat \cup {Never}]
    BY DEF ExpireWrite, ExpireFail, TypeOK
  <1>3. CASE ExpireWrite(p)
    <2>1. req[p].res \in Reservation
      BY <1>3, AtType DEF ExpireWrite, Op
    <2>2. status' \in [Reservation -> Statuses] /\ claims' \subseteq Claim
      BY <1>3, <2>1, UpdateStatusType DEF ExpireWrite, Statuses
    <2>3. QED
      BY <1>1, <1>2, <1>3, <2>2 DEF ExpireWrite, TypeOK
  <1>4. CASE ExpireFail(p)
    BY <1>1, <1>2, <1>4 DEF ExpireFail, TypeOK
  <1>5. QED
    BY <1>3, <1>4

LEMMA ProceedType ==
    ASSUME TypeOK, NEW p \in Process, Proceed(p)
    PROVE  TypeOK'
  BY CheckoutType, StaffType, MoveDeleteType, MoveCommitType, CancelType,
     WebhookType, ExpireType DEF Proceed

\* The PSP, the clock, and a handler that is lost.
LEMMA EnvironmentType ==
    ASSUME TypeOK,
           \/ \E p \in Process : Crash(p)
           \/ \E r \in Reservation : PspPay(r) \/ PspEnd(r)
           \/ Tick
    PROVE  TypeOK'
  <1>1. ASSUME NEW p \in Process, Crash(p)
        PROVE  TypeOK'
    BY <1>1, FinishType DEF Crash, TypeOK
  <1>2. ASSUME NEW r \in Reservation, PspPay(r) \/ PspEnd(r)
        PROVE  TypeOK'
    BY <1>2 DEF PspPay, PspEnd, TypeOK
  <1>3. CASE Tick
    BY <1>3 DEF Tick, TypeOK
  <1>4. QED
    BY <1>1, <1>2, <1>3

LEMMA NextType == TypeOK /\ [Next]_vars => TypeOK'
  <1> SUFFICES ASSUME TypeOK, [Next]_vars PROVE TypeOK'
    OBVIOUS
  <1>1. CASE UNCHANGED vars
    BY <1>1 DEF vars, TypeOK
  <1>2. CASE Next
    BY <1>2, ArriveType, DeliverType, ExpireReadType, ProceedType, ExpireType,
       EnvironmentType DEF Next
  <1>3. QED
    BY <1>1, <1>2

\* Whatever the handlers do to each other, every row, payment, job and request
\* in flight keeps its type: a write never carries over a value a handler has
\* no business with.
THEOREM TypeCorrect == Spec => []TypeOK
  BY InitType, NextType, PTL DEF Spec

-----------------------------------------------------------------------------
(***************************************************************************)
(* What a step can do to the rows.                                         *)
(***************************************************************************)

\* A handler in flight is about a reservation that exists.
RequestsOnRows == \A p \in Process : req[p] # Idle => status[req[p].res] # "NONE"

\* One UPDATE of a status, with the trigger, that the constraint lets through.
StatusWrite(r, s) ==
    /\ status[r] # "NONE"
    /\ s \in Statuses \ {"NONE"}
    /\ s \in TriggerStatuses => ~ Refused(r, s)
    /\ UpdateStatus(r, s)
    /\ UNCHANGED bounds

\* One transaction that removes some rows of r and inserts the rows c.
RowsWrite(r, kept, c) ==
    /\ c.res = r
    /\ \A d \in claims \ kept : d.res = r
    /\ c.active => Free(kept, c.rooms, c.period)
    /\ claims' = kept \cup {c}
    /\ bounds' = [bounds EXCEPT ![r] = c.period]
    /\ \A o \in Reservation \ {r} : status'[o] = status[o]
    /\ status'[r] \in Occupying => c.active
    /\ status'[r] # "NONE"
    /\ status[r] # "NONE" => moves'[r] # moves[r]

RowStep ==
    \/ UNCHANGED <<status, bounds, claims>>
    \/ \E r \in Reservation, s \in Statuses : StatusWrite(r, s)
    \/ \E r \in Reservation, kept \in SUBSET claims, c \in Claim :
          RowsWrite(r, kept, c)

LEMMA BookStep ==
    ASSUME TypeOK, NEW p \in Api, NEW r \in Reservation, NEW k \in Kind,
           NEW R \in CourtSets, NEW t \in Period, NEW s \in finalStatus(k),
           Book(p, r, k, R, t, s)
    PROVE  RowStep /\ status'[r] # "NONE"
  <1>1. s \in Occupying /\ s \in TriggerStatuses /\ s # "NONE"
    BY ConstantsAssumption DEF finalStatus, TriggerStatuses, Occupying, Methods
  <1>2. PICK rooms \in Rooms(k, R) :
          /\ Free(claims, rooms, t)
          /\ claims' = claims \cup {Rows(r, 0, rooms, t, TRUE)}
    BY <1>1 DEF Book
  <1>3. rooms \in SUBSET (Court \cup Coach)
    BY ConstantsAssumption DEF Rooms
  <1> DEFINE c == Rows(r, 0, rooms, t, TRUE)
  <1>4. c \in Claim /\ c.res = r /\ c.rooms = rooms /\ c.period = t /\ c.active = TRUE
    BY <1>3 DEF Rows, Claim
  <1>5. status' = [status EXCEPT ![r] = s] /\ bounds' = [bounds EXCEPT ![r] = t]
    BY DEF Book
  <1>6. status'[r] = s
    BY <1>5 DEF TypeOK
  <1>7. claims' = claims \cup {c}
    BY <1>2
  <1> HIDE DEF c
  <1>8. RowsWrite(r, claims, c)
    BY <1>1, <1>2, <1>4, <1>5, <1>6, <1>7 DEF Book, RowsWrite, TypeOK
  <1>9. claims \in SUBSET claims
    OBVIOUS
  <1>10. QED
    BY <1>1, <1>4, <1>6, <1>8, <1>9 DEF RowStep

LEMMA MoveStep ==
    ASSUME TypeOK, RequestsOnRows, NEW p \in Process, NEW R \in CourtSets, NEW t \in Period,
           MoveCommit(p, R, t)
    PROVE  RowStep
  <1> DEFINE r    == req[p].res
             kept == {d \in claims : ~ (d.res = r /\ d.gen \in req[p].old)}
  <1>1. r \in Reservation
    BY AtType DEF MoveCommit, Op
  <1>2. CASE UNCHANGED <<claims, moves, bounds>>
    BY <1>2 DEF MoveCommit, RowStep
  <1>3. CASE /\ Free(kept, R, t)
             /\ claims' = kept \cup {Rows(r, moves[r] + 1, R, t, TRUE)}
             /\ moves' = [moves EXCEPT ![r] = @ + 1]
             /\ bounds' = MovedBounds(r, t)
    <2>0. status[r] # "NONE"
      BY DEF MoveCommit, At, Idle, RequestsOnRows
    <2>1. moves[r] + 1 \in Nat /\ moves'[r] # moves[r]
      BY <1>1, <1>3 DEF TypeOK
    <2> DEFINE c == Rows(r, moves[r] + 1, R, t, TRUE)
    <2>2. R \in SUBSET (Court \cup Coach)
      BY ConstantsAssumption
    <2>3. c \in Claim /\ c.res = r /\ c.rooms = R /\ c.period = t /\ c.active = TRUE
      BY <1>1, <2>1, <2>2 DEF Rows, Claim
    <2>4. status' = status
      BY DEF MoveCommit
    <2>5. kept \in SUBSET claims /\ \A d \in claims \ kept : d.res = r
      OBVIOUS
    <2>6. bounds' = [bounds EXCEPT ![r] = c.period]
      BY <1>3, <2>3 DEF MovedBounds
    <2>7. claims' = kept \cup {c} /\ Free(kept, c.rooms, c.period)
      BY <1>3, <2>3
    <2> HIDE DEF kept, r, c
    <2>8. RowsWrite(r, kept, c)
      BY <2>0, <2>1, <2>3, <2>4, <2>5, <2>6, <2>7 DEF RowsWrite
    <2>9. QED
      BY <1>1, <2>3, <2>5, <2>8 DEF RowStep
  <1>4. QED
    BY <1>2, <1>3 DEF MoveCommit

\* The handlers that write a status.
LEMMA StatusStep ==
    ASSUME TypeOK, RequestsOnRows, NEW p \in Process,
           \/ ConfirmWrite(p) \/ NoShowWrite(p) \/ ReleaseWrite(p)
           \/ CancelCommit(p) \/ PaidCommit(p) \/ FailedCommit(p) \/ ExpireWrite(p)
    PROVE  RowStep
  <1> DEFINE r == req[p].res
  <1>1. req[p] # Idle
    BY DEF ConfirmWrite, NoShowWrite, ReleaseWrite, CancelCommit, PaidCommit,
           FailedCommit, ExpireWrite, At, Idle
  <1>2. r \in Reservation /\ status[r] # "NONE"
    BY <1>1, InFlightType DEF RequestsOnRows
  <1>3. {"CONFIRMED", "NO_SHOW", "CANCELLED"} \subseteq Statuses \ {"NONE"}
    BY DEF Statuses
  <1>4. {"NO_SHOW", "CANCELLED"} \cap TriggerStatuses = {}
    BY DEF TriggerStatuses
  <1>5. \/ UNCHANGED <<status, bounds, claims>>
        \/ /\ UNCHANGED bounds
           /\ UpdateStatus(r, "CONFIRMED") /\ ~ Refused(r, "CONFIRMED")
        \/ UNCHANGED bounds /\ UpdateStatus(r, "NO_SHOW")
        \/ UNCHANGED bounds /\ UpdateStatus(r, "CANCELLED")
    BY DEF ConfirmWrite, NoShowWrite, ReleaseWrite, CancelCommit, PaidCommit,
           FailedCommit, ExpireWrite
  <1> HIDE DEF r
  <1>6. CASE UNCHANGED <<status, bounds, claims>>
    BY <1>6 DEF RowStep
  <1>7. ASSUME NEW s \in {"CONFIRMED", "NO_SHOW", "CANCELLED"},
               s = "CONFIRMED" => ~ Refused(r, s),
               UpdateStatus(r, s), UNCHANGED bounds
        PROVE  RowStep
    <2>1. s \in Statuses
      BY <1>3
    <2>2. StatusWrite(r, s)
      BY <1>2, <1>3, <1>4, <1>7 DEF StatusWrite
    <2>3. QED
      BY <1>2, <2>1, <2>2 DEF RowStep
  <1>8. QED
    BY <1>5, <1>6, <1>7

LEMMA NextStep == TypeOK /\ RequestsOnRows /\ [Next]_vars => RowStep
  <1> SUFFICES ASSUME TypeOK, RequestsOnRows, [Next]_vars
               PROVE  RowStep
    OBVIOUS
  <1>1. CASE UNCHANGED vars
    BY <1>1 DEF vars, RowStep
  <1>2. ASSUME NEW p \in Api, NEW r \in Reservation, Arrive(p, r)
        PROVE  RowStep
    <2>1. CASE \E k \in Kind, R \in CourtSets, t \in Period :
                 \E s \in finalStatus(k) : Book(p, r, k, R, t, s)
      BY <2>1, BookStep
    <2>2. CASE \/ ConfirmRead(p, r) \/ MarkPaid(p, r) \/ NoShowRead(p, r)
               \/ ReleaseRead(p, r) \/ MoveRead(p, r)
               \/ \E share \in Share : CancelRead(p, r, share)
      BY <2>2 DEF ConfirmRead, MarkPaid, NoShowRead, ReleaseRead, MoveRead,
                  CancelRead, RowStep
    <2>3. CASE CancelUpcoming(p, r)
      <3>1. StatusWrite(r, "CANCELLED") /\ "CANCELLED" \in Statuses
        BY <2>3 DEF CancelUpcoming, Live, StatusWrite, Statuses, TriggerStatuses
      <3>2. QED
        BY <3>1 DEF RowStep
    <2>4. QED
      BY <1>2, <2>1, <2>2, <2>3 DEF Arrive
  <1>3. ASSUME NEW p \in Api, NEW r \in Reservation, Deliver(p, r)
        PROVE  RowStep
    BY <1>3 DEF Deliver, PaidRead, FailedRead, RowStep
  <1>4. ASSUME NEW w \in Worker, NEW r \in Reservation, ExpireRead(w, r)
        PROVE  RowStep
    BY <1>4 DEF ExpireRead, RowStep
  <1>5. ASSUME NEW p \in Process, Proceed(p)
        PROVE  RowStep
    <2>1. CASE \/ ScheduleExpiry(p) \/ CreateCheckout(p) \/ RecordPayment(p)
               \/ MoveDelete(p) \/ Refund(p)
      BY <2>1 DEF ScheduleExpiry, CreateCheckout, RecordPayment, MoveDelete,
                  Refund, RowStep
    <2>2. QED
      BY <1>5, <2>1, MoveStep, StatusStep DEF Proceed
  <1>6. ASSUME NEW p \in Process, ExpireFail(p) \/ Crash(p)
        PROVE  RowStep
    BY <1>6 DEF ExpireFail, Crash, RowStep
  <1>7. ASSUME NEW r \in Reservation, PspPay(r) \/ PspEnd(r)
        PROVE  RowStep
    BY <1>7 DEF PspPay, PspEnd, RowStep
  <1>8. CASE Tick
    BY <1>8 DEF Tick, RowStep
  <1>9. QED
    BY <1>1, <1>2, <1>3, <1>4, <1>5, <1>6, <1>7, <1>8 DEF Next

-----------------------------------------------------------------------------
(***************************************************************************)
(* The invariant.                                                          *)
(***************************************************************************)

\* Every reservation that exists has rows with its own hours, and while it
\* occupies inventory they are active.
CurrentRows ==
    \A r \in Reservation : status[r] # "NONE" =>
        \E c \in claims : /\ c.res = r
                          /\ c.period = bounds[r]
                          /\ status[r] \in Occupying => c.active

IInv ==
    /\ TypeOK
    /\ RequestsOnRows
    /\ no_resource_overlap(claims)
    /\ CurrentRows

LEMMA InitInv == Init => IInv
  BY InitType DEF Init, IInv, RequestsOnRows, no_resource_overlap, CurrentRows

\* The constraint: each way to write rows keeps the active ones apart.
LEMMA KeptApart ==
    ASSUME TypeOK, no_resource_overlap(claims), RowStep
    PROVE  no_resource_overlap(claims')
  <1>1. CASE UNCHANGED <<status, bounds, claims>>
    BY <1>1
  <1>2. ASSUME NEW r \in Reservation, NEW s \in Statuses, StatusWrite(r, s)
        PROVE  no_resource_overlap(claims')
    <2>1. claims' = Synced(r, s)
      BY <1>2 DEF StatusWrite, UpdateStatus
    <2>2. CASE s \in TriggerStatuses
      BY <1>2, <2>1, <2>2 DEF StatusWrite, Refused
    <2>3. CASE s \notin TriggerStatuses
      <3>1. ASSUME NEW d \in claims', d.active
            PROVE  d \in claims
        <4>1. \A c \in claims : ~ SetActive(c, s \in TriggerStatuses).active
          <5>1. \A c \in claims : c \in Claim
            BY DEF TypeOK
          <5>2. \A c \in claims : SetActive(c, FALSE).active = FALSE
            BY <5>1, SetActiveType
          <5>3. (s \in TriggerStatuses) = FALSE
            BY <2>3
          <5>4. QED
            BY <5>2, <5>3
        <4>2. QED
          BY <2>1, <3>1, <4>1 DEF Synced
      <3>2. QED
        BY <3>1 DEF no_resource_overlap
    <2>4. QED
      BY <2>2, <2>3
  <1>3. ASSUME NEW r \in Reservation, NEW kept \in SUBSET claims, NEW c \in Claim,
               RowsWrite(r, kept, c)
        PROVE  no_resource_overlap(claims')
    <2>1. \A d \in kept : c.active /\ d.active =>
             ~ Clash(c, d.rooms, d.period) /\ ~ Clash(d, c.rooms, c.period)
      BY <1>3 DEF RowsWrite, Free, Clash, Overlap
    <2>2. QED
      BY <1>3, <2>1 DEF RowsWrite, no_resource_overlap
  <1>4. QED
    BY <1>1, <1>2, <1>3 DEF RowStep

\* A reservation never loses the rows for its hours.
LEMMA KeptCurrent ==
    ASSUME TypeOK, CurrentRows, RowStep
    PROVE  CurrentRows'
  <1> SUFFICES ASSUME NEW o \in Reservation, status'[o] # "NONE"
               PROVE  \E c \in claims' : /\ c.res = o
                                         /\ c.period = bounds'[o]
                                         /\ status'[o] \in Occupying => c.active
    BY DEF CurrentRows
  <1>1. CASE UNCHANGED <<status, bounds, claims>>
    BY <1>1 DEF CurrentRows
  <1>2. ASSUME NEW r \in Reservation, NEW s \in Statuses, StatusWrite(r, s)
        PROVE  \E c \in claims' : /\ c.res = o
                                  /\ c.period = bounds'[o]
                                  /\ status'[o] \in Occupying => c.active
    <2> DEFINE b == s \in TriggerStatuses
    <2>1. /\ status' = [status EXCEPT ![r] = s]
          /\ claims' = Synced(r, s)
          /\ bounds' = bounds
          /\ status[r] # "NONE"
      BY <1>2 DEF StatusWrite, UpdateStatus
    <2>2. status[o] # "NONE"
      BY <2>1 DEF TypeOK
    <2>3. PICK c \in claims : /\ c.res = o
                              /\ c.period = bounds[o]
                              /\ status[o] \in Occupying => c.active
      BY <2>2 DEF CurrentRows
    <2>4. CASE s = status[r] \/ o # r
      BY <2>1, <2>3, <2>4 DEF Synced, TypeOK
    <2>5. CASE s # status[r] /\ o = r
      <3>1. c \in Claim /\ b \in BOOLEAN
        BY DEF TypeOK
      <3>2. SetActive(c, b) \in claims'
        BY <2>1, <2>3, <2>5 DEF Synced
      <3>3. status'[o] = s
        BY <2>1, <2>5 DEF TypeOK
      <3>4. s \in Occupying => b = TRUE
        BY DEF Occupying, TriggerStatuses
      <3> HIDE DEF b
      <3>5. /\ SetActive(c, b).res = o
            /\ SetActive(c, b).period = bounds'[o]
            /\ SetActive(c, b).active = b
        BY <2>1, <2>3, <3>1, SetActiveType
      <3>6. QED
        BY <3>2, <3>3, <3>4, <3>5
    <2>6. QED
      BY <2>4, <2>5
  <1>3. ASSUME NEW r \in Reservation, NEW kept \in SUBSET claims, NEW c \in Claim,
               RowsWrite(r, kept, c)
        PROVE  \E d \in claims' : /\ d.res = o
                                  /\ d.period = bounds'[o]
                                  /\ status'[o] \in Occupying => d.active
    <2>1. CASE o = r
      BY <1>3, <2>1 DEF RowsWrite, TypeOK
    <2>2. CASE o # r
      <3>1. status[o] # "NONE" /\ status'[o] = status[o] /\ bounds'[o] = bounds[o]
        BY <1>3, <2>2 DEF RowsWrite, TypeOK
      <3>2. PICK d \in claims : /\ d.res = o
                                /\ d.period = bounds[o]
                                /\ status[o] \in Occupying => d.active
        BY <3>1 DEF CurrentRows
      <3>3. d \in claims'
        BY <1>3, <2>2, <3>2 DEF RowsWrite
      <3>4. QED
        BY <3>1, <3>2, <3>3
    <2>3. QED
      BY <2>1, <2>2
  <1>4. QED
    BY <1>1, <1>2, <1>3 DEF RowStep

\* A row never goes away.
LEMMA RowsStay ==
    ASSUME TypeOK, RowStep, NEW r \in Reservation, status[r] # "NONE"
    PROVE  status'[r] # "NONE"
  <1>1. ASSUME NEW o \in Reservation, NEW s \in Statuses, StatusWrite(o, s)
        PROVE  status'[r] # "NONE"
    BY <1>1 DEF StatusWrite, UpdateStatus, TypeOK
  <1>2. ASSUME NEW o \in Reservation, NEW kept \in SUBSET claims, NEW c \in Claim,
               RowsWrite(o, kept, c)
        PROVE  status'[r] # "NONE"
    BY <1>2 DEF RowsWrite
  <1>3. QED
    BY <1>1, <1>2 DEF RowStep

\* Where the row of a handler in flight comes from: it had it already, or the
\* handler starts with a row that is there.
Carried(q) ==
    \/ req'[q] = Idle
    \/ req[q] # Idle /\ req'[q].res = req[q].res
    \/ \E r \in Reservation : req'[q].res = r /\ status'[r] # "NONE"

LEMMA ArriveCarries ==
    ASSUME TypeOK, NEW p \in Api, NEW r \in Reservation, Arrive(p, r), RowStep,
           NEW q \in Process
    PROVE  Carried(q)
  <1>0. p \in Process
    BY DEF Process
  <1>1. CASE q # p
    <2>1. req'[q] = req[q]
      BY <1>1 DEF Arrive, Book, ConfirmRead, MarkPaid, NoShowRead, ReleaseRead,
                  MoveRead, CancelRead, CancelUpcoming, Begin, TypeOK
    <2>2. QED
      BY <2>1 DEF Carried
  <1>2. CASE q = p
    <2>1. CASE \E k \in Kind, R \in CourtSets, t \in Period :
                 \E s \in finalStatus(k) : Book(p, r, k, R, t, s)
      <3>1. status'[r] # "NONE"
        BY <2>1, BookStep
      <3>2. req'[p] = Idle \/ req'[p] = Req("schedule", r)
        BY <1>0, <2>1 DEF Book, Begin, TypeOK
      <3>3. QED
        BY <1>2, <3>1, <3>2 DEF Req, Carried
    <2>2. CASE MarkPaid(p, r) \/ CancelUpcoming(p, r)
      BY <1>2, <2>2 DEF MarkPaid, CancelUpcoming, Carried
    <2>3. CASE \/ ConfirmRead(p, r) \/ NoShowRead(p, r) \/ ReleaseRead(p, r)
               \/ MoveRead(p, r)
      <3>1. status'[r] = status[r] /\ status[r] # "NONE"
        BY <2>3 DEF ConfirmRead, NoShowRead, ReleaseRead, MoveRead,
                    AwaitingApproval, Live
      <3>2. req'[p].res = r
        BY <1>0, <2>3 DEF ConfirmRead, NoShowRead, ReleaseRead, MoveRead, Begin,
                          TypeOK, Req
      <3>3. QED
        BY <1>2, <3>1, <3>2 DEF Carried
    <2>4. ASSUME NEW share \in Share, CancelRead(p, r, share)
          PROVE  Carried(q)
      <3>1. status'[r] = status[r] /\ status[r] # "NONE"
        BY <2>4 DEF CancelRead, Cancellable, Live
      <3>2. req'[p].res = r
        BY <1>0, <2>4 DEF CancelRead, Begin, TypeOK, Req
      <3>3. QED
        BY <1>2, <3>1, <3>2 DEF Carried
    <2>5. QED
      BY <1>2, <2>1, <2>2, <2>3, <2>4 DEF Arrive
  <1>3. QED
    BY <1>1, <1>2

LEMMA OthersCarry ==
    ASSUME TypeOK, RequestsOnRows, RowStep, NEW q \in Process,
           \/ \E p \in Api, r \in Reservation : Deliver(p, r)
           \/ \E w \in Worker, r \in Reservation : ExpireRead(w, r)
           \/ \E p \in Process : ExpireFail(p) \/ Crash(p)
           \/ \E r \in Reservation : PspPay(r) \/ PspEnd(r)
           \/ Tick \/ UNCHANGED vars
    PROVE  Carried(q)
  <1>1. ASSUME NEW p \in Process, NEW r \in Reservation, NEW op \in Op,
               status[r] # "NONE", req' = [req EXCEPT ![p] = Req(op, r)]
        PROVE  Carried(q)
    <2>1. status'[r] # "NONE"
      BY <1>1, RowsStay
    <2>2. req'[q] = IF q = p THEN Req(op, r) ELSE req[q]
      BY <1>1 DEF TypeOK
    <2>3. QED
      BY <2>1, <2>2 DEF Req, Carried
  <1>2. ASSUME NEW p \in Process, Finish(p)
        PROVE  Carried(q)
    BY <1>2 DEF Finish, Carried, TypeOK
  <1>3. ASSUME NEW p \in Api, NEW r \in Reservation, Deliver(p, r)
        PROVE  Carried(q)
    BY <1>1, <1>3 DEF Deliver, PaidRead, FailedRead, Begin, Process, Op
  <1>4. ASSUME NEW w \in Worker, NEW r \in Reservation, ExpireRead(w, r)
        PROVE  Carried(q)
    <2>1. CASE Expirable(r) /\ Begin(w, Req("expire", r))
      BY <1>1, <2>1 DEF Expirable, Begin, Process, Op
    <2>2. CASE Begin(w, Idle)
      BY <1>2, <2>2 DEF Begin, Finish, Process
    <2>3. QED
      BY <1>4, <2>1, <2>2 DEF ExpireRead
  <1>5. ASSUME NEW p \in Process, ExpireFail(p) \/ Crash(p)
        PROVE  Carried(q)
    BY <1>2, <1>5 DEF ExpireFail, Crash
  <1>6. CASE (\E r \in Reservation : PspPay(r) \/ PspEnd(r)) \/ Tick \/ UNCHANGED vars
    BY <1>6 DEF PspPay, PspEnd, Tick, vars, Carried
  <1>7. QED
    BY <1>3, <1>4, <1>5, <1>6

LEMMA ProceedCarries ==
    ASSUME TypeOK, NEW p \in Process, Proceed(p), NEW q \in Process
    PROVE  Carried(q)
  <1>1. CASE Finish(p)
    BY <1>1 DEF Finish, Carried, TypeOK
  <1>2. ASSUME NEW op \in Op, NEW next, At(p, op), next.res = req[p].res,
               Continue(p, next)
        PROVE  Carried(q)
    <2>1. req[p] # Idle
      BY <1>2 DEF At, Op, Idle
    <2>2. req'[q] = IF q = p THEN next ELSE req[q]
      BY <1>2 DEF Continue, TypeOK
    <2>3. QED
      BY <1>2, <2>1, <2>2 DEF Carried
  <1>3. CASE ScheduleExpiry(p)
    <2>1. Req("checkout", req[p].res).res = req[p].res
      BY DEF Req
    <2>2. QED
      BY <1>2, <1>3, <2>1 DEF ScheduleExpiry, Op
  <1>4. CASE CreateCheckout(p)
    <2>1. Req("record", req[p].res).res = req[p].res
      BY DEF Req
    <2>2. QED
      BY <1>2, <1>4, <2>1 DEF CreateCheckout, Op
  <1>5. CASE MoveDelete(p)
    <2> DEFINE next == [req[p] EXCEPT !.op = "moving", !.old = SeenRows(req[p].res)]
    <2>1. next.res = req[p].res
      <3>1. req[p] \in Requests
        BY <1>5, AtType DEF MoveDelete, Op
      <3>2. QED
        BY <3>1 DEF Requests
    <2>2. At(p, "move") /\ Continue(p, next)
      BY <1>5 DEF MoveDelete
    <2> HIDE DEF next
    <2>3. QED
      BY <1>2, <2>1, <2>2 DEF Op
  <1>6. CASE CancelCommit(p)
    <2> DEFINE next == [Req("refund", req[p].res) EXCEPT !.ref = req[p].ref]
    <2>1. next.res = req[p].res
      BY DEF Req
    <2>2. At(p, "cancel") /\ (Continue(p, next) \/ Continue(p, Idle))
      BY <1>6 DEF CancelCommit
    <2> HIDE DEF next
    <2>3. CASE Continue(p, Idle)
      BY <1>1, <2>3 DEF Continue, Finish
    <2>4. QED
      BY <1>2, <2>1, <2>2, <2>3 DEF Op
  <1>7. CASE \/ RecordPayment(p) \/ ConfirmWrite(p) \/ NoShowWrite(p)
             \/ ReleaseWrite(p) \/ Refund(p) \/ PaidCommit(p) \/ FailedCommit(p)
             \/ ExpireWrite(p) \/ \E R \in CourtSets, t \in Period : MoveCommit(p, R, t)
    BY <1>1, <1>7 DEF RecordPayment, ConfirmWrite, NoShowWrite, ReleaseWrite,
       Refund, PaidCommit, FailedCommit, ExpireWrite, MoveCommit
  <1>8. QED
    BY <1>3, <1>4, <1>5, <1>6, <1>7 DEF Proceed

LEMMA RequestsKept ==
    ASSUME TypeOK, RequestsOnRows, [Next]_vars, RowStep
    PROVE  RequestsOnRows'
  <1> SUFFICES ASSUME NEW q \in Process, req'[q] # Idle
               PROVE  status'[req'[q].res] # "NONE"
    BY DEF RequestsOnRows
  <1>1. Carried(q)
    BY ArriveCarries, OthersCarry, ProceedCarries DEF Next
  <1>2. CASE req[q] # Idle /\ req'[q].res = req[q].res
    BY <1>2, InFlightType, RowsStay DEF RequestsOnRows
  <1>3. QED
    BY <1>1, <1>2 DEF Carried

LEMMA NextInv == IInv /\ [Next]_vars => IInv'
  <1> SUFFICES ASSUME IInv, [Next]_vars PROVE IInv'
    OBVIOUS
  <1>1. TypeOK /\ RequestsOnRows /\ no_resource_overlap(claims) /\ CurrentRows
    BY DEF IInv
  <1>2. TypeOK' /\ RowStep
    BY <1>1, NextType, NextStep
  <1>3. RequestsOnRows' /\ no_resource_overlap(claims') /\ CurrentRows'
    BY <1>1, <1>2, RequestsKept, KeptApart, KeptCurrent
  <1>4. QED
    BY <1>2, <1>3 DEF IInv

THEOREM Inductive == Spec => []IInv
  BY InitInv, NextInv, PTL DEF Spec

\* NoDoubleBooking for every interleaving of every handler: the constraint is
\* what every transaction and every trigger is measured by.
THEOREM NeverDoubleBooked == Spec => []NoDoubleBooking
  <1>1. IInv => NoDoubleBooking
    <2> SUFFICES ASSUME IInv, NEW c \in claims, NEW d \in claims, c.active,
                        d.active, Overlap(c.period, d.period), c # d
                 PROVE  c.rooms \cap d.rooms = {}
      BY DEF NoDoubleBooking
    <2>1. QED
      BY DEF IInv, no_resource_overlap, Clash
  <1>2. QED
    BY <1>1, Inductive, PTL

\* A booking that is on is one the conflict query sees, at its own hours,
\* whatever moves, approvals, payments and cancellations raced over it.
THEOREM LiveBookingsHoldInventory == Spec => []LiveHoldsInventory
  <1>1. IInv => LiveHoldsInventory
    <2> SUFFICES ASSUME IInv, NEW r \in Reservation, status[r] \in Occupying
                 PROVE  \E c \in claims : /\ c.res = r
                                          /\ c.active
                                          /\ c.period = bounds[r]
      BY DEF LiveHoldsInventory
    <2>1. status[r] # "NONE"
      BY DEF Occupying
    <2>2. QED
      BY <2>1 DEF IInv, CurrentRows
  <1>2. QED
    BY <1>1, Inductive, PTL

-----------------------------------------------------------------------------
(***************************************************************************)
(* The worker and the clock.                                               *)
(***************************************************************************)

\* Whoever is about to expire a reservation does so after its hold.
DueHolds == \A p \in Process : At(p, "expire") => Elapsed(hold[req[p].res])

\* A hold is set with the booking and afterwards only taken away.
LEMMA HoldsStay ==
    ASSUME TypeOK, [Next]_vars, NEW r \in Reservation, status[r] # "NONE"
    PROVE  now' \in Nat /\ now <= now' /\ hold'[r] \in {hold[r], Never}
  <1>1. CASE UNCHANGED vars
    BY <1>1 DEF vars, TypeOK
  <1>2. ASSUME NEW p \in Api, NEW o \in Reservation, Arrive(p, o)
        PROVE  now' = now /\ hold'[r] = hold[r]
    <2>1. CASE \E k \in Kind, R \in CourtSets, t \in Period :
                 \E s \in finalStatus(k) : Book(p, o, k, R, t, s)
      BY <2>1 DEF Book, TypeOK
    <2>2. CASE \/ ConfirmRead(p, o) \/ MarkPaid(p, o) \/ NoShowRead(p, o)
               \/ ReleaseRead(p, o) \/ MoveRead(p, o)
               \/ \E share \in Share : CancelRead(p, o, share)
               \/ CancelUpcoming(p, o)
      BY <2>2 DEF ConfirmRead, MarkPaid, NoShowRead, ReleaseRead, MoveRead, CancelRead,
                  CancelUpcoming
    <2>3. QED
      BY <1>2, <2>1, <2>2 DEF Arrive
  <1>3. ASSUME NEW p \in Process, Proceed(p)
        PROVE  now' = now /\ hold'[r] \in {hold[r], Never}
    <2>1. CASE ConfirmWrite(p) \/ PaidCommit(p)
      BY <2>1 DEF ConfirmWrite, PaidCommit, TypeOK
    <2>2. CASE \/ ScheduleExpiry(p) \/ CreateCheckout(p) \/ RecordPayment(p)
               \/ NoShowWrite(p) \/ ReleaseWrite(p) \/ MoveDelete(p)
               \/ \E R \in CourtSets, t \in Period : MoveCommit(p, R, t)
               \/ CancelCommit(p) \/ Refund(p) \/ FailedCommit(p) \/ ExpireWrite(p)
      BY <2>2 DEF ScheduleExpiry, CreateCheckout, RecordPayment, NoShowWrite,
                  ReleaseWrite, MoveDelete, MoveCommit, CancelCommit, Refund,
                  FailedCommit, ExpireWrite
    <2>3. QED
      BY <1>3, <2>1, <2>2 DEF Proceed
  <1>4. CASE \/ \E p \in Api, o \in Reservation : Deliver(p, o)
             \/ \E w \in Worker, o \in Reservation : ExpireRead(w, o)
             \/ \E p \in Process : ExpireFail(p) \/ Crash(p)
             \/ \E o \in Reservation : PspPay(o) \/ PspEnd(o)
    BY <1>4 DEF Deliver, PaidRead, FailedRead, ExpireRead, ExpireFail, Crash,
                PspPay, PspEnd, TypeOK
  <1>5. CASE Tick
    BY <1>5 DEF Tick, TypeOK
  <1>6. QED
    BY <1>1, <1>2, <1>3, <1>4, <1>5 DEF Next, TypeOK

\* A step that puts a handler at something else puts none at an expiry.
LEMMA ElsewhereStep ==
    ASSUME TypeOK, NEW p \in Process, NEW next, req' = [req EXCEPT ![p] = next],
           next.op # "expire", NEW q \in Process, req'[q].op = "expire"
    PROVE  req'[q] = req[q]
  BY DEF TypeOK

LEMMA ArriveElsewhere ==
    ASSUME TypeOK, NEW p \in Api, NEW r \in Reservation,
           Arrive(p, r) \/ Deliver(p, r), NEW q \in Process, req'[q].op = "expire"
    PROVE  req'[q] = req[q]
  <1>0. p \in Process /\ Idle.op # "expire"
    BY DEF Process, Idle
  <1>1. ASSUME NEW op \in Op \ {"expire"}, Begin(p, Req(op, r))
        PROVE  req'[q] = req[q]
    <2>1. Req(op, r).op # "expire"
      BY DEF Req
    <2>2. QED
      BY <1>0, <1>1, <2>1, ElsewhereStep DEF Begin
  <1>2. CASE Begin(p, Idle)
    BY <1>0, <1>2, ElsewhereStep DEF Begin
  <1>3. CASE \E k \in Kind, R \in CourtSets, t \in Period :
               \E s \in finalStatus(k) : Book(p, r, k, R, t, s)
    <2>1. Begin(p, Req("schedule", r)) \/ Begin(p, Idle)
      BY <1>3 DEF Book
    <2>2. QED
      BY <1>1, <1>2, <2>1 DEF Op
  <1>4. CASE MoveRead(p, r)
    <2>1. [Req("move", r) EXCEPT !.at = now].op # "expire"
      BY DEF Req
    <2>2. QED
      BY <1>0, <1>4, <2>1, ElsewhereStep DEF MoveRead, Begin
  <1>5. ASSUME NEW share \in Share, CancelRead(p, r, share)
        PROVE  req'[q] = req[q]
    <2> DEFINE next == [Req("cancel", r) EXCEPT
               !.share = IF payment[r].state = "CAPTURED" THEN share ELSE "none",
               !.ref = payment[r].ref]
    <2>1. next.op # "expire"
      BY DEF Req
    <2>2. Begin(p, next)
      BY <1>5 DEF CancelRead
    <2> HIDE DEF next
    <2>3. QED
      BY <1>0, <2>1, <2>2, ElsewhereStep DEF Begin
  <1>6. CASE MarkPaid(p, r) \/ CancelUpcoming(p, r)
    BY <1>6 DEF MarkPaid, CancelUpcoming
  <1>7. CASE ConfirmRead(p, r) \/ NoShowRead(p, r) \/ ReleaseRead(p, r)
    BY <1>1, <1>7 DEF ConfirmRead, NoShowRead, ReleaseRead, Op
  <1>8. CASE Deliver(p, r)
    BY <1>1, <1>8 DEF Deliver, PaidRead, FailedRead, Op
  <1>9. QED
    BY <1>3, <1>4, <1>5, <1>6, <1>7, <1>8 DEF Arrive

LEMMA ProceedElsewhere ==
    ASSUME TypeOK, NEW p \in Process, Proceed(p) \/ ExpireFail(p) \/ Crash(p),
           NEW q \in Process, req'[q].op = "expire"
    PROVE  req'[q] = req[q]
  <1>1. ASSUME Finish(p)
        PROVE  req'[q] = req[q]
    <2>1. Idle.op # "expire"
      BY DEF Idle
    <2>2. QED
      BY <1>1, <2>1, ElsewhereStep DEF Finish
  <1>2. CASE ScheduleExpiry(p) \/ CreateCheckout(p)
    <2>1. \A r : Req("checkout", r).op # "expire" /\ Req("record", r).op # "expire"
      BY DEF Req
    <2>2. QED
      BY <1>2, <2>1, ElsewhereStep DEF ScheduleExpiry, CreateCheckout, Continue
  <1>3. CASE MoveDelete(p)
    <2>1. req[p] \in Requests
      BY <1>3, AtType DEF MoveDelete, Op
    <2>2. [req[p] EXCEPT !.op = "moving", !.old = SeenRows(req[p].res)].op # "expire"
      BY <2>1 DEF Requests
    <2>3. QED
      BY <1>3, <2>2, ElsewhereStep DEF MoveDelete, Continue
  <1>4. CASE CancelCommit(p)
    <2> DEFINE next == [Req("refund", req[p].res) EXCEPT !.ref = req[p].ref]
    <2>1. next.op # "expire"
      BY DEF Req
    <2>2. Continue(p, next) \/ Continue(p, Idle)
      BY <1>4 DEF CancelCommit
    <2> HIDE DEF next
    <2>3. QED
      BY <1>1, <2>1, <2>2, ElsewhereStep DEF Continue, Finish
  <1>5. CASE \/ RecordPayment(p) \/ ConfirmWrite(p) \/ NoShowWrite(p)
             \/ ReleaseWrite(p) \/ Refund(p) \/ PaidCommit(p) \/ FailedCommit(p)
             \/ ExpireWrite(p) \/ ExpireFail(p) \/ Crash(p)
             \/ \E R \in CourtSets, t \in Period : MoveCommit(p, R, t)
    BY <1>1, <1>5 DEF RecordPayment, ConfirmWrite, NoShowWrite, ReleaseWrite,
       Refund, PaidCommit, FailedCommit, ExpireWrite, ExpireFail, Crash, MoveCommit
  <1>6. QED
    BY <1>2, <1>3, <1>4, <1>5 DEF Proceed

LEMMA ExpireReadStarts ==
    ASSUME TypeOK, NEW w \in Worker, NEW r \in Reservation, ExpireRead(w, r),
           NEW q \in Process, req'[q].op = "expire"
    PROVE  \/ req'[q] = req[q]
           \/ Elapsed(hold[r]) /\ req'[q].res = r /\ hold' = hold /\ now' = now
  <1>0. w \in Process
    BY DEF Process
  <1>1. CASE Begin(w, Idle)
    <2>1. Idle.op # "expire"
      BY DEF Idle
    <2>2. QED
      BY <1>0, <1>1, <2>1, ElsewhereStep DEF Begin
  <1>2. CASE Expirable(r) /\ Begin(w, Req("expire", r))
    <2>1. req'[q] = IF q = w THEN Req("expire", r) ELSE req[q]
      BY <1>0, <1>2 DEF Begin, TypeOK
    <2>2. Req("expire", r).res = r
      BY DEF Req
    <2>3. hold' = hold /\ now' = now
      BY DEF ExpireRead
    <2>4. QED
      BY <1>2, <2>1, <2>2, <2>3 DEF Expirable
  <1>3. QED
    BY <1>1, <1>2 DEF ExpireRead

LEMMA DueHoldsKept ==
    ASSUME IInv, DueHolds, [Next]_vars
    PROVE  DueHolds'
  <1> SUFFICES ASSUME NEW q \in Process, req'[q].op = "expire"
               PROVE  hold'[req'[q].res] = Never \/ hold'[req'[q].res] <= now'
    BY DEF DueHolds, At, Elapsed
  <1>0. TypeOK
    BY DEF IInv
  <1>1. CASE req'[q] = req[q]
    <2>1. At(q, "expire")
      BY <1>1 DEF At
    <2> DEFINE r == req[q].res
    <2>2. r \in Reservation
      BY <1>0, <2>1, AtType DEF Op
    <2>3. status[r] # "NONE"
      <3>1. req[q] # Idle
        BY <2>1 DEF At, Idle
      <3>2. QED
        BY <3>1 DEF IInv, RequestsOnRows
    <2>4. now' \in Nat /\ now <= now' /\ hold'[r] \in {hold[r], Never}
      BY <1>0, <2>2, <2>3, HoldsStay
    <2>5. hold[r] = Never \/ hold[r] <= now
      BY <2>1 DEF DueHolds, Elapsed
    <2>6. now \in Nat /\ hold[r] \in Nat \cup {Never}
      BY <1>0, <2>2 DEF TypeOK
    <2> HIDE DEF r
    <2>7. hold'[r] = Never \/ hold'[r] <= now'
      BY <2>4, <2>5, <2>6 DEF Never
    <2>8. QED
      BY <1>1, <2>7 DEF r
  <1>2. ASSUME NEW w \in Worker, NEW r \in Reservation, ExpireRead(w, r),
               req'[q] # req[q]
        PROVE  hold'[req'[q].res] = Never \/ hold'[req'[q].res] <= now'
    BY <1>0, <1>2, ExpireReadStarts DEF Elapsed
  <1>3. CASE UNCHANGED vars
    BY <1>1, <1>3 DEF vars
  <1>4. CASE Next
    <2>1. CASE \E p \in Api, r \in Reservation : Arrive(p, r) \/ Deliver(p, r)
      BY <1>0, <1>1, <2>1, ArriveElsewhere
    <2>2. CASE \E w \in Worker, r \in Reservation : ExpireRead(w, r)
      BY <1>1, <1>2, <2>2
    <2>3. CASE \E p \in Process : Proceed(p) \/ ExpireFail(p) \/ Crash(p)
      BY <1>0, <1>1, <2>3, ProceedElsewhere
    <2>4. CASE (\E r \in Reservation : PspPay(r) \/ PspEnd(r)) \/ Tick
      BY <1>1, <2>4 DEF PspPay, PspEnd, Tick
    <2>5. QED
      BY <1>4, <2>1, <2>2, <2>3, <2>4 DEF Next
  <1>5. QED
    BY <1>3, <1>4

\* expireHold never takes the slot from a player who still has time to pay,
\* however long it waits between its read and its write and whatever else
\* happens to the reservation meanwhile.
THEOREM HoldsAreHonoured == Spec => HoldHonoured
  <1>1. Init => DueHolds
    BY DEF Init, DueHolds, At, Idle
  <1>2. TypeOK /\ DueHolds /\ [Next]_vars =>
          [\A w \in Worker :
             At(w, "expire") =>
                LET r == req[w].res IN
                  status[r] = "PENDING_PAYMENT" /\ status'[r] = "CANCELLED"
                    /\ req'[w] = Idle
                  => hold[r] <= now]_vars
    <2> SUFFICES ASSUME TypeOK, DueHolds, NEW w \in Worker, At(w, "expire")
                 PROVE  hold[req[w].res] <= now
      OBVIOUS
    <2>1. w \in Process
      BY DEF Process
    <2>2. hold[req[w].res] = Never \/ hold[req[w].res] <= now
      BY <2>1 DEF DueHolds, Elapsed
    <2>3. now \in Nat
      BY DEF TypeOK
    <2>4. QED
      BY <2>2, <2>3 DEF Never
  <1>3. IInv => TypeOK
    BY DEF IInv
  <1>4. IInv /\ DueHolds /\ [Next]_vars => DueHolds'
    BY DueHoldsKept
  <1>5. QED
    BY <1>1, <1>2, <1>3, <1>4, Inductive, PTL DEF Spec, HoldHonoured

-----------------------------------------------------------------------------
(***************************************************************************)
(* Reservations implements Inventory.                                      *)
(***************************************************************************)

\* What is in the ledger, and from which row.
LEMMA LedgerEntry ==
    ASSUME NEW r \in Reservation, NEW x
    PROVE  x \in ledger[r] <=>
             \E c \in claims : /\ c.res = r
                               /\ c.active
                               /\ \E m \in c.rooms : x = [room |-> m, period |-> c.period]
  BY DEF ledger

LEMMA LedgerType == TypeOK => ledger \in [Reservation -> SUBSET Ledger!Slot]
  <1> SUFFICES ASSUME TypeOK, NEW r \in Reservation, NEW x \in ledger[r]
               PROVE  x \in Ledger!Slot
    BY DEF ledger
  <1>1. PICK c \in claims :
          \E m \in c.rooms : x = [room |-> m, period |-> c.period]
    BY LedgerEntry
  <1>2. c \in Claim
    BY DEF TypeOK
  <1>3. QED
    BY <1>1, <1>2 DEF Claim, Ledger!Slot

\* Rows kept apart are a ledger without conflicts.
LEMMA LedgerExclusive == no_resource_overlap(claims) => Ledger!Exclusive(ledger)
  <1> SUFFICES ASSUME no_resource_overlap(claims),
                      NEW a \in Reservation, NEW b \in Reservation, a # b,
                      NEW x \in ledger[a], NEW y \in ledger[b],
                      Ledger!Conflict(x, y)
               PROVE  FALSE
    BY DEF Ledger!Exclusive
  <1>1. PICK c \in claims : /\ c.res = a /\ c.active
                            /\ \E m \in c.rooms : x = [room |-> m, period |-> c.period]
    BY LedgerEntry
  <1>2. PICK d \in claims : /\ d.res = b /\ d.active
                            /\ \E m \in d.rooms : y = [room |-> m, period |-> d.period]
    BY LedgerEntry
  <1>3. x.room \in c.rooms /\ x.period = c.period
    BY <1>1
  <1>4. y.room \in d.rooms /\ y.period = d.period
    BY <1>2
  <1>5. Clash(c, d.rooms, d.period)
    BY <1>3, <1>4 DEF Clash, Overlap, Ledger!Conflict
  <1>6. QED
    BY <1>1, <1>2, <1>5 DEF no_resource_overlap

\* A step on the rows of one reservation leaves the entries of the others.
LEMMA OthersUntouched ==
    ASSUME TypeOK, NEW r \in Reservation,
           \/ \E s \in Statuses : StatusWrite(r, s)
           \/ \E kept \in SUBSET claims, c \in Claim : RowsWrite(r, kept, c),
           NEW o \in Reservation, o # r, NEW c, c.res = o
    PROVE  c \in claims' <=> c \in claims
  <1>1. ASSUME NEW s \in Statuses, StatusWrite(r, s)
        PROVE  c \in claims' <=> c \in claims
    <2>1. claims' = Synced(r, s)
      BY <1>1 DEF StatusWrite, UpdateStatus
    <2>2. \A d \in claims : SetActive(d, s \in TriggerStatuses).res = d.res
      <3>1. \A d \in claims : d \in Claim
        BY DEF TypeOK
      <3>2. (s \in TriggerStatuses) \in BOOLEAN
        OBVIOUS
      <3>3. QED
        BY <3>1, <3>2, SetActiveType
    <2>3. QED
      BY <2>1, <2>2 DEF Synced
  <1>2. ASSUME NEW kept \in SUBSET claims, NEW d \in Claim, RowsWrite(r, kept, d)
        PROVE  c \in claims' <=> c \in claims
    BY <1>2 DEF RowsWrite
  <1>3. QED
    BY <1>1, <1>2

\* Every step of the booking engine is a step of the ledger or none.
LEMMA LedgerStep == IInv /\ [Next]_vars => [Ledger!Next]_ledger
  <1> SUFFICES ASSUME IInv, [Next]_vars
               PROVE  [Ledger!Next]_ledger
    OBVIOUS
  <1>1. IInv' /\ RowStep /\ TypeOK
    BY NextInv, NextStep DEF IInv
  <1>2. CASE UNCHANGED <<status, bounds, claims>>
    BY <1>2 DEF ledger
  <1>3. ASSUME NEW r \in Reservation,
               \/ \E s \in Statuses : StatusWrite(r, s)
               \/ \E kept \in SUBSET claims, c \in Claim : RowsWrite(r, kept, c)
        PROVE  Ledger!Next
    <2>1. (ledger \in [Reservation -> SUBSET Ledger!Slot])'
      <3>1. TypeOK'
        BY <1>1 DEF IInv
      <3>2. QED
        BY <3>1, LedgerType, PTL
    <2>2. Ledger!Exclusive(ledger)'
      <3>1. no_resource_overlap(claims)'
        BY <1>1 DEF IInv
      <3>2. QED
        BY <3>1, LedgerExclusive, PTL
    <2>3. ASSUME NEW o \in Reservation \ {r}
          PROVE  ledger'[o] = ledger[o]
      <3>1. \A c : c.res = o => (c \in claims' <=> c \in claims)
        BY <1>1, <1>3, OthersUntouched
      <3>2. {d \in claims' : d.res = o /\ d.active} = {d \in claims : d.res = o /\ d.active}
        BY <3>1
      <3>3. QED
        BY <3>2 DEF ledger
    <2>4. QED
      BY <2>1, <2>2, <2>3 DEF Ledger!Next, Ledger!Change
  <1>4. QED
    BY <1>1, <1>2, <1>3 DEF RowStep

\* The engine keeps the promise of Inventory: whatever the handlers do, what
\* happens to the slots is one booking taking, moving or giving back its own,
\* as a whole and at nobody's expense.
THEOREM Implementation == Spec => ImplementsInventory
  <1>1. Init => Ledger!Init
    BY DEF Init, ledger, Ledger!Init
  <1>2. QED
    BY <1>1, LedgerStep, Inductive, PTL DEF Spec, ImplementsInventory, Ledger!Spec

-----------------------------------------------------------------------------
(***************************************************************************)
(* Reservations on which no handler was overtaken.                         *)
(***************************************************************************)

\* The statuses in which a handler decides on what it is about to write ...
Decided(op) ==
    CASE op = "confirm"                      -> {"PENDING_APPROVAL"}
      [] op = "noShow"                       -> {"CONFIRMED"}
      [] op = "release"                      -> Statuses \ {"NONE", "CANCELLED"}
      [] op \in {"move", "moving", "cancel"} -> Live
      [] op = "expire"                       -> {"HOLD", "PENDING_PAYMENT"}
      [] op \in {"paid", "failed"}           -> {"PENDING_PAYMENT"}

Writing == {"confirm", "noShow", "release", "cancel", "expire", "paid", "failed"}

\* ... and the status it writes.
Target(op) ==
    CASE op \in {"confirm", "paid"}                         -> "CONFIRMED"
      [] op = "noShow"                                      -> "NO_SHOW"
      [] op \in {"release", "cancel", "expire", "failed"}   -> "CANCELLED"

\* What a handler has decided on is still so, where nobody has overtaken it.
Knows(p) ==
    req[p].op \in Deciding /\ req[p].res \notin overtaken =>
        /\ status[req[p].res] \in Decided(req[p].op)
        /\ req[p].op = "moving" => SeenRows(req[p].res) \subseteq req[p].old

Informed == \A p \in Process : Knows(p)

\* Only sessions are released.
ReleasedSessions == \A p \in Process : req[p].op = "release" => kind[req[p].res] = "SESSION"

\* A reservation that does not exist has no rows.
NoStrayRows == \A c \in claims : status[c.res] # "NONE"

\* The statuses bookings are seen in: nobody completes one.
Reached == \A r \in Reservation : status[r] \notin {"COMPLETED", "REFUNDED"}

\* What was given back, or is about to be, was of a cancelled reservation, once.
RefundDue(r) ==
    /\ refunds[r] <= 1
    /\ refunds[r] # 0 => status[r] = "CANCELLED"
    /\ \A p \in Process :
         req[p].op = "refund" /\ req[p].res = r =>
            /\ status[r] = "CANCELLED" /\ refunds[r] = 0
            /\ \A q \in Process : req[q].op = "refund" /\ req[q].res = r => q = p

RefundsDue == \A r \in Reservation \ overtaken : RefundDue(r)

HInv ==
    /\ IInv /\ ReleasedSessions /\ NoStrayRows /\ Reached
    /\ RowsFollowUnlessOvertaken /\ Informed /\ RefundsDue

-----------------------------------------------------------------------------
(***************************************************************************)
(* What a step does, as far as the history goes.                           *)
(***************************************************************************)

Only(p) == \A q \in Process \ {p} : req'[q] = req[q]

\* What p carries after a step that writes no row.
Fresh(p) ==
    \/ req'[p] = req[p]
    \/ req'[p].op \notin Deciding \cup {"refund"}
    \/ /\ req'[p].op \in Deciding \ {"moving"}
       /\ status[req'[p].res] \in Decided(req'[p].op)
       /\ req'[p].op = "release" => kind[req'[p].res] = "SESSION"
    \/ /\ req[p].op = "move" /\ req'[p].op = "moving" /\ req'[p].res = req[p].res
       /\ req'[p].old = SeenRows(req[p].res)

QuietStep(p) == Only(p) /\ Fresh(p) /\ UNCHANGED <<status, bounds, claims, moves, kind, refunds>>

WriteStep(p) ==
    /\ req[p].op \in Writing /\ req[p].res \in Reservation
    /\ Only(p)
    /\ \/ req'[p] = Idle
       \/ /\ req[p].op = "cancel" /\ status'[req[p].res] = "CANCELLED"
          /\ req'[p].op = "refund" /\ req'[p].res = req[p].res
    /\ UpdateStatus(req[p].res, Target(req[p].op)) \/ UNCHANGED <<status, claims>>
    /\ UNCHANGED <<bounds, moves, kind, refunds>>

UpcomingStep(r) ==
    /\ status[r] \in Live
    /\ UpdateStatus(r, "CANCELLED")
    /\ UNCHANGED <<bounds, moves, kind, refunds, req>>

BookingStep(p, r) ==
    /\ status[r] = "NONE"
    /\ status'[r] \in {"PENDING_PAYMENT", "PENDING_APPROVAL", "CONFIRMED"}
    /\ \A o \in Reservation \ {r} : status'[o] = status[o] /\ kind'[o] = kind[o]
    /\ \E c \in Claim : /\ claims' = claims \cup {c}
                        /\ c.res = r /\ c.active /\ bounds' = [bounds EXCEPT ![r] = c.period]
    /\ Only(p) /\ req'[p].op \notin Deciding \cup {"refund"}
    /\ UNCHANGED <<moves, refunds>>

MovingStep(p) ==
    LET r == req[p].res IN
    /\ r \in Reservation /\ req[p].op = "moving"
    /\ Only(p) /\ req'[p] = Idle
    /\ \/ UNCHANGED <<claims, moves, bounds>>
       \/ \E c \in Claim :
             /\ claims' = {d \in claims : ~ (d.res = r /\ d.gen \in req[p].old)} \cup {c}
             /\ c.res = r /\ c.active /\ bounds' = [bounds EXCEPT ![r] = c.period]
    /\ UNCHANGED <<status, kind, refunds>>

RefundStep(p) ==
    /\ req[p].op = "refund" /\ req[p].res \in Reservation
    /\ Only(p) /\ req'[p] = Idle
    /\ refunds' = [refunds EXCEPT ![req[p].res] = @ + 1] \/ UNCHANGED refunds
    /\ UNCHANGED <<status, bounds, claims, moves, kind>>

HistoryStep ==
    \/ UNCHANGED <<status, bounds, claims, moves, kind, refunds, req>>
    \/ \E p \in Process : QuietStep(p) \/ WriteStep(p) \/ MovingStep(p) \/ RefundStep(p)
    \/ \E r \in Reservation : UpcomingStep(r)
    \/ \E p \in Process, r \in Reservation : BookingStep(p, r)

\* A handler that takes up or goes on with a request.
LEMMA NewRequest ==
    ASSUME TypeOK, NEW p \in Process, NEW next, req' = [req EXCEPT ![p] = next]
    PROVE  Only(p) /\ req'[p] = next
  BY DEF TypeOK, Only

\* A handler that has read a reservation and decided.
LEMMA DecidedIsQuiet ==
    ASSUME TypeOK, NEW p \in Process, NEW r \in Reservation, NEW next, NEW op,
           Begin(p, next), next.op = op, next.res = r,
           op \in Deciding \ {"moving"}, status[r] \in Decided(op),
           op = "release" => kind[r] = "SESSION",
           UNCHANGED <<status, bounds, claims, moves, kind, refunds>>
    PROVE  QuietStep(p)
  <1>1. Only(p) /\ req'[p] = next
    BY NewRequest DEF Begin
  <1>2. QED
    BY <1>1 DEF QuietStep, Fresh

LEMMA ReadIsQuiet ==
    ASSUME TypeOK, NEW p \in Process, NEW r \in Reservation,
           ConfirmRead(p, r) \/ NoShowRead(p, r) \/ ReleaseRead(p, r) \/ MoveRead(p, r)
           \/ PaidRead(p, r) \/ FailedRead(p, r)
    PROVE  QuietStep(p)
  <1>0. UNCHANGED <<status, bounds, claims, moves, kind, refunds>>
    BY DEF ConfirmRead, NoShowRead, ReleaseRead, MoveRead, PaidRead, FailedRead
  <1>1. ASSUME NEW op \in Deciding \ {"moving"}, Begin(p, Req(op, r)),
               status[r] \in Decided(op), op = "release" => kind[r] = "SESSION"
        PROVE  QuietStep(p)
    <2>1. Req(op, r).op = op /\ Req(op, r).res = r
      BY DEF Req
    <2>2. QED
      BY <1>0, <1>1, <2>1, DecidedIsQuiet
  <1>2. CASE ConfirmRead(p, r)
    <2>1. Begin(p, Req("confirm", r)) /\ status[r] = "PENDING_APPROVAL"
      BY <1>2 DEF ConfirmRead, AwaitingApproval
    <2>2. QED
      BY <1>1, <2>1 DEF Deciding, Decided
  <1>3. CASE NoShowRead(p, r)
    <2>1. Begin(p, Req("noShow", r)) /\ status[r] = "CONFIRMED"
      BY <1>3 DEF NoShowRead
    <2>2. QED
      BY <1>1, <2>1 DEF Deciding, Decided
  <1>4. CASE ReleaseRead(p, r)
    <2>1. Begin(p, Req("release", r)) /\ kind[r] = "SESSION"
      BY <1>4 DEF ReleaseRead
    <2>2. status[r] \in Statuses \ {"NONE", "CANCELLED"}
      BY <1>4 DEF ReleaseRead, TypeOK
    <2>3. QED
      BY <1>1, <2>1, <2>2 DEF Deciding, Decided
  <1>5. CASE MoveRead(p, r)
    <2> DEFINE next == [Req("move", r) EXCEPT !.at = now]
    <2>1. next.op = "move" /\ next.res = r
      BY DEF Req
    <2>2. Begin(p, next) /\ status[r] \in Live
      BY <1>5 DEF MoveRead
    <2> HIDE DEF next
    <2>3. status[r] \in Decided("move") /\ "move" \in Deciding \ {"moving"}
      BY <2>2 DEF Deciding, Decided
    <2>4. QED
      BY <1>0, <2>1, <2>2, <2>3, DecidedIsQuiet
  <1>6. CASE PaidRead(p, r)
    <2>1. Begin(p, Req("paid", r)) /\ status[r] = "PENDING_PAYMENT"
      BY <1>6 DEF PaidRead
    <2>2. QED
      BY <1>1, <2>1 DEF Deciding, Decided
  <1>7. CASE FailedRead(p, r)
    <2>1. Begin(p, Req("failed", r)) /\ status[r] = "PENDING_PAYMENT"
      BY <1>7 DEF FailedRead
    <2>2. QED
      BY <1>1, <2>1 DEF Deciding, Decided
  <1>8. QED
    BY <1>2, <1>3, <1>4, <1>5, <1>6, <1>7

LEMMA CancelReadIsQuiet ==
    ASSUME TypeOK, NEW p \in Process, NEW r \in Reservation, NEW share \in Share,
           CancelRead(p, r, share)
    PROVE  QuietStep(p)
  <1> DEFINE next == [Req("cancel", r) EXCEPT
               !.share = IF payment[r].state = "CAPTURED" THEN share ELSE "none",
               !.ref = payment[r].ref]
  <1>1. next.op = "cancel" /\ next.res = r
    BY DEF Req
  <1>2. Begin(p, next)
    BY DEF CancelRead
  <1> HIDE DEF next
  <1>3. Only(p) /\ req'[p] = next
    BY <1>2, NewRequest DEF Begin
  <1>4. QED
    BY <1>1, <1>3 DEF CancelRead, Cancellable, QuietStep, Fresh, Deciding, Decided

LEMMA BookIsBooking ==
    ASSUME TypeOK, NEW p \in Api, NEW r \in Reservation, NEW k \in Kind,
           NEW R \in CourtSets, NEW t \in Period, NEW s \in finalStatus(k),
           Book(p, r, k, R, t, s)
    PROVE  BookingStep(p, r)
  <1>1. s \in {"PENDING_PAYMENT", "PENDING_APPROVAL", "CONFIRMED"} /\ s \in TriggerStatuses
    BY ConstantsAssumption DEF finalStatus, TriggerStatuses, Methods
  <1>2. PICK rooms \in Rooms(k, R) : claims' = claims \cup {Rows(r, 0, rooms, t, TRUE)}
    BY <1>1 DEF Book
  <1>3. rooms \in SUBSET (Court \cup Coach)
    BY ConstantsAssumption DEF Rooms
  <1> DEFINE c == Rows(r, 0, rooms, t, TRUE)
  <1>4. c \in Claim /\ c.res = r /\ c.period = t /\ c.active = TRUE
    BY <1>3 DEF Rows, Claim
  <1>5. claims' = claims \cup {c}
    BY <1>2
  <1> HIDE DEF c
  <1>6. Only(p) /\ req'[p].op \notin Deciding \cup {"refund"}
    <2>1. Begin(p, Req("schedule", r)) \/ Begin(p, Idle)
      BY DEF Book
    <2>2. Req("schedule", r).op \notin Deciding \cup {"refund"} /\ Idle.op \notin Deciding \cup {"refund"}
      BY DEF Req, Idle, Deciding
    <2>3. p \in Process
      BY DEF Process
    <2>4. QED
      BY <2>1, <2>2, <2>3, NewRequest DEF Begin
  <1>7. /\ status[r] = "NONE" /\ status'[r] = s
        /\ \A o \in Reservation \ {r} : status'[o] = status[o] /\ kind'[o] = kind[o]
        /\ bounds' = [bounds EXCEPT ![r] = t]
        /\ UNCHANGED <<moves, refunds>>
    BY DEF Book, TypeOK
  <1>8. QED
    BY <1>1, <1>4, <1>5, <1>6, <1>7 DEF BookingStep

LEMMA WriterIsWrite ==
    ASSUME TypeOK, NEW p \in Process,
           \/ ConfirmWrite(p) \/ NoShowWrite(p) \/ ReleaseWrite(p) \/ CancelCommit(p)
           \/ PaidCommit(p) \/ FailedCommit(p) \/ ExpireWrite(p)
    PROVE  WriteStep(p)
  <1>1. req[p].op \in Writing /\ req[p].res \in Reservation
    <2>1. req[p].op \in Writing
      BY DEF ConfirmWrite, NoShowWrite, ReleaseWrite, CancelCommit, PaidCommit, FailedCommit,
             ExpireWrite, At, Writing
    <2>2. QED
      BY <2>1, AtType DEF Writing, Op, At
  <1>2. CASE Finish(p)
    <2>1. Only(p) /\ req'[p] = Idle
      BY <1>2, NewRequest DEF Finish
    <2>2. UpdateStatus(req[p].res, Target(req[p].op)) \/ UNCHANGED <<status, claims>>
      <3>1. CASE ConfirmWrite(p) \/ PaidCommit(p)
        BY <3>1 DEF ConfirmWrite, PaidCommit, At, Target
      <3>2. CASE NoShowWrite(p)
        BY <3>2 DEF NoShowWrite, At, Target
      <3>3. CASE ReleaseWrite(p) \/ CancelCommit(p) \/ FailedCommit(p) \/ ExpireWrite(p)
        BY <3>3 DEF ReleaseWrite, CancelCommit, FailedCommit, ExpireWrite, At, Target
      <3>4. QED
        BY <3>1, <3>2, <3>3
    <2>3. UNCHANGED <<bounds, moves, kind, refunds>>
      BY DEF ConfirmWrite, NoShowWrite, ReleaseWrite, CancelCommit, PaidCommit, FailedCommit,
             ExpireWrite
    <2>4. QED
      BY <1>1, <2>1, <2>2, <2>3 DEF WriteStep
  <1>3. CASE CancelCommit(p)
    <2> DEFINE next == [Req("refund", req[p].res) EXCEPT !.ref = req[p].ref]
    <2>1. next.op = "refund" /\ next.res = req[p].res
      BY DEF Req
    <2>2. Continue(p, next) \/ Continue(p, Idle)
      BY <1>3 DEF CancelCommit
    <2> HIDE DEF next
    <2>3. Only(p) /\ (req'[p] = next \/ req'[p] = Idle)
      BY <2>2, NewRequest DEF Continue
    <2>4. /\ req[p].op = "cancel" /\ UpdateStatus(req[p].res, "CANCELLED")
          /\ UNCHANGED <<bounds, moves, kind, refunds>>
      BY <1>3 DEF CancelCommit, At
    <2>5. status'[req[p].res] = "CANCELLED" /\ Target("cancel") = "CANCELLED"
      BY <1>1, <2>4 DEF UpdateStatus, TypeOK, Target
    <2>6. QED
      BY <1>1, <2>1, <2>3, <2>4, <2>5 DEF WriteStep
  <1>4. QED
    BY <1>2, <1>3 DEF ConfirmWrite, NoShowWrite, ReleaseWrite, PaidCommit, FailedCommit, ExpireWrite

LEMMA MoveIsMoving ==
    ASSUME TypeOK, NEW p \in Process, NEW R \in CourtSets, NEW t \in Period, MoveCommit(p, R, t)
    PROVE  MovingStep(p)
  <1> DEFINE r    == req[p].res
             kept == {d \in claims : ~ (d.res = r /\ d.gen \in req[p].old)}
             c    == Rows(r, moves[r] + 1, R, t, TRUE)
  <1>1. r \in Reservation /\ req[p].op = "moving"
    BY AtType DEF MoveCommit, Op, At
  <1>2. c \in Claim /\ c.res = r /\ c.period = t /\ c.active = TRUE
    <2>1. moves[r] + 1 \in Nat /\ R \in SUBSET (Court \cup Coach)
      BY <1>1, ConstantsAssumption DEF TypeOK
    <2>2. QED
      BY <1>1, <2>1 DEF Rows, Claim
  <1>3. Only(p) /\ req'[p] = Idle
    BY NewRequest DEF MoveCommit, Finish
  <1>4. \/ UNCHANGED <<claims, moves, bounds>>
        \/ claims' = kept \cup {c} /\ bounds' = [bounds EXCEPT ![r] = t]
    BY DEF MoveCommit, MovedBounds
  <1>5. UNCHANGED <<status, kind, refunds>>
    BY DEF MoveCommit
  <1> HIDE DEF c
  <1>6. QED
    BY <1>1, <1>2, <1>3, <1>4, <1>5 DEF MovingStep

\* The steps that write no row of a reservation.
LEMMA OtherIsQuiet ==
    ASSUME TypeOK, NEW p \in Process,
           \/ ScheduleExpiry(p) \/ CreateCheckout(p) \/ RecordPayment(p) \/ MoveDelete(p)
           \/ ExpireFail(p) \/ Crash(p)
           \/ \E r \in Reservation : ExpireRead(p, r)
    PROVE  QuietStep(p)
  <1> USE DEF QuietStep, Fresh
  <1>1. Idle.op \notin Deciding \cup {"refund"}
    BY DEF Idle, Deciding
  <1>2. ASSUME NEW op \in {"checkout", "record"}, NEW r
        PROVE  Req(op, r).op \notin Deciding \cup {"refund"}
    BY DEF Req, Deciding
  <1>3. CASE ScheduleExpiry(p) \/ CreateCheckout(p)
    BY <1>2, <1>3, NewRequest DEF ScheduleExpiry, CreateCheckout, Continue
  <1>4. CASE RecordPayment(p) \/ ExpireFail(p) \/ Crash(p)
    BY <1>1, <1>4, NewRequest DEF RecordPayment, ExpireFail, Crash, Finish
  <1>5. CASE MoveDelete(p)
    <2> DEFINE next == [req[p] EXCEPT !.op = "moving", !.old = SeenRows(req[p].res)]
    <2>1. req[p] \in Requests /\ req[p].op = "move"
      BY <1>5, AtType DEF MoveDelete, At, Op
    <2>2. next.op = "moving" /\ next.old = SeenRows(req[p].res) /\ next.res = req[p].res
      BY <2>1 DEF Requests
    <2>3. Continue(p, next)
      BY <1>5 DEF MoveDelete
    <2> HIDE DEF next
    <2>4. Only(p) /\ req'[p] = next
      BY <2>3, NewRequest DEF Continue
    <2>5. QED
      BY <1>5, <2>1, <2>2, <2>4 DEF MoveDelete
  <1>6. ASSUME NEW r \in Reservation, ExpireRead(p, r)
        PROVE  QuietStep(p)
    <2>1. CASE Begin(p, Idle)
      BY <1>1, <1>6, <2>1, NewRequest DEF ExpireRead, Begin
    <2>2. CASE Expirable(r) /\ Begin(p, Req("expire", r))
      <3>1. Req("expire", r).op = "expire" /\ Req("expire", r).res = r
        BY DEF Req
      <3>2. Only(p) /\ req'[p] = Req("expire", r)
        BY <2>2, NewRequest DEF Begin
      <3>3. QED
        BY <1>6, <2>2, <3>1, <3>2 DEF ExpireRead, Expirable, Deciding, Decided
    <2>3. QED
      BY <1>6, <2>1, <2>2 DEF ExpireRead
  <1>7. QED
    BY <1>3, <1>4, <1>5, <1>6

LEMMA Classified == TypeOK /\ [Next]_vars => HistoryStep
  <1> SUFFICES ASSUME TypeOK, [Next]_vars PROVE HistoryStep
    OBVIOUS
  <1>1. CASE UNCHANGED vars
    BY <1>1 DEF vars, HistoryStep
  <1>2. ASSUME NEW p \in Api, NEW r \in Reservation, Arrive(p, r)
        PROVE  HistoryStep
    <2>0. p \in Process
      BY DEF Process
    <2>1. CASE \E k \in Kind, R \in CourtSets, t \in Period :
                 \E s \in finalStatus(k) : Book(p, r, k, R, t, s)
      BY <2>0, <2>1, BookIsBooking DEF HistoryStep
    <2>2. CASE ConfirmRead(p, r) \/ NoShowRead(p, r) \/ ReleaseRead(p, r) \/ MoveRead(p, r)
      BY <2>0, <2>2, ReadIsQuiet DEF HistoryStep
    <2>3. CASE MarkPaid(p, r)
      BY <2>3 DEF MarkPaid, HistoryStep
    <2>4. CASE \E share \in Share : CancelRead(p, r, share)
      BY <2>0, <2>4, CancelReadIsQuiet DEF HistoryStep
    <2>5. CASE CancelUpcoming(p, r)
      BY <2>5 DEF CancelUpcoming, UpcomingStep, HistoryStep
    <2>6. QED
      BY <1>2, <2>1, <2>2, <2>3, <2>4, <2>5 DEF Arrive
  <1>3. ASSUME NEW p \in Api, NEW r \in Reservation, Deliver(p, r)
        PROVE  HistoryStep
    <2>1. p \in Process
      BY DEF Process
    <2>2. QED
      BY <1>3, <2>1, ReadIsQuiet DEF Deliver, HistoryStep
  <1>4. ASSUME NEW w \in Worker, NEW r \in Reservation, ExpireRead(w, r)
        PROVE  HistoryStep
    <2>1. w \in Process
      BY DEF Process
    <2>2. QED
      BY <1>4, <2>1, OtherIsQuiet DEF HistoryStep
  <1>5. ASSUME NEW p \in Process, Proceed(p) \/ ExpireFail(p) \/ Crash(p)
        PROVE  HistoryStep
    <2>1. CASE Refund(p)
      <3>1. req[p].op = "refund" /\ req[p].res \in Reservation
        BY <2>1, AtType DEF Refund, At, Op
      <3>2. Only(p) /\ req'[p] = Idle
        BY <2>1, NewRequest DEF Refund, Finish
      <3>3. RefundStep(p)
        BY <2>1, <3>1, <3>2 DEF Refund, RefundStep
      <3>4. QED
        BY <3>3 DEF HistoryStep
    <2>2. CASE \E R \in CourtSets, t \in Period : MoveCommit(p, R, t)
      BY <2>2, MoveIsMoving DEF HistoryStep
    <2>3. CASE \/ ConfirmWrite(p) \/ NoShowWrite(p) \/ ReleaseWrite(p) \/ CancelCommit(p)
               \/ PaidCommit(p) \/ FailedCommit(p) \/ ExpireWrite(p)
      BY <2>3, WriterIsWrite DEF HistoryStep
    <2>4. CASE \/ ScheduleExpiry(p) \/ CreateCheckout(p) \/ RecordPayment(p) \/ MoveDelete(p)
               \/ ExpireFail(p) \/ Crash(p)
      BY <2>4, OtherIsQuiet DEF HistoryStep
    <2>5. QED
      BY <1>5, <2>1, <2>2, <2>3, <2>4 DEF Proceed
  <1>6. CASE (\E r \in Reservation : PspPay(r) \/ PspEnd(r)) \/ Tick
    BY <1>6 DEF PspPay, PspEnd, Tick, HistoryStep
  <1>7. QED
    BY <1>1, <1>2, <1>3, <1>4, <1>5, <1>6 DEF Next

\* A watched step is a step, and those overtaken in it are noticed.
LEMMA Watching ==
    [WatchedNext]_watchedVars => [Next]_vars /\ overtaken' = overtaken \cup Overtaken
  <1>1. UNCHANGED watchedVars => Overtaken = {}
    BY DEF watchedVars, vars, Overtaken, Rewritten
  <1>2. QED
    BY <1>1 DEF WatchedNext, watchedVars

\* Whoever has not written to a reservation has not touched its rows.
LEMMA SameRows ==
    ASSUME TypeOK, RowStep, NEW r \in Reservation, status[r] # "NONE",
           ~ Rewritten(r), NEW c, c.res = r
    PROVE  c \in claims' <=> c \in claims
  <1>1. CASE UNCHANGED <<status, bounds, claims>>
    BY <1>1
  <1>2. ASSUME NEW o \in Reservation, NEW s \in Statuses, StatusWrite(o, s)
        PROVE  c \in claims' <=> c \in claims
    <2>1. CASE o # r
      BY <1>2, <2>1, OthersUntouched
    <2>2. CASE o = r
      <3>1. status'[r] = s
        BY <1>2, <2>2 DEF StatusWrite, UpdateStatus, TypeOK
      <3>2. s = status[r]
        BY <3>1 DEF Rewritten
      <3>3. QED
        BY <1>2, <2>2, <3>2 DEF StatusWrite, UpdateStatus, Synced
    <2>3. QED
      BY <2>1, <2>2
  <1>3. ASSUME NEW o \in Reservation, NEW kept \in SUBSET claims, NEW d \in Claim,
               RowsWrite(o, kept, d)
        PROVE  c \in claims' <=> c \in claims
    <2>1. o # r
      BY <1>3 DEF RowsWrite, Rewritten
    <2>2. QED
      BY <1>3, <2>1, OthersUntouched
  <1>4. QED
    BY <1>1, <1>2, <1>3 DEF RowStep

-----------------------------------------------------------------------------
(***************************************************************************)
(* Each part of HInv is kept.                                              *)
(***************************************************************************)

\* What a handler carries over a step that is not its own.
LEMMA WaiterKnows ==
    ASSUME TypeOK, RequestsOnRows, RowStep, Overtaken \subseteq overtaken',
           overtaken \subseteq overtaken', NEW q \in Process, Knows(q), req'[q] = req[q]
    PROVE  Knows(q)'
  <1> SUFFICES ASSUME NEW r \in Reservation, r = req[q].res,
                      req[q].op \in Deciding, r \notin overtaken'
               PROVE  /\ status'[r] \in Decided(req[q].op)
                      /\ req[q].op = "moving" => SeenRows(r)' \subseteq req[q].old
    <2>1. req[q].op \in Deciding => req[q].res \in Reservation
      BY InFlightType DEF Deciding, Idle
    <2>2. QED
      BY <2>1 DEF Knows
  <1>1. status[r] # "NONE" /\ ~ Rewritten(r)
    <2>1. req[q] # Idle
      BY DEF Deciding, Idle
    <2>2. QED
      BY <2>1 DEF RequestsOnRows, Overtaken, Waiting
  <1>2. /\ status[r] \in Decided(req[q].op)
        /\ req[q].op = "moving" => SeenRows(r) \subseteq req[q].old
    BY DEF Knows
  <1>3. status'[r] = status[r]
    BY <1>1 DEF Rewritten
  <1>4. SeenRows(r)' = SeenRows(r)
    <2>1. \A c : c.res = r => (c \in claims' <=> c \in claims)
      BY <1>1, SameRows
    <2>2. {d \in claims' : d.res = r} = {d \in claims : d.res = r}
      BY <2>1
    <2>3. QED
      BY <2>2 DEF SeenRows
  <1>5. QED
    BY <1>2, <1>3, <1>4

\* What a handler carries after a step of its own.
LEMMA FreshKnows ==
    ASSUME TypeOK, Overtaken \subseteq overtaken', overtaken \subseteq overtaken',
           NEW p \in Process, Knows(p), QuietStep(p), req'[p] # req[p]
    PROVE  Knows(p)'
  <1>1. status' = status /\ claims' = claims
    BY DEF QuietStep
  <1>2. CASE req'[p].op \notin Deciding
    BY <1>2 DEF Knows
  <1>3. CASE /\ req'[p].op \in Deciding \ {"moving"}
             /\ status[req'[p].res] \in Decided(req'[p].op)
    BY <1>1, <1>3 DEF Knows
  <1>4. CASE /\ req[p].op = "move" /\ req'[p].op = "moving" /\ req'[p].res = req[p].res
             /\ req'[p].old = SeenRows(req[p].res)
    <2>1. req[p].op \in Deciding /\ Decided("move") = Live /\ Decided("moving") = Live
      BY <1>4 DEF Deciding, Decided
    <2>2. SeenRows(req[p].res)' = SeenRows(req[p].res)
      BY <1>1, <1>4 DEF SeenRows
    <2>3. req[p].res \notin overtaken => status[req[p].res] \in Live
      BY <1>4, <2>1 DEF Knows
    <2>4. SUFFICES ASSUME req'[p].res \notin overtaken'
                   PROVE  /\ status'[req'[p].res] \in Decided("moving")
                          /\ SeenRows(req[p].res)' \subseteq req'[p].old
      BY <1>4 DEF Knows
    <2>5. QED
      BY <1>1, <1>4, <2>1, <2>2, <2>3, <2>4
  <1>5. QED
    BY <1>2, <1>3, <1>4 DEF QuietStep, Fresh

LEMMA InformedKept ==
    ASSUME HInv, RowStep, HistoryStep, overtaken' = overtaken \cup Overtaken
    PROVE  Informed'
  <1> SUFFICES ASSUME NEW q \in Process
               PROVE  Knows(q)'
    BY DEF Informed
  <1>0. /\ TypeOK /\ RequestsOnRows /\ Knows(q)
        /\ overtaken \subseteq overtaken' /\ Overtaken \subseteq overtaken'
    BY DEF HInv, IInv, Informed
  <1>1. CASE req'[q] = req[q]
    BY <1>0, <1>1, WaiterKnows
  <1>2. CASE req'[q] # req[q] /\ req'[q].op \notin Deciding
    BY <1>2 DEF Knows
  <1>3. CASE req'[q] # req[q] /\ req'[q].op \in Deciding
    <2>1. PICK p \in Process : QuietStep(p) \/ WriteStep(p) \/ MovingStep(p) \/ RefundStep(p)
                               \/ \E r \in Reservation : BookingStep(p, r)
      BY <1>3 DEF HistoryStep, UpcomingStep
    <2>2. q = p
      BY <1>3, <2>1 DEF QuietStep, WriteStep, MovingStep, RefundStep, BookingStep, Only
    <2>3. QuietStep(p)
      <3>1. Idle.op \notin Deciding /\ "refund" \notin Deciding
        BY DEF Idle, Deciding
      <3>2. QED
        BY <1>3, <2>1, <2>2, <3>1 DEF WriteStep, MovingStep, RefundStep, BookingStep
    <2>4. QED
      BY <1>0, <1>3, <2>2, <2>3, FreshKnows
  <1>4. QED
    BY <1>1, <1>2, <1>3

LEMMA ReleasesKept ==
    ASSUME HInv, HistoryStep
    PROVE  ReleasedSessions'
  <1> SUFFICES ASSUME NEW q \in Process, req'[q].op = "release"
               PROVE  kind'[req'[q].res] = "SESSION"
    BY DEF ReleasedSessions
  <1>0. TypeOK /\ RequestsOnRows /\ ReleasedSessions
    BY DEF HInv, IInv
  <1>1. CASE req'[q] = req[q]
    <2>1. req[q].res \in Reservation /\ status[req[q].res] # "NONE"
      <3>1. req[q] # Idle
        BY <1>1 DEF Idle
      <3>2. QED
        BY <1>0, <3>1, InFlightType DEF RequestsOnRows
    <2>2. kind'[req[q].res] = kind[req[q].res]
      BY <2>1 DEF HistoryStep, QuietStep, WriteStep, MovingStep, RefundStep, UpcomingStep,
                  BookingStep
    <2>3. QED
      BY <1>0, <1>1, <2>2 DEF ReleasedSessions
  <1>2. CASE req'[q] # req[q]
    <2>1. PICK p \in Process : QuietStep(p) \/ WriteStep(p) \/ MovingStep(p) \/ RefundStep(p)
                               \/ \E r \in Reservation : BookingStep(p, r)
      BY <1>2 DEF HistoryStep, UpcomingStep
    <2>2. q = p
      BY <1>2, <2>1 DEF QuietStep, WriteStep, MovingStep, RefundStep, BookingStep, Only
    <2>3. Idle.op # "release" /\ "release" \in Deciding
      BY DEF Idle, Deciding
    <2>4. QuietStep(p)
      BY <2>1, <2>2, <2>3 DEF WriteStep, MovingStep, RefundStep, BookingStep
    <2>5. kind' = kind /\ Fresh(q)
      BY <2>2, <2>4 DEF QuietStep
    <2>6. kind[req'[q].res] = "SESSION"
      BY <1>2, <2>3, <2>5 DEF Fresh
    <2>7. QED
      BY <2>5, <2>6
  <1>3. QED
    BY <1>1, <1>2

LEMMA StraysKept ==
    ASSUME TypeOK, NoStrayRows, RowStep
    PROVE  NoStrayRows'
  <1> SUFFICES ASSUME NEW c \in claims'
               PROVE  status'[c.res] # "NONE"
    BY DEF NoStrayRows
  <1>1. ASSUME NEW d \in claims, c.res = d.res
        PROVE  status'[c.res] # "NONE"
    <2>1. d.res \in Reservation /\ status[d.res] # "NONE"
      BY DEF TypeOK, Claim, NoStrayRows
    <2>2. QED
      BY <1>1, <2>1, RowsStay
  <1>2. CASE UNCHANGED <<status, bounds, claims>>
    BY <1>1, <1>2
  <1>3. ASSUME NEW o \in Reservation, NEW s \in Statuses, StatusWrite(o, s)
        PROVE  status'[c.res] # "NONE"
    <2>1. claims' = Synced(o, s)
      BY <1>3 DEF StatusWrite, UpdateStatus
    <2>2. \A d \in claims : SetActive(d, s \in TriggerStatuses).res = d.res
      <3>1. \A d \in claims : d \in Claim
        BY DEF TypeOK
      <3>2. (s \in TriggerStatuses) \in BOOLEAN
        OBVIOUS
      <3>3. QED
        BY <3>1, <3>2, SetActiveType
    <2>3. \E d \in claims : c.res = d.res
      BY <2>1, <2>2 DEF Synced
    <2>4. QED
      BY <1>1, <2>3
  <1>4. ASSUME NEW o \in Reservation, NEW kept \in SUBSET claims, NEW d \in Claim,
               RowsWrite(o, kept, d)
        PROVE  status'[c.res] # "NONE"
    BY <1>1, <1>4 DEF RowsWrite
  <1>5. QED
    BY <1>2, <1>3, <1>4 DEF RowStep

\* What a status can become.
LEMMA WrittenStatus ==
    ASSUME TypeOK, NEW o \in Reservation, NEW s, UpdateStatus(o, s), NEW r \in Reservation
    PROVE  status'[r] = IF r = o THEN s ELSE status[r]
  BY DEF UpdateStatus, TypeOK

LEMMA Targets ==
    ASSUME NEW op \in Writing
    PROVE  Target(op) \in {"CONFIRMED", "NO_SHOW", "CANCELLED"}
  BY DEF Writing, Target

LEMMA ReachedKept ==
    ASSUME TypeOK, Reached, HistoryStep
    PROVE  Reached'
  <1> SUFFICES ASSUME NEW r \in Reservation
               PROVE  status'[r] \notin {"COMPLETED", "REFUNDED"}
    BY DEF Reached
  <1>0. status[r] \notin {"COMPLETED", "REFUNDED"}
    BY DEF Reached
  <1>1. ASSUME NEW p \in Process, WriteStep(p)
        PROVE  status'[r] \notin {"COMPLETED", "REFUNDED"}
    BY <1>0, <1>1, WrittenStatus, Targets DEF WriteStep
  <1>2. ASSUME NEW o \in Reservation, UpcomingStep(o)
        PROVE  status'[r] \notin {"COMPLETED", "REFUNDED"}
    BY <1>0, <1>2, WrittenStatus DEF UpcomingStep
  <1>3. ASSUME NEW p \in Process, NEW o \in Reservation, BookingStep(p, o)
        PROVE  status'[r] \notin {"COMPLETED", "REFUNDED"}
    BY <1>0, <1>3 DEF BookingStep
  <1>4. QED
    BY <1>0, <1>1, <1>2, <1>3 DEF HistoryStep, QuietStep, MovingStep, RefundStep

\* The trigger keeps the rows of a reservation in step with its status.
LEMMA UpdateFollows ==
    ASSUME TypeOK, NEW o \in Reservation, NEW s \in Statuses, UpdateStatus(o, s),
           UNCHANGED bounds, NEW r \in Reservation, RowsFollow(r)
    PROVE  RowsFollow(r)'
  <1> SUFFICES ASSUME NEW c \in claims', c.res = r
               PROVE  /\ c.active <=> status'[r] \in Occupying
                      /\ c.period = bounds'[r]
    BY DEF RowsFollow
  <1> DEFINE b == s \in TriggerStatuses
  <1>1. claims' = Synced(o, s) /\ status'[r] = (IF r = o THEN s ELSE status[r])
    BY WrittenStatus DEF UpdateStatus
  <1>2. \A d \in claims : /\ SetActive(d, b).res = d.res
                          /\ SetActive(d, b).period = d.period
                          /\ SetActive(d, b).active = b
    <2>1. \A d \in claims : d \in Claim
      BY DEF TypeOK
    <2>2. b \in BOOLEAN
      OBVIOUS
    <2>3. QED
      BY <2>1, <2>2, SetActiveType
  <1>3. \A d \in claims : d.res = r => /\ d.active <=> status[r] \in Occupying
                                       /\ d.period = bounds[r]
    BY DEF RowsFollow
  <1>4. CASE s = status[o]
    BY <1>1, <1>3, <1>4 DEF Synced
  <1>5. CASE s # status[o]
    <2>1. PICK d \in claims : c = IF d.res = o THEN SetActive(d, b) ELSE d
      BY <1>1, <1>5 DEF Synced
    <2>2. d.res = r
      BY <1>2, <2>1
    <2>3. CASE r = o
      <3>1. c.active = b /\ c.period = bounds[r]
        BY <1>2, <1>3, <2>1, <2>2, <2>3
      <3>2. b <=> status'[r] \in Occupying
        BY <1>1, <2>3 DEF TriggerStatuses, Occupying
      <3>3. QED
        BY <3>1, <3>2
    <2>4. CASE r # o
      BY <1>1, <1>3, <2>1, <2>2, <2>4
    <2>5. QED
      BY <2>3, <2>4
  <1>6. QED
    BY <1>4, <1>5

LEMMA RowsFollowKept ==
    ASSUME HInv, HistoryStep, overtaken \subseteq overtaken'
    PROVE  RowsFollowUnlessOvertaken'
  <1> SUFFICES ASSUME NEW r \in Reservation, r \notin overtaken'
               PROVE  RowsFollow(r)'
    BY DEF RowsFollowUnlessOvertaken
  <1>0. /\ TypeOK /\ RowsFollow(r) /\ r \notin overtaken
        /\ Informed /\ NoStrayRows
    BY DEF HInv, IInv, RowsFollowUnlessOvertaken
  <1>1. \A c \in claims : c.res = r => /\ c.active <=> status[r] \in Occupying
                                       /\ c.period = bounds[r]
    BY <1>0 DEF RowsFollow
  <1>2. CASE UNCHANGED <<status, bounds, claims>>
    BY <1>0, <1>2 DEF RowsFollow
  <1>3. ASSUME NEW o \in Reservation, NEW s \in {"CONFIRMED", "NO_SHOW", "CANCELLED"},
               UpdateStatus(o, s), UNCHANGED bounds
        PROVE  RowsFollow(r)'
    <2>1. s \in Statuses
      BY DEF Statuses
    <2>2. QED
      BY <1>0, <1>3, <2>1, UpdateFollows
  <1>4. ASSUME NEW p \in Process, WriteStep(p)
        PROVE  RowsFollow(r)'
    BY <1>2, <1>3, <1>4, Targets DEF WriteStep
  <1>5. ASSUME NEW o \in Reservation, UpcomingStep(o)
        PROVE  RowsFollow(r)'
    BY <1>3, <1>5 DEF UpcomingStep
  \* Rows that replace all the rows of a reservation, if it is the one they are of.
  <1>6. ASSUME NEW o \in Reservation, NEW kept \in SUBSET claims, NEW d \in Claim,
               claims' = kept \cup {d}, d.res = o, d.active,
               bounds' = [bounds EXCEPT ![o] = d.period],
               o = r => status'[o] \in Occupying /\ \A c \in kept : c.res # o,
               o # r => status'[r] = status[r]
        PROVE  RowsFollow(r)'
    <2>1. CASE o = r
      <3>1. bounds'[r] = d.period
        BY <1>0, <1>6, <2>1 DEF TypeOK
      <3>2. QED
        BY <1>6, <2>1, <3>1 DEF RowsFollow
    <2>2. CASE o # r
      <3>1. bounds'[r] = bounds[r]
        BY <1>6, <2>2
      <3>2. QED
        BY <1>1, <1>6, <2>2, <3>1 DEF RowsFollow
    <2>3. QED
      BY <2>1, <2>2
  <1>7. ASSUME NEW p \in Process, NEW o \in Reservation, BookingStep(p, o)
        PROVE  RowsFollow(r)'
    <2>1. PICK d \in Claim : /\ claims' = claims \cup {d}
                             /\ d.res = o /\ d.active
                             /\ bounds' = [bounds EXCEPT ![o] = d.period]
      BY <1>7 DEF BookingStep
    <2>2. status'[o] \in Occupying /\ (o # r => status'[r] = status[r])
      BY <1>7 DEF BookingStep, Occupying
    <2>3. \A c \in claims : c.res # o
      BY <1>0, <1>7 DEF NoStrayRows, BookingStep
    <2>4. claims \in SUBSET claims
      OBVIOUS
    <2>5. QED
      BY <1>6, <2>1, <2>2, <2>3, <2>4
  <1>8. ASSUME NEW p \in Process, MovingStep(p)
        PROVE  RowsFollow(r)'
    <2> DEFINE o    == req[p].res
               kept == {c \in claims : ~ (c.res = o /\ c.gen \in req[p].old)}
    <2>1. o \in Reservation /\ req[p].op = "moving" /\ status' = status
      BY <1>8 DEF MovingStep
    <2>2. CASE UNCHANGED <<claims, moves, bounds>>
      BY <1>2, <2>1, <2>2
    <2>3. ASSUME NEW d \in Claim, claims' = kept \cup {d}, d.res = o, d.active,
                 bounds' = [bounds EXCEPT ![o] = d.period]
          PROVE  RowsFollow(r)'
      <3>1. o = r => status'[o] \in Occupying /\ \A c \in kept : c.res # o
        <4> HAVE o = r
        <4>1. status[o] \in Decided("moving") /\ SeenRows(o) \subseteq req[p].old
          BY <1>0, <2>1 DEF Informed, Knows, Deciding
        <4>2. status'[o] \in Occupying
          BY <2>1, <4>1 DEF Decided, Live, Occupying
        <4>3. \A c \in claims : c.res = o => c.gen \in req[p].old
          BY <4>1 DEF SeenRows
        <4>4. QED
          BY <4>2, <4>3
      <3>2. kept \in SUBSET claims
        OBVIOUS
      <3> HIDE DEF o, kept
      <3>3. QED
        BY <1>6, <2>1, <2>3, <3>1, <3>2
    <2>4. QED
      BY <1>8, <2>2, <2>3 DEF MovingStep
  <1>9. QED
    BY <1>2, <1>4, <1>5, <1>7, <1>8 DEF HistoryStep, QuietStep, RefundStep

\* What is due stays due, or was paid, or is no longer.
LEMMA DueStays ==
    ASSUME NEW r \in Reservation, RefundDue(r), status'[r] = status[r],
           refunds'[r] = refunds[r],
           \A q \in Process : req'[q].op = "refund" /\ req'[q].res = r =>
                                req[q].op = "refund" /\ req[q].res = r
    PROVE  RefundDue(r)'
  BY DEF RefundDue

\* Of a reservation that is not cancelled nothing is due, and one handler may ask.
LEMMA DueBegins ==
    ASSUME TypeOK, NEW r \in Reservation, RefundDue(r), status[r] # "CANCELLED",
           refunds'[r] = refunds[r], NEW p \in Process, Only(p),
           req'[p].op = "refund" /\ req'[p].res = r => status'[r] = "CANCELLED"
    PROVE  RefundDue(r)'
  <1>1. refunds[r] = 0
    BY DEF RefundDue
  <1>2. \A q \in Process : req'[q].op = "refund" /\ req'[q].res = r => q = p
    BY DEF RefundDue, Only
  <1>3. QED
    BY <1>1, <1>2 DEF RefundDue

\* A handler that writes has not read a cancelled reservation.
LEMMA WritersSaw ==
    ASSUME NEW op \in Writing
    PROVE  "CANCELLED" \notin Decided(op) /\ op \in Deciding
  BY DEF Writing, Decided, Deciding, Live

LEMMA RefundsKept ==
    ASSUME HInv, HistoryStep, overtaken \subseteq overtaken'
    PROVE  RefundsDue'
  <1> SUFFICES ASSUME NEW r \in Reservation, r \notin overtaken'
               PROVE  RefundDue(r)'
    BY DEF RefundsDue
  <1>0. TypeOK /\ RequestsOnRows /\ RefundDue(r) /\ r \notin overtaken /\ Informed
    BY DEF HInv, IInv, RefundsDue
  <1>1. CASE UNCHANGED <<status, refunds, req>>
    BY <1>0, <1>1, DueStays
  <1>2. ASSUME NEW p \in Process, QuietStep(p)
        PROVE  RefundDue(r)'
    <2>1. \A q \in Process : req'[q].op = "refund" => req'[q] = req[q]
      BY <1>2 DEF QuietStep, Only, Fresh, Deciding
    <2>2. QED
      BY <1>0, <1>2, <2>1, DueStays DEF QuietStep
  <1>3. Idle.op # "refund"
    BY DEF Idle
  <1>4. ASSUME NEW p \in Process, MovingStep(p)
        PROVE  RefundDue(r)'
    <2>1. \A q \in Process : req'[q].op = "refund" => req'[q] = req[q]
      BY <1>3, <1>4 DEF MovingStep, Only
    <2>2. QED
      BY <1>0, <1>4, <2>1, DueStays DEF MovingStep
  <1>5. ASSUME NEW p \in Process, RefundStep(p)
        PROVE  RefundDue(r)'
    <2>1. \A q \in Process : req'[q].op = "refund" => req'[q] = req[q] /\ q # p
      BY <1>3, <1>5 DEF RefundStep, Only
    <2>2. CASE req[p].res # r
      <3>1. refunds'[r] = refunds[r] /\ status' = status
        BY <1>0, <1>5, <2>2 DEF RefundStep, TypeOK
      <3>2. QED
        BY <1>0, <2>1, <3>1, DueStays
    <2>3. CASE req[p].res = r
      <3>1. /\ status[r] = "CANCELLED" /\ refunds[r] = 0 /\ req[p].op = "refund"
            /\ \A q \in Process : req[q].op = "refund" /\ req[q].res = r => q = p
        BY <1>0, <1>5, <2>3 DEF RefundStep, RefundDue
      <3>2. refunds'[r] \in {0, 1} /\ status'[r] = "CANCELLED"
        BY <1>0, <1>5, <2>3, <3>1 DEF RefundStep, TypeOK
      <3>3. \A q \in Process : ~ (req'[q].op = "refund" /\ req'[q].res = r)
        BY <2>1, <3>1
      <3>4. QED
        BY <3>2, <3>3 DEF RefundDue
    <2>4. QED
      BY <2>2, <2>3
  <1>6. ASSUME NEW p \in Process, WriteStep(p)
        PROVE  RefundDue(r)'
    <2>1. CASE req[p].res # r
      <3>1. \A q \in Process : req'[q].op = "refund" /\ req'[q].res = r => req'[q] = req[q]
        BY <1>3, <1>6, <2>1 DEF WriteStep, Only
      <3>2. status'[r] = status[r] /\ refunds' = refunds
        BY <1>0, <1>6, <2>1, WrittenStatus DEF WriteStep
      <3>3. QED
        BY <1>0, <3>1, <3>2, DueStays
    <2>2. CASE req[p].res = r
      <3>1. status[r] # "CANCELLED"
        BY <1>0, <1>6, <2>2, WritersSaw DEF WriteStep, Informed, Knows
      <3>2. /\ Only(p) /\ refunds' = refunds
            /\ req'[p].op = "refund" => status'[r] = "CANCELLED"
        BY <1>3, <1>6, <2>2 DEF WriteStep
      <3>3. QED
        BY <1>0, <3>1, <3>2, DueBegins
    <2>3. QED
      BY <2>1, <2>2
  <1>7. ASSUME NEW o \in Reservation, UpcomingStep(o)
        PROVE  RefundDue(r)'
    <2>1. refunds' = refunds /\ req' = req /\ status[o] # "CANCELLED"
      BY <1>7 DEF UpcomingStep, Live
    <2>2. CASE o # r
      <3>1. status'[r] = status[r]
        BY <1>0, <1>7, <2>2, WrittenStatus DEF UpcomingStep
      <3>2. QED
        BY <1>0, <2>1, <3>1, DueStays
    <2>3. CASE o = r
      BY <1>0, <2>1, <2>3 DEF RefundDue
    <2>4. QED
      BY <2>2, <2>3
  <1>8. ASSUME NEW p \in Process, NEW o \in Reservation, BookingStep(p, o)
        PROVE  RefundDue(r)'
    <2>1. /\ refunds' = refunds /\ Only(p) /\ req'[p].op # "refund" /\ status[o] = "NONE"
          /\ o # r => status'[r] = status[r]
      BY <1>8 DEF BookingStep
    <2>2. CASE o # r
      <3>1. \A q \in Process : req'[q].op = "refund" => req'[q] = req[q]
        BY <2>1 DEF Only
      <3>2. QED
        BY <1>0, <2>1, <2>2, <3>1, DueStays
    <2>3. CASE o = r
      BY <1>0, <2>1, <2>3, DueBegins
    <2>4. QED
      BY <2>2, <2>3
  <1>9. QED
    BY <1>1, <1>2, <1>4, <1>5, <1>6, <1>7, <1>8 DEF HistoryStep

LEMMA InitHistory == WatchedInit => HInv
  <1>1. Init => Informed /\ ReleasedSessions /\ RefundsDue
    BY DEF Init, Informed, Knows, ReleasedSessions, RefundsDue, RefundDue, Deciding, Idle
  <1>2. Init => NoStrayRows /\ Reached /\ RowsFollowUnlessOvertaken
    BY DEF Init, NoStrayRows, Reached, RowsFollowUnlessOvertaken, RowsFollow
  <1>3. QED
    BY <1>1, <1>2, InitInv DEF WatchedInit, HInv

LEMMA NextHistory == HInv /\ [WatchedNext]_watchedVars => HInv' /\ HistoryStep
  <1> SUFFICES ASSUME HInv, [WatchedNext]_watchedVars
               PROVE  HInv' /\ HistoryStep
    OBVIOUS
  <1>1. [Next]_vars /\ overtaken' = overtaken \cup Overtaken
    BY Watching
  <1>2. /\ IInv /\ TypeOK /\ RequestsOnRows
        /\ ReleasedSessions /\ NoStrayRows /\ Reached
    BY DEF HInv, IInv
  <1>3. RowStep /\ HistoryStep /\ IInv' /\ overtaken \subseteq overtaken'
    BY <1>1, <1>2, NextStep, Classified, NextInv
  <1>4. ReleasedSessions' /\ NoStrayRows' /\ Reached'
    BY <1>2, <1>3, ReleasesKept, StraysKept, ReachedKept
  <1>5. RowsFollowUnlessOvertaken' /\ Informed' /\ RefundsDue'
    BY <1>1, <1>3, RowsFollowKept, InformedKept, RefundsKept
  <1>6. QED
    BY <1>3, <1>4, <1>5 DEF HInv

THEOREM HistoryInductive == WatchedSpec => []HInv
  BY InitHistory, NextHistory, PTL DEF WatchedSpec

\* A cancelled booking blocks nobody and a moved one leaves nothing behind, however
\* its handlers were interleaved with those of other bookings, and with its own as
\* long as none of these decided on what another then changed.
THEOREM RowsAreFollowed == WatchedSpec => []RowsFollowUnlessOvertaken
  <1>1. HInv => RowsFollowUnlessOvertaken
    BY DEF HInv
  <1>2. QED
    BY <1>1, HistoryInductive, PTL

\* The PSP is asked once, at most, to give money back.
THEOREM RefundedAtMostOnce == WatchedSpec => []RefundedOnceUnlessOvertaken
  <1>1. HInv => RefundedOnceUnlessOvertaken
    BY DEF HInv, RefundsDue, RefundDue, RefundedOnceUnlessOvertaken
  <1>2. QED
    BY <1>1, HistoryInductive, PTL

\* What a handler decided on is where the state machine lets its write start.
LEMMA LegalHistory ==
    ASSUME HInv, HistoryStep, NEW r \in Reservation, r \notin overtaken
    PROVE  LegalStep(r)
  <1> SUFFICES ASSUME status'[r] # status[r]
               PROVE  \/ status'[r] \in TRANSITIONS(status[r])
                      \/ kind[r] = "SESSION" /\ status[r] = "NO_SHOW"
                         /\ status'[r] = "CANCELLED"
    BY DEF LegalStep
  <1>0. TypeOK /\ Informed /\ ReleasedSessions /\ Reached
    BY DEF HInv, IInv
  <1>1. ASSUME NEW p \in Process, WriteStep(p)
        PROVE  \/ status'[r] \in TRANSITIONS(status[r])
               \/ kind[r] = "SESSION" /\ status[r] = "NO_SHOW" /\ status'[r] = "CANCELLED"
    <2>1. req[p].op \in Writing /\ req[p].res \in Reservation
      BY <1>1 DEF WriteStep
    <2>2. req[p].res = r /\ status'[r] = Target(req[p].op)
      BY <1>0, <1>1, <2>1, WrittenStatus DEF WriteStep
    <2>3. status[r] \in Decided(req[p].op)
      BY <1>0, <2>1, <2>2, WritersSaw DEF Informed, Knows
    <2>4. CASE req[p].op = "release"
      <3>1. kind[r] = "SESSION" /\ status'[r] = "CANCELLED"
        BY <1>0, <2>2, <2>4 DEF ReleasedSessions, Target
      <3>2. status[r] \in Live \cup {"NO_SHOW"}
        BY <1>0, <2>3, <2>4 DEF Decided, Reached, Statuses, Live
      <3>3. QED
        BY <3>1, <3>2 DEF TRANSITIONS, Live
    <2>5. CASE req[p].op = "cancel"
      BY <2>2, <2>3, <2>5 DEF Decided, Target, TRANSITIONS, Live
    <2>6. CASE req[p].op \in {"confirm", "noShow"}
      BY <2>2, <2>3, <2>6 DEF Decided, Target, TRANSITIONS
    <2>7. CASE req[p].op \in {"expire", "paid", "failed"}
      BY <2>2, <2>3, <2>7 DEF Decided, Target, TRANSITIONS
    <2>8. QED
      BY <2>1, <2>4, <2>5, <2>6, <2>7 DEF Writing
  <1>2. ASSUME NEW o \in Reservation, UpcomingStep(o)
        PROVE  status'[r] \in TRANSITIONS(status[r])
    <2>1. status[r] \in Live /\ status'[r] = "CANCELLED"
      BY <1>0, <1>2, WrittenStatus DEF UpcomingStep
    <2>2. QED
      BY <2>1 DEF TRANSITIONS, Live
  <1>3. ASSUME NEW p \in Process, NEW o \in Reservation, BookingStep(p, o)
        PROVE  status'[r] \in TRANSITIONS(status[r])
    <2>1. /\ status[r] = "NONE"
          /\ status'[r] \in {"PENDING_PAYMENT", "PENDING_APPROVAL", "CONFIRMED"}
      BY <1>3 DEF BookingStep
    <2>2. QED
      BY <2>1 DEF TRANSITIONS
  <1>4. QED
    BY <1>1, <1>2, <1>3 DEF HistoryStep, QuietStep, MovingStep, RefundStep

\* Every change of status is one the state machine of the domain package has.
THEOREM StatusesAreLegal == WatchedSpec => LegalUnlessOvertaken
  <1>1. HInv /\ [WatchedNext]_watchedVars =>
          [\A r \in Reservation \ overtaken : LegalStep(r)]_watchedVars
    BY NextHistory, LegalHistory
  <1>2. QED
    BY <1>1, HistoryInductive, PTL DEF WatchedSpec, LegalUnlessOvertaken

\* The expiry job cancels what is unpaid, and nothing else.
THEOREM OnlyUnpaidExpire == WatchedSpec => UnpaidUnlessOvertaken
  <1>1. HInv /\ [WatchedNext]_watchedVars =>
          [\A w \in Worker : req[w] # Idle /\ req[w].res \notin overtaken
                               => ExpiresUnpaid(w)]_watchedVars
    <2> SUFFICES ASSUME HInv, NEW w \in Worker, req[w].res \notin overtaken, At(w, "expire")
                 PROVE  status[req[w].res] \in {"HOLD", "PENDING_PAYMENT"}
      BY DEF ExpiresUnpaid
    <2>1. Knows(w) /\ req[w].op = "expire"
      BY DEF HInv, Informed, Process, At
    <2>2. QED
      BY <2>1 DEF Knows, Deciding, Decided
  <1>2. QED
    BY <1>1, HistoryInductive, PTL DEF WatchedSpec, UnpaidUnlessOvertaken
===============================================================================
