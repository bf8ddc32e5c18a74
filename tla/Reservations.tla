----------------------------- MODULE Reservations -----------------------------
(***************************************************************************)
(* The life of a reservation: ReservationsService with the hold-expiry     *)
(* queue, the payment webhooks and the database rules it stands on (the    *)
(* no_resource_overlap constraint and the isActive trigger).               *)
(*                                                                         *)
(* A handler of the service reads the reservation, decides, and then       *)
(* writes, with an await between the two.  Every handler is therefore a    *)
(* Read step that keeps what it saw in req[p], and a later step that       *)
(* writes.  A database transaction is one step: the row locks it takes     *)
(* order it against every transaction that touches the same rows.  The one *)
(* statement that is split further is the DELETE of reschedule, whose rows *)
(* are chosen when it starts and removed when its row locks are granted.   *)
(***************************************************************************)
EXTENDS Integers, FiniteSets

CONSTANTS
    Reservation,   \* identities of reservations
    Court,         \* the courts of the club
    Coach,         \* the shared COACH resources
    CourtSets,     \* the court selections a request may name
    Period,        \* the bookable periods, half open
    Kind,          \* the kinds of booking made (see Kinds)
    Method,        \* the ways a player's booking is settled (see Methods)
    Api,           \* request handlers in flight at the same time
    Worker,        \* workers of the booking-holds queue
    Faults,        \* which failures happen (see FaultKinds)
    HoldTTL,       \* HOLD_TTL_MIN
    MaxTime,       \* bound on the clock
    MaxMoves       \* bound on the reschedules that are started per reservation

Kinds == {"COURT", "LESSON", "SESSION", "BLOCK"}

\* Paid online, to be approved by the club, or confirmed at once.
Methods == {"ONLINE", "APPROVAL", "ONSITE"}

\* crash: the API process dies, or the handler throws, between two steps;
\* job: an expiry job fails in the worker; psp: the PSP refuses a refund.
FaultKinds == {"crash", "job", "psp"}

ASSUME ConstantsAssumption ==
    /\ Period \subseteq [from: Nat, to: Nat]
    /\ \A t \in Period : t.from < t.to
    /\ CourtSets \subseteq (SUBSET Court) \ {{}}
    /\ Kind \subseteq Kinds
    /\ Method \subseteq Methods
    /\ Faults \subseteq FaultKinds
    /\ HoldTTL \in Nat \ {0}
    /\ MaxTime \in Nat
    /\ MaxMoves \in Nat

VARIABLES
    now,       \* the clock
    status,    \* Reservation.status, "NONE" before the row exists
    kind,      \* Reservation.type, with SESSION for a coach's group session
    bounds,    \* Reservation.startsAt / endsAt
    hold,      \* Reservation.holdExpiresAt
    claims,    \* the ReservationResource rows
    moves,     \* how often the rows of a reservation were replaced
    payment,   \* the Payment row
    job,       \* when the delayed job hold-<id> of booking-holds is due
    session,   \* the hosted checkout session at the PSP
    refunds,   \* refunds the PSP has paid out
    req        \* what each handler in flight has read and will do next

vars == <<now, status, kind, bounds, hold, claims, moves, payment, job,
          session, refunds, req>>

Process == Api \cup Worker

Statuses == {"NONE", "HOLD", "PENDING_PAYMENT", "PENDING_APPROVAL",
             "CONFIRMED", "COMPLETED", "NO_SHOW", "CANCELLED", "REFUNDED"}

\* The statuses that occupy inventory, as the domain package lists them ...
Occupying == {"HOLD", "PENDING_PAYMENT", "PENDING_APPROVAL", "CONFIRMED",
              "COMPLETED"}

\* Mutant: the trigger before migration 20261011120100 brought approvals in.
TriggerStatuses_BeforeApproval == {"HOLD", "PENDING_PAYMENT", "CONFIRMED",
                                   "COMPLETED"}

\* ... and the database's own list of them, in the isActive trigger.
TriggerStatuses == {"HOLD", "PENDING_PAYMENT", "PENDING_APPROVAL", "CONFIRMED",
                    "COMPLETED"}

\* The statuses a reservation can be rescheduled or cancelled from.
Live == {"HOLD", "PENDING_PAYMENT", "PENDING_APPROVAL", "CONFIRMED"}

TRANSITIONS(s) ==
    CASE s = "NONE"             -> {"HOLD", "CONFIRMED", "PENDING_PAYMENT",
                                    "PENDING_APPROVAL"}
      [] s = "HOLD"             -> {"CONFIRMED", "PENDING_PAYMENT",
                                    "PENDING_APPROVAL", "CANCELLED"}
      [] s = "PENDING_PAYMENT"  -> {"CONFIRMED", "PENDING_APPROVAL", "CANCELLED"}
      [] s = "PENDING_APPROVAL" -> {"CONFIRMED", "CANCELLED"}
      [] s = "CONFIRMED"        -> {"COMPLETED", "NO_SHOW", "CANCELLED"}
      [] s = "COMPLETED"        -> {"REFUNDED"}
      [] s = "CANCELLED"        -> {"REFUNDED"}
      [] OTHER                  -> {}

\* The null of a nullable timestamp.
Never == -1

NoPeriod == [from |-> 0, to |-> 0]

PaymentState == {"NONE", "PENDING", "CAPTURED", "FAILED", "REFUNDED",
                 "PARTIALLY_REFUNDED"}

\* Payment.providerRef: nothing, the checkout session, or the payment intent.
Ref == {"none", "session", "intent"}

\* What the cancellation tiers give back: computeRefund compared with 0 and
\* with the amount of the payment.
Share == {"none", "part", "full"}

Op == {"schedule", "checkout", "record", "confirm", "noShow", "expire", "paid",
       "failed", "cancel", "refund", "release", "move", "moving"}

Idle == [op |-> "idle"]

\* share and ref are for a cancellation; old (the rows a DELETE has chosen) and
\* at (when resolveSlot looked at the clock) for a reschedule.
Requests == [op: Op, res: Reservation, share: Share, ref: Ref,
             old: SUBSET Nat, at: Nat]

Req(op, r) ==
    [op |-> op, res |-> r, share |-> "none", ref |-> "none", old |-> {}, at |-> 0]

\* The rows one transaction inserts for one reservation: they share period and
\* isActive for good, so they are kept together.
Claim == [res: Reservation, gen: Nat, rooms: SUBSET (Court \cup Coach),
          period: Period, active: BOOLEAN]

Rows(r, n, R, t, b) ==
    [res |-> r, gen |-> n, rooms |-> R, period |-> t, active |-> b]

TypeOK ==
    /\ now \in Nat
    /\ status \in [Reservation -> Statuses]
    /\ kind \in [Reservation -> Kinds \cup {"NONE"}]
    /\ bounds \in [Reservation -> Period \cup {NoPeriod}]
    /\ hold \in [Reservation -> Nat \cup {Never}]
    /\ claims \subseteq Claim
    /\ moves \in [Reservation -> Nat]
    /\ payment \in [Reservation -> [state: PaymentState, ref: Ref]]
    /\ job \in [Reservation -> Nat \cup {Never}]
    /\ session \in [Reservation -> {"none", "created", "open", "paid", "ended"}]
    /\ refunds \in [Reservation -> Nat]
    /\ req \in [Process -> Requests \cup {Idle}]

Init ==
    /\ now = 0
    /\ status = [r \in Reservation |-> "NONE"]
    /\ kind = [r \in Reservation |-> "NONE"]
    /\ bounds = [r \in Reservation |-> NoPeriod]
    /\ hold = [r \in Reservation |-> Never]
    /\ claims = {}
    /\ moves = [r \in Reservation |-> 0]
    /\ payment = [r \in Reservation |-> [state |-> "NONE", ref |-> "none"]]
    /\ job = [r \in Reservation |-> Never]
    /\ session = [r \in Reservation |-> "none"]
    /\ refunds = [r \in Reservation |-> 0]
    /\ req = [p \in Process |-> Idle]

-----------------------------------------------------------------------------
(***************************************************************************)
(* The database.                                                           *)
(***************************************************************************)

\* tstzrange(a, b, '[)') && tstzrange(c, d, '[)')
Overlap(s, t) == s.from < t.to /\ t.from < s.to

Clash(c, rooms, period) == c.rooms \cap rooms # {} /\ Overlap(c.period, period)

\* Mutant: the conflict query looks at the courts of the club alone.
Free_CourtsOnly(C, rooms, period) ==
    \A c \in C : c.active => ~ Clash(c, rooms \cap Court, period)

\* The conflict query: no active row of these resources overlaps the period.
Free(C, rooms, period) == \A c \in C : c.active => ~ Clash(c, rooms, period)

\* EXCLUDE USING gist ("resourceId" WITH =, period WITH &&) WHERE ("isActive")
no_resource_overlap(C) ==
    \A c, d \in C : c.active /\ d.active /\ Clash(c, d.rooms, d.period) => c = d

\* SET "isActive" = b
SetActive(c, b) == [c EXCEPT !.active = b]

\* Mutant: the trigger's UPDATE has lost its WHERE "reservationId" = NEW.id.
Synced_AllRows(r, s) ==
    IF s = status[r]
      THEN claims
      ELSE {SetActive(c, s \in TriggerStatuses) : c \in claims}

\* sync_reservation_resource_active, fired when the status really changes.
Synced(r, s) ==
    IF s = status[r]
      THEN claims
      ELSE {IF c.res = r THEN SetActive(c, s \in TriggerStatuses) ELSE c
               : c \in claims}

\* Mutant: the trigger is missing.
UpdateStatus_NoTrigger(r, s) ==
    /\ status' = [status EXCEPT ![r] = s]
    /\ claims' = claims

\* UPDATE "Reservation" SET status = s, with the trigger it fires.
UpdateStatus(r, s) ==
    /\ status' = [status EXCEPT ![r] = s]
    /\ claims' = Synced(r, s)

\* Mutant: the constraint was dropped.
Refused_Never(r, s) == FALSE

\* The UPDATE above is refused by the constraint and nothing is written.
Refused(r, s) == ~ no_resource_overlap(Synced(r, s))

-----------------------------------------------------------------------------
(***************************************************************************)
(* Handlers.  Begin is the read that lets a handler go on; a read whose    *)
(* guard fails ends the handler without a trace.                           *)
(***************************************************************************)

Begin(p, next) == req[p] = Idle /\ req' = [req EXCEPT ![p] = next]

Continue(p, next) == req' = [req EXCEPT ![p] = next]

At(p, op) == req[p].op = op

Finish(p) == req' = [req EXCEPT ![p] = Idle]

\* What the booking transaction leaves as the status: a player's or a walk-in's
\* booking depends on how it is settled (createReservation, createManual), a
\* block and a coach's session do not (createBlock,
\* createCoachBlockingReservation).
finalStatus(k) ==
    IF k \in {"BLOCK", "SESSION"} THEN {"CONFIRMED"}
    ELSE {CASE m = "ONLINE" -> "PENDING_PAYMENT"
            [] m = "APPROVAL" -> "PENDING_APPROVAL"
            [] m = "ONSITE" -> "CONFIRMED" : m \in Method}

\* A lesson and a group session take the coach along with the court.
Rooms(k, R) ==
    IF k \in {"LESSON", "SESSION"} THEN {R \cup {x} : x \in Coach} ELSE {R}

\* resolveSlot, runBookingTransaction, and for an online booking the way on to
\* the expiry job and the checkout.
Book(p, r, k, R, t, s) ==
    /\ status[r] = "NONE"
    /\ k = "SESSION" => Cardinality(R) = 1
    /\ now < t.from
    /\ \E rooms \in Rooms(k, R) :
         /\ Free(claims, rooms, t)
         /\ claims' = claims \cup {Rows(r, 0, rooms, t, s \in TriggerStatuses)}
    /\ status' = [status EXCEPT ![r] = s]
    /\ kind' = [kind EXCEPT ![r] = k]
    /\ bounds' = [bounds EXCEPT ![r] = t]
    /\ hold' = [hold EXCEPT ![r] = IF s = "PENDING_PAYMENT" THEN now + HoldTTL ELSE Never]
    /\ Begin(p, IF s = "PENDING_PAYMENT" THEN Req("schedule", r) ELSE Idle)
    /\ UNCHANGED <<now, moves, payment, job, session, refunds>>

\* Mutant: the queue drops the job, as it does without a REDIS_URL.
JobDue_Dropped(r) == Never

JobDue(r) == hold[r]

\* HoldQueueService.scheduleExpiry
ScheduleExpiry(p) ==
    /\ At(p, "schedule")
    /\ LET r == req[p].res IN
         /\ job' = [job EXCEPT ![r] = JobDue(r)]
         /\ Continue(p, Req("checkout", r))
    /\ UNCHANGED <<now, status, kind, bounds, hold, claims, moves, payment,
                   session, refunds>>

\* PaymentsService.createCheckout: the provider opens a session ...
CreateCheckout(p) ==
    /\ At(p, "checkout")
    /\ LET r == req[p].res IN
         /\ session' = [session EXCEPT ![r] = "created"]
         /\ Continue(p, Req("record", r))
    /\ UNCHANGED <<now, status, kind, bounds, hold, claims, moves, payment,
                   job, refunds>>

\* ... the Payment row is upserted and the player is given the session's URL.
RecordPayment(p) ==
    /\ At(p, "record")
    /\ LET r == req[p].res IN
         /\ payment' = [payment EXCEPT ![r] = [state |-> "PENDING", ref |-> "session"]]
         /\ session' = [session EXCEPT ![r] = IF @ = "created" THEN "open" ELSE @]
    /\ Finish(p)
    /\ UNCHANGED <<now, status, kind, bounds, hold, claims, moves, job, refunds>>

\* Mutant: any booking can be approved.
AwaitingApproval_Any(r) == status[r] # "NONE"

AwaitingApproval(r) == status[r] = "PENDING_APPROVAL"

\* confirm: staff approve a booking that waits for them.
ConfirmRead(p, r) ==
    /\ AwaitingApproval(r)
    /\ Begin(p, Req("confirm", r))
    /\ UNCHANGED <<now, status, kind, bounds, hold, claims, moves, payment,
                   job, session, refunds>>

ConfirmWrite(p) ==
    /\ At(p, "confirm")
    /\ LET r == req[p].res IN
         \/ /\ ~ Refused(r, "CONFIRMED")
            /\ UpdateStatus(r, "CONFIRMED")
            /\ hold' = [hold EXCEPT ![r] = Never]
         \/ /\ Refused(r, "CONFIRMED")
            /\ UNCHANGED <<status, claims, hold>>
    /\ Finish(p)
    /\ UNCHANGED <<now, kind, bounds, moves, payment, job, session, refunds>>

\* markPaid: staff took the money at the desk.  No status is looked at.
MarkPaid(p, r) ==
    /\ req[p] = Idle
    /\ status[r] # "NONE"
    /\ payment' = [payment EXCEPT ![r].state = "CAPTURED"]
    /\ UNCHANGED <<now, status, kind, bounds, hold, claims, moves, job,
                   session, refunds, req>>

\* markNoShow
NoShowRead(p, r) ==
    /\ status[r] = "CONFIRMED"
    /\ bounds[r].from <= now
    /\ Begin(p, Req("noShow", r))
    /\ UNCHANGED <<now, status, kind, bounds, hold, claims, moves, payment,
                   job, session, refunds>>

NoShowWrite(p) ==
    /\ At(p, "noShow")
    /\ UpdateStatus(req[p].res, "NO_SHOW")
    /\ Finish(p)
    /\ UNCHANGED <<now, kind, bounds, hold, moves, payment, job, session, refunds>>

\* releaseReservation: the group session the reservation belongs to is off.
ReleaseRead(p, r) ==
    /\ kind[r] = "SESSION"
    /\ status[r] \notin {"NONE", "CANCELLED"}
    /\ Begin(p, Req("release", r))
    /\ UNCHANGED <<now, status, kind, bounds, hold, claims, moves, payment,
                   job, session, refunds>>

ReleaseWrite(p) ==
    /\ At(p, "release")
    /\ UpdateStatus(req[p].res, "CANCELLED")
    /\ Finish(p)
    /\ UNCHANGED <<now, kind, bounds, hold, moves, payment, job, session, refunds>>

-----------------------------------------------------------------------------
(***************************************************************************)
(* Reschedule.                                                             *)
(***************************************************************************)

MoveRead(p, r) ==
    /\ status[r] \in Live
    /\ moves[r] < MaxMoves
    /\ \E t \in Period : now < t.from
    /\ Begin(p, [Req("move", r) EXCEPT !.at = now])
    /\ UNCHANGED <<now, status, kind, bounds, hold, claims, moves, payment,
                   job, session, refunds>>

SeenRows(r) == {c.gen : c \in {d \in claims : d.res = r}}

\* DELETE FROM "ReservationResource" starts: under READ COMMITTED it removes
\* the rows committed by now, however long it then waits for their locks.
MoveDelete(p) ==
    /\ At(p, "move")
    /\ LET r == req[p].res IN
         Continue(p, [req[p] EXCEPT !.op = "moving", !.old = SeenRows(r)])
    /\ UNCHANGED <<now, status, kind, bounds, hold, claims, moves, payment,
                   job, session, refunds>>

\* Mutant: startsAt and endsAt are swapped.
MovedBounds_Swapped(r, t) ==
    [bounds EXCEPT ![r] = [from |-> t.to, to |-> t.from]]

\* Mutant: the rows move and the reservation's own times do not.
MovedBounds_Kept(r, t) == bounds

MovedBounds(r, t) == [bounds EXCEPT ![r] = t]

\* The rest of the transaction.  The new period lay ahead when the request was
\* read.  The new rows are courts of the club only, and they are active because
\* the status that was read is a live one.
MoveCommit(p, R, t) ==
    /\ At(p, "moving")
    /\ req[p].at < t.from
    /\ LET r    == req[p].res
           kept == {c \in claims : ~ (c.res = r /\ c.gen \in req[p].old)}
       IN  \/ /\ Free(kept, R, t)
              /\ claims' = kept \cup {Rows(r, moves[r] + 1, R, t, TRUE)}
              /\ moves' = [moves EXCEPT ![r] = @ + 1]
              /\ bounds' = MovedBounds(r, t)
           \/ /\ ~ Free(kept, R, t)
              /\ UNCHANGED <<claims, moves, bounds>>
    /\ Finish(p)
    /\ UNCHANGED <<now, status, kind, hold, payment, job, session, refunds>>

-----------------------------------------------------------------------------
(***************************************************************************)
(* Cancellation and refund.                                                *)
(***************************************************************************)

\* Mutant: a booking can be cancelled whatever became of it.
Cancellable_Any(r) == status[r] # "NONE"

Cancellable(r) == status[r] \in Live

CancelRead(p, r, share) ==
    /\ Cancellable(r)
    /\ kind[r] \in {"BLOCK", "SESSION"} => share = "none"
    /\ Begin(p, [Req("cancel", r) EXCEPT
                   !.share = IF payment[r].state = "CAPTURED" THEN share ELSE "none",
                   !.ref = payment[r].ref])
    /\ UNCHANGED <<now, status, kind, bounds, hold, claims, moves, payment,
                   job, session, refunds>>

CancelCommit(p) ==
    /\ At(p, "cancel")
    /\ LET r          == req[p].res
           willRefund == req[p].share # "none"
       IN  /\ UpdateStatus(r, "CANCELLED")
           /\ payment' = IF willRefund
                THEN [payment EXCEPT ![r].state =
                        IF req[p].share = "full" THEN "REFUNDED"
                                                 ELSE "PARTIALLY_REFUNDED"]
                ELSE payment
           /\ Continue(p, IF willRefund /\ req[p].ref # "none"
                            THEN [Req("refund", r) EXCEPT !.ref = req[p].ref]
                            ELSE Idle)
    /\ UNCHANGED <<now, kind, bounds, hold, moves, job, session, refunds>>

\* ModerationService, when it suspends or removes an account: one UPDATE of what the
\* account has ahead.  It looks at the statuses as it writes, and at no payment.  Its
\* rows are taken one at a time, which allows more in between than the code does.
CancelUpcoming(p, r) ==
    /\ req[p] = Idle
    /\ status[r] \in Live
    /\ now < bounds[r].from
    /\ UpdateStatus(r, "CANCELLED")
    /\ UNCHANGED <<now, kind, bounds, hold, moves, payment, job, session,
                   refunds, req>>

\* PaymentsService.refund; an error is swallowed.  The PSP refunds a payment
\* intent and knows nothing of a refund against a checkout session.
Refund(p) ==
    /\ At(p, "refund")
    /\ \/ /\ req[p].ref = "intent"
          /\ refunds' = [refunds EXCEPT ![req[p].res] = @ + 1]
       \/ /\ req[p].ref # "intent" \/ "psp" \in Faults
          /\ UNCHANGED refunds
    /\ Finish(p)
    /\ UNCHANGED <<now, status, kind, bounds, hold, claims, moves, payment,
                   job, session>>

-----------------------------------------------------------------------------
(***************************************************************************)
(* The booking-holds worker.                                               *)
(***************************************************************************)

\* Mutant: nobody looks at the clock.
Elapsed_Always(t) == TRUE

\* Not (t && t > new Date()).
Elapsed(t) == t = Never \/ t <= now

\* Mutant: the worker does not ask whether the reservation moved on.
Expirable_Any(r) == Elapsed(hold[r])

Expirable(r) == status[r] \in {"HOLD", "PENDING_PAYMENT"} /\ Elapsed(hold[r])

\* BullMQ hands a due job to one worker; expireHold looks at the reservation.
ExpireRead(w, r) ==
    /\ job[r] # Never
    /\ Elapsed(job[r])
    /\ \A p \in Process : ~ (At(p, "expire") /\ req[p].res = r)
    /\ \/ /\ Expirable(r)
          /\ Begin(w, Req("expire", r))
          /\ UNCHANGED job
       \/ /\ ~ Expirable(r)
          /\ Begin(w, Idle)
          /\ job' = [job EXCEPT ![r] = Never]
    /\ UNCHANGED <<now, status, kind, bounds, hold, claims, moves, payment,
                   session, refunds>>

ExpireWrite(w) ==
    /\ At(w, "expire")
    /\ UpdateStatus(req[w].res, "CANCELLED")
    /\ job' = [job EXCEPT ![req[w].res] = Never]
    /\ Finish(w)
    /\ UNCHANGED <<now, kind, bounds, hold, moves, payment, session, refunds>>

\* The job throws: one attempt, removeOnFail, and the job is gone.
ExpireFail(w) ==
    /\ "job" \in Faults
    /\ At(w, "expire")
    /\ job' = [job EXCEPT ![req[w].res] = Never]
    /\ Finish(w)
    /\ UNCHANGED <<now, status, kind, bounds, hold, claims, moves, payment,
                   session, refunds>>

-----------------------------------------------------------------------------
(***************************************************************************)
(* The PSP and its webhooks.  An event may be delivered any number of      *)
(* times and at any time after it happened.                                *)
(***************************************************************************)

PspPay(r) ==
    /\ session[r] = "open"
    /\ session' = [session EXCEPT ![r] = "paid"]
    /\ UNCHANGED <<now, status, kind, bounds, hold, claims, moves, payment,
                   job, refunds, req>>

PspEnd(r) ==
    /\ session[r] \in {"created", "open"}
    /\ session' = [session EXCEPT ![r] = "ended"]
    /\ UNCHANGED <<now, status, kind, bounds, hold, claims, moves, payment,
                   job, refunds, req>>

\* handleWebhook, kind paid: confirmPaidReservation
PaidRead(p, r) ==
    /\ session[r] = "paid"
    /\ status[r] = "PENDING_PAYMENT"
    /\ Begin(p, Req("paid", r))
    /\ UNCHANGED <<now, status, kind, bounds, hold, claims, moves, payment,
                   job, session, refunds>>

PaidCommit(p) ==
    /\ At(p, "paid")
    /\ LET r == req[p].res IN
         \/ /\ ~ Refused(r, "CONFIRMED")
            /\ UpdateStatus(r, "CONFIRMED")
            /\ hold' = [hold EXCEPT ![r] = Never]
            /\ payment' = IF payment[r].state = "NONE" THEN payment
                 ELSE [payment EXCEPT ![r] = [state |-> "CAPTURED", ref |-> "intent"]]
         \/ /\ Refused(r, "CONFIRMED")
            /\ UNCHANGED <<status, claims, hold, payment>>
    /\ Finish(p)
    /\ UNCHANGED <<now, kind, bounds, moves, job, session, refunds>>

\* handleWebhook, kind failed: failPayment
FailedRead(p, r) ==
    /\ session[r] = "ended"
    /\ status[r] = "PENDING_PAYMENT"
    /\ Begin(p, Req("failed", r))
    /\ UNCHANGED <<now, status, kind, bounds, hold, claims, moves, payment,
                   job, session, refunds>>

FailedCommit(p) ==
    /\ At(p, "failed")
    /\ LET r == req[p].res IN
         /\ UpdateStatus(r, "CANCELLED")
         /\ payment' = IF payment[r].state = "NONE" THEN payment
              ELSE [payment EXCEPT ![r].state = "FAILED"]
    /\ Finish(p)
    /\ UNCHANGED <<now, kind, bounds, hold, moves, job, session, refunds>>

-----------------------------------------------------------------------------

\* A handler is lost between two of its steps.  A job that was being run is
\* found stalled by BullMQ and runs again.
Crash(p) ==
    /\ "crash" \in Faults
    /\ req[p] # Idle
    /\ Finish(p)
    /\ UNCHANGED <<now, status, kind, bounds, hold, claims, moves, payment,
                   job, session, refunds>>

Tick ==
    /\ now < MaxTime
    /\ now' = now + 1
    /\ UNCHANGED <<status, kind, bounds, hold, claims, moves, payment, job,
                   session, refunds, req>>

\* A request arrives at an idle handler.
Arrive(p, r) ==
    \/ \E k \in Kind, R \in CourtSets, t \in Period : \E s \in finalStatus(k) :
          Book(p, r, k, R, t, s)
    \/ ConfirmRead(p, r)
    \/ MarkPaid(p, r)
    \/ NoShowRead(p, r)
    \/ ReleaseRead(p, r)
    \/ MoveRead(p, r)
    \/ \E share \in Share : CancelRead(p, r, share)
    \/ CancelUpcoming(p, r)

Deliver(p, r) == PaidRead(p, r) \/ FailedRead(p, r)

\* A handler in flight takes its next step.
Proceed(p) ==
    \/ ScheduleExpiry(p) \/ CreateCheckout(p) \/ RecordPayment(p)
    \/ ConfirmWrite(p) \/ NoShowWrite(p) \/ ReleaseWrite(p)
    \/ MoveDelete(p)
    \/ \E R \in CourtSets, t \in Period : MoveCommit(p, R, t)
    \/ CancelCommit(p) \/ Refund(p)
    \/ PaidCommit(p) \/ FailedCommit(p)
    \/ ExpireWrite(p)

Next ==
    \/ \E p \in Api, r \in Reservation : Arrive(p, r) \/ Deliver(p, r)
    \/ \E w \in Worker, r \in Reservation : ExpireRead(w, r)
    \/ \E p \in Process : Proceed(p) \/ ExpireFail(p) \/ Crash(p)
    \/ \E r \in Reservation : PspPay(r) \/ PspEnd(r)
    \/ Tick

Spec == Init /\ [][Next]_vars

(***************************************************************************)
(* The handlers and the worker are never starved, time passes, and the PSP *)
(* delivers an event until some handler takes it.  Users owe us nothing.   *)
(***************************************************************************)
Fairness ==
    /\ WF_vars(Tick)
    /\ \A p \in Process : WF_vars(Proceed(p))
    /\ \A w \in Worker, r \in Reservation : WF_vars(ExpireRead(w, r))
    /\ \A r \in Reservation : WF_vars(\E p \in Api : Deliver(p, r))

FairSpec == Spec /\ Fairness

-----------------------------------------------------------------------------
(***************************************************************************)
(* Properties that hold however the handlers interleave.                   *)
(***************************************************************************)

\* No court and no coach is held twice for overlapping times, whichever
\* bookings, moves, approvals and payments race each other.
NoDoubleBooking ==
    \A c, d \in claims :
        c.active /\ d.active /\ Overlap(c.period, d.period) /\ c # d
          => c.rooms \cap d.rooms = {}

\* A reservation in an occupying status holds resources for exactly the hours
\* it says: no interleaving of a move with a cancel, an approval or a webhook
\* leaves a booking that the conflict query cannot see.
LiveHoldsInventory ==
    \A r \in Reservation : status[r] \in Occupying =>
        \E c \in claims : /\ c.res = r
                          /\ c.active
                          /\ c.period = bounds[r]

\* A job of the worker never takes the slot from a player who still has time
\* to pay: a reservation that goes from PENDING_PAYMENT to CANCELLED by
\* expireHold has run out of its hold.
HoldHonoured ==
    [][\A w \in Worker :
         At(w, "expire") =>
            LET r == req[w].res IN
              status[r] = "PENDING_PAYMENT" /\ status'[r] = "CANCELLED"
                /\ req'[w] = Idle
              => hold[r] <= now]_vars

\* The slots a reservation holds, for Inventory.
ledger ==
    [r \in Reservation |->
        UNION {{[room |-> x, period |-> c.period] : x \in c.rooms}
                  : c \in {d \in claims : d.res = r /\ d.active}}]

Ledger == INSTANCE Inventory
            WITH Booking <- Reservation, Place <- Court \cup Coach,
                 held <- ledger

\* Every step of every handler is a change of one booking's entry in the
\* ledger, all or nothing, or no change of it at all.
ImplementsInventory == Ledger!Spec

\* An unpaid booking does not stay unpaid: payment, failure, cancellation or
\* the expiry job settles it.
HoldsReleased ==
    \A r \in Reservation :
        status[r] = "PENDING_PAYMENT" ~> status[r] # "PENDING_PAYMENT"

-----------------------------------------------------------------------------
(***************************************************************************)
(* What the code and its comments state of one reservation.  It holds of   *)
(* those on which no handler was overtaken (see ReservationsHistory).      *)
(***************************************************************************)

\* The rows of a reservation say what it says: its period, and active exactly
\* while it occupies inventory, so that a cancelled reservation blocks nobody.
RowsFollow(r) ==
    \A c \in claims :
        c.res = r => /\ c.active <=> status[r] \in Occupying
                     /\ c.period = bounds[r]

\* Changes of status are those of the domain package's state machine, but for a
\* group session that is called off after a no-show: releaseReservation looks for
\* nothing but CANCELLED.
LegalStep(r) ==
    status'[r] # status[r] =>
        \/ status'[r] \in TRANSITIONS(status[r])
        \/ kind[r] = "SESSION" /\ status[r] = "NO_SHOW" /\ status'[r] = "CANCELLED"

\* What the expiry job of w cancels is an unpaid booking.
ExpiresUnpaid(w) ==
    At(w, "expire") /\ req'[w] = Idle =>
        LET r == req[w].res IN
          status'[r] # status[r] => status[r] \in {"HOLD", "PENDING_PAYMENT"}

\* The expiry job cancels nothing but unpaid bookings.
ExpiryTouchesOnlyUnpaid == [][\A w \in Worker : ExpiresUnpaid(w)]_vars
===============================================================================
