# PlaySlot in TLA+

PlaySlot books courts, coaches, group trainings and club events. This directory
is its formal model: TLA+ modules translated from the source, the instances TLC
checks, and the theorems TLAPS proves. Paths below are relative to the
repository root; `reservations.service.ts` is
`apps/api/src/reservations/reservations.service.ts` and so on.

    tlc -config ReservationsInventory.cfg MCReservations.tla   # check an instance
    tlapm ReservationsProofs.tla                               # check the proofs

## 1. The system

A TypeScript monorepo. The logic that matters runs in `apps/api` (NestJS, Prisma
on PostgreSQL at its default READ COMMITTED, BullMQ on Redis, Stripe), on top of
the pure functions of `packages/domain`. `apps/web` (Next.js) decides nothing,
but keeps a cache of what the API answered (TanStack Query) that all its pages
share. `packages/contracts` validates requests, `packages/db` holds the schema
and the SQL migrations with the two database rules everything rests on.

| Part | State | Operations | Talks to |
|---|---|---|---|
| Reservations (`reservations.service.ts`) | `Reservation`, `ReservationResource`, `Payment` | book (player, staff, coach), block, confirm, mark paid, no-show, release, reschedule, cancel, expire, paid/failed, cancelled by moderation | database, hold queue, payments, mail |
| Database rules (migrations `20260905190810`, `20261011120100`) | `isActive`, the exclusion index | `no_resource_overlap`, trigger `sync_reservation_resource_active` | every writer |
| Hold queue (`hold-queue.service.ts`) | delayed jobs in Redis | schedule, run, fail | `expireHold` |
| Payments (`payments.service.ts`, `stripe.provider.ts`) | `Payment`, checkout sessions and refunds at the PSP | create checkout, webhook, refund | reservations, Stripe |
| Programs (`programs.service.ts`) | `Event`, `EventRegistration` | create, update, register, unregister | database |
| Group sessions (`group-sessions.service.ts`) | `GroupSession`, registrations | create, register, unregister, cancel, invite | reservations, mail |
| Moderation (`moderation.service.ts`, `common/standing.ts`) | `User.suspendedAt`, `deletedAt` | suspend, reinstate, approve, remove | reservations' rows, registrations, tokens |
| Club administration (`clubs.service.ts`, `resources.service.ts`) | clubs, courts, opening hours, closures, people of a club | onboarding, featuring, people, courts, hours, closures | live bookings, accounts |
| Coaching (`coaching.service.ts`) | coach hours, services | hours, free slots | availability |
| Availability (`availability.service.ts`, `domain/availability.ts`) | none | free slots of a day and their prices | hours, closures, rows, rules |
| Pricing, memberships, cancellation policy (`pricing.service.ts`, `memberships.service.ts`, `domain/pricing.ts`, `domain/cancellation.ts`) | rules, plans, memberships | price, preview, discount, refund | reservations, availability |
| Authentication (`auth.service.ts`) | users, single-use tokens, OAuth links | register, verify, reset, invite, link | mail |
| Web application (`apps/web/src`) | the query cache, the session of the browser | show, save, refresh, sign in and out | every service |
| Mail, push, search, stats, feedback, community | none that decides anything | notify, read | |

### What is hard

* **Reads before writes.** Every handler reads, decides, awaits, and then writes
  without looking again: `confirm`, `cancel`, `expireHold`,
  `confirmPaidReservation`, `failPayment`, `reschedule`, `createClosure`,
  `addCoach`, `verifyEmail`, `upsertOAuthUser`. The database orders the writes;
  nothing orders the decisions.
* **READ COMMITTED.** A count in a transaction protects nothing (`register`), and
  a DELETE removes the rows that existed when it began (`reschedule`,
  `setAvailability`, `updateMyHours`).
* **Two guards for one promise.** `SELECT ... FOR UPDATE` orders bookings of
  courts. A coach's resource has no `clubId` and is not locked; there only the
  exclusion constraint speaks, and it speaks by waiting, by an error, or by a
  deadlock.
* **Outside the transaction.** Expiry job, checkout, refund and mail come after
  the commit: a crash, a refusal or a late webhook falls in between.
* **Time.** A hold expires after `HOLD_TTL_MIN`, a checkout page after 30
  minutes; a day has 23 hours when the clocks go forward and 25 when they go back, and
  two midnights.
* **The same question answered twice.** The grid, the preview and the booking
  compute price and free slots by different code; the web application keeps
  answers and has hand-written lists of what a save makes stale.

What makes the parts correct: no court or coach is held twice; a live booking
always holds its own hours; a hold is honoured and then released; money taken
ends in a booking or goes back; the places of a session are not given twice but by
the handlers that race; a cancelled session blocks nobody and its players know; no
closure buries a booking; one featured club, one resource per coach; a link opens
an account once and a removed account stays shut; what is shown is what is
charged; what was saved is what is shown. `PROJECT.json` lists each hazard at its
line with the properties that watch it.

## 2. Modules

| Module | What it is |
|---|---|
| `Inventory` | What the engine promises: a ledger of the places each booking holds, of which a step changes one entry, as a whole, at nobody's expense. |
| `Reservations` | The life of a reservation: every handler of the service, the queue, the webhooks, the PSP, the clock, crashes. |
| `BookingTx` | The booking and the reschedule transaction, statement by statement. |
| `Registrations` | Places in events and group sessions, the session's reservation, suspension. |
| `Closures`, `ClosureList` | A club's courts, hours and special days against the bookings; the list the admin is shown of the closures. |
| `Team` | Clubs and their people: onboarding, the featured club, adding admins, staff and coaches. |
| `Accounts` | Registration, verification, reset and invite links, Google sign-in, approval and removal. |
| `Offers` | One day of a club: free slots, prices, bookings, moves, refunds, under changing rules. |
| `Pages`, `Browser` | The pages of the web application with their queries and saves; the cache they share, and sessions. |
| `ReservationsHistory`, `RegistrationsHistory` | The module each extends, with a history variable: the reservations on which a handler was overtaken, the sessions on which one was disturbed. |
| `ReservationsProofs`, `BookingTxProofs`, `RegistrationsProofs`, `ClosuresProofs`, `TeamProofs`, `AccountsProofs`, `OffersProofs`, `BrowserProofs` | Theorems about the module each extends. |
| `MC...` | Instances for TLC. |

`Reservations` and `BookingTx` both implement `Inventory`, at two grains.
`Reservations` takes a database transaction for one step; `BookingTx` opens it
and shows that its statements, locks and waits still amount to one step of the
ledger. The exception stays in `Reservations`: a reschedule is split at its
DELETE, because two reschedules of one booking are not serialised by it. The other
modules each take from the engine what they need: `Registrations` the status of a
session's reservation, `Closures` the bookings as rows that are written after a
check, `Offers` one booking and its payment.

All handlers are modelled alike: `req[p]` holds what the handler in flight has
read and which step is next (`Idle` when there is none), an arriving request is
`Begin`, and every query or transaction that follows is one step. A read whose
guard fails ends the handler (an exception in the code) and is no step.

### Reservations

| Variable | Code |
|---|---|
| `status`, `kind`, `bounds`, `hold` | `Reservation.status`, `.type`, `.startsAt/.endsAt`, `.holdExpiresAt` |
| `claims` | `ReservationResource`, the rows of one INSERT loop kept together (they share period and `isActive` for good); `gen` tells the rows of one reschedule from those of another |
| `payment` | `Payment.status` and what `providerRef` points to |
| `job` | the delayed job `hold-<id>` |
| `session`, `refunds` | the checkout session and the refunds at the PSP (external) |
| `moves` | how often the rows were replaced: row identity, and a bound |

Kinds: `COURT` and `LESSON` bookings, `SESSION` for the reservation behind a
coach's group session (a `LESSON` of source `COACH` in the code), `BLOCK`.
`UpdateStatus` is the UPDATE with the trigger that fires in it, `Refused` the
case in which the constraint rolls it back. `Book` is `resolveSlot` and
`runBookingTransaction`; that its conflict query and its inserts are one step is
what `BookingTx` is about. The refund share (`none`, `part`, `full`) is what
`computeRefund` can return compared with zero and with the amount (`Offers` has
the computation). `CancelUpcoming` is the UPDATE by which moderation cancels what an
account has ahead when it is suspended or removed: it looks at the statuses as it
writes, refunds nothing and knows of no handler that has read one of them.

The worker takes a due job, looks at the reservation (`ExpireRead`) and writes
(`ExpireWrite`); a failed job is gone (`attempts` is 1, `removeOnFail`), a job
whose worker died runs again. Webhooks are delivered any number of times, by any
handlers, at any time after the event.

`ReservationsHistory` adds `overtaken`: the reservations whose status or rows
somebody changed while a handler that had decided about them was yet to write. What
the comments of the service say of one reservation is checked, and proved, of all
the others; nothing is said of those in `overtaken`, because the code does not look
again. The release of a no-show session is a transition that the state machine of
`packages/domain/src/reservation.ts` lacks; `LegalStep` allows it by name.

### BookingTx

Per booking a program counter over the statements: `delete`, `lock` (one row lock
after the other, in the order of the scan), `check`, `insert`, `verify` (the
constraint: wait for open transactions, fail on committed rows), `update`. Rows
of an open transaction are in `ins`, rows on their way out in `Leaving`. `Against`
and `BreakDeadlock` are PostgreSQL's: an exclusion constraint waits for open
transactions, and one transaction of a circle is ended with `40P01`. Foreign-key
locks (`FOR KEY SHARE`) do not conflict with the row locks taken here in any way
that orders two bookings differently, and are left out.

### Registrations

One `Activity` is a club event or a group session. `registered` are the rows
behind a unique index, `phase` says where its hours are, `backing` is the status
of the session's reservation. `register` is read, standing check (sessions only),
count, insert. Staff work on the session's reservation in the calendar without looking
at the session: `CalendarCancel` cancels it (so do the suspension and the removal of the
coach's own account), `NoShowRead` and `NoShowCommit` mark it, `MoveRead` and
`MoveCommit` move it, each with what it read. `holding` is what the reservation's active
rows hold, coach and court; a move leaves the court of the request. `Follow` is the
trigger, and `overtaken` the sessions whose reservation was moved after it had been given
up. `RegistrationsHistory` adds `disturbed`: the activities on which
somebody changed what a waiting handler works on, or on which a handler died.

### Closures and ClosureList

Days are laid end to end on one line of what the clocks show, from which they skip
`GapFrom` to `GapTo` once; `AsRead` is what `instantFromDayMinutes` makes of a time in
there, and `Resolved` the rows of the windows that were entered. Two kinds of zones are
not covered: the clocks do not change at midnight here, and the hour that is repeated in
autumn is one hour, of which a bound is either moment. `now` passes, and closures may be
entered for the past. `court` is `Resource.status`;
`hours` are the rules of a court or a coach with the number of the save that
wrote them, so that a union of two saves can be told; `closures` are the
`ResourceException` rows, one per court and day. `createClosure` is
`CloseRead` (the active courts), `CloseCheck` (`assertNoLiveBookings`) and
`CloseInsert`; `resolveSlot` is `ResolveNew` or `ResolveMove`, and the transaction
that follows, `WriteBooking`, looks at other bookings and no longer at closures.
`stale` are the handlers whose answer another one has changed before they write.
`ClosureList` computes what `listClosures` shows of the rows, in every order the
query may return them, less what is over (`Upcoming`), and what deleting an entry of that
list takes away, of one reason or, where none is given, of any. `Listed`
goes through the windows as the loop does, and is a recursive function so that it can
be reasoned about. `ListingFaithful` speaks of every list there can be,
`EnteredIsListed` of a list with one closure, of which the days that are not over are
listed; neither promises that two closures of
one reason are kept apart when they begin together, nor that several days entered by
their hours (`DaysByHours`) are one entry, because the code keeps neither promise.

### Team

The tables a person is added to are rows `<<table, person>>` or `<<table,
person, club>>`, and `Add(role)` is the order in which `addCoach`, `addStaff` and
`addClubAdmin` go through them, find, then create, outside of any transaction.
`rows[r]` counts, because the coach's shared resource has no unique index.
`raced` are the persons and clubs on which two handlers met, or one died.

### Accounts

`token` are the `VerificationToken` rows in the order of their issue, `google`
the `OAuthAccount` rows, with what Google said of the address when they were made.
`SignIn` is the branch of `upsertOAuthUser` that finds one, `OAuthRead` the others;
`vouched` are the accounts somebody came into with an address that Google had verified.
`row` tells an account made anonymous (`deletedAt`) from
one deleted: `remove` tries DELETE and, when history refers to the row, makes it
anonymous in a second transaction. `raced` are the accounts of which something
changed while a handler that had looked at them was yet to write; `halted` those a
handler died on.

### Offers

Time is counted in the smallest slot interval. A `zone` says what the clocks do on the
day: at the instant `change` they go forward or back by `shift`, a local time shown
twice is read as the later instant or not (`late`, east of UTC), and the UTC date
changes at `utc`, before or after local midnight. `Instant` and `LocalTime` are the
conversions of `packages/domain/src/time.ts` with what `date-fns-tz` does at the
change: `Turn` is the local time from which it uses the new offset, so that a time the
clocks skip is an instant before the change. A request is a court, an instant and a
length; `Sent` is the one the page makes of a slot, and `Asked` and `Booked` are the
periods that the grid and the booking look up. `Slots`, `Free` and `Shown` are
`generateSlots` and the pricing of `AvailabilityService`; `Open`, `Bookable`,
`Charged` and `Moved` the checks and the price of `ReservationsService`; `Preview` is
the admin's, with a court or without; `Winners` is `resolvePrice`, over rules loaded
in any order; `Refund` is `computeRefund`. Staff change rules, hours, lengths, the
shortest booking of a court, closures, plans and grants at any time; `shown.fresh`
says that they have not since the player picked a slot.

### Pages and Browser

`Pages` lists, per page, its components with the queries they observe (`always`,
`signedIn`), the keys their live stream invalidates, whether they send visitors away
(`private`), and per save what it writes and which keys its `onSuccess` invalidates.
Each query has a definition with the tables its endpoint reads, from the service that
answers it. What the API stores is reduced to the tables a query reads and a save
writes. `Browser` is the one cache: `entry[k]` holds an answer, whose it is and of
which moment, whether it is fresh, and the fetch under way. As in the library, an
invalidation sends a query again only if a component observes it, and leaves a first
fetch under way to finish (`missed`). `switched` says that a session ended without a
sign-out.

## 3. What TLC checks

| Run | Instance | Shows |
|---|---|---|
| `inventory_races` | 2 handlers, 2 reservations, 2 courts, 1 coach, sessions and blocks, overlapping periods, 1 move each | live bookings hold their hours, each step is one of the ledger |
| `payments_and_expiry` | 2 handlers, 1 worker, 2 reservations of one slot, online or awaiting approval, all faults | no double booking even with stale confirmations and resurrections; a hold is never cut short |
| `nobody_overtaken` | 2 handlers, 1 worker, 1 reservation of any kind and method, 1 move, all faults | what the comments say, of every reservation on which no handler was overtaken: rows in sync with status and bounds, legal transitions, expiry cancels only unpaid bookings, one refund |
| `holds_are_released` | 2 handlers, 1 worker, no crash, fair | every unpaid booking is settled |
| `booking_transactions` | 3 bookings, or 2 that are moved, cancelled and lost; 2 courts, 1 coach | a court found free stays free; only coaches make deadlocks; who is told "taken" lost to a booking that stands; half-done transactions never show; nobody waits for ever |
| `registrations_race` | 2 handlers, 3 players, 1 event or session, capacities 1 and 2, crashes | a cancelled session holds neither coach nor court, but where staff's move was overtaken; overselling is bounded by the racers; comments hold where nobody interfered |
| `calendar_of_a_club` | 2 handlers, 2 courts, 1 coach, 3 days of which one lacks a unit, 1 booking or 2 closures or 2 saves of hours, time passing over the list | no booking is buried and hours are replaced unless handlers raced; what was entered and is not over is listed, and deleting an entry deletes that closure |
| `clubs_and_their_people` | 2 handlers, 2 clubs, 1 person, crashes | one featured club, one resource per coach, nobody without a way in, but where handlers met or died |
| `accounts` | 2 handlers, 2 accounts, 1 address, 3 tokens, crashes | a link is good once and the newest only; one welcome; a removed account stays shut; Google's word is taken down, if it was given when the account was linked |
| `offers_and_prices` | 2 courts, 6 units, clocks forward or back, east or west of UTC, 7 rules of which 2 at a time, 1 plan, 1 closure | grid and booking agree on slots, as far ahead as bookings go, and on prices; the preview agrees about a court while the UTC date is the local one; waiting never raises a refund |
| `browser_cache` | 2 accounts, 1 key next to the session's at a time, every page, 1 write, failing requests | what was saved is shown; nobody is shown another account's data |

One more run, `expiry_cancels_a_paid_booking`, ends in a violation of a sentence
found in the repository ("the worker no-ops if the reservation already moved on",
`hold-queue.service.ts:22-23`): the paid webhook commits between the worker's read
and its write, and the job cancels a paid booking.

### Disagreements met while modelling

Reachable in these models, and the reason why a property carries a condition:

* Reschedule against cancel (`reservations.service.ts:321`): the reschedule read a
  live booking, the booking is cancelled, the reschedule inserts active rows, and a
  cancelled booking blocks a slot. Staff who move the reservation of a group session
  while its coach cancels it leave a cancelled session that holds a court (`overtaken` in
  `Registrations`). Two reschedules leave two sets of rows. That rows
  follow their reservation (`RowsFollow`) holds where nobody was overtaken only.
* A moved lesson loses its coach (`reservations.service.ts:309`): all rows are
  deleted, and those of the courts in the request inserted.
* A payment after the hold (`reservations.service.ts:613`): the hold lasts 10
  minutes and the page 30; the late payment is ignored, and not refunded. A
  replayed `paid` event can resurrect a cancelled booking.
* A crash between the commit of an online booking and `scheduleExpiry` leaves a
  hold nobody releases, which `docs/RUNBOOK.md:141` has operators look for.
* Events are oversold by two registrations that count the same free place
  (`programs.service.ts:93`), and by lowering the capacity; event registration
  never calls `assertInGoodStanding` (`programs.service.ts:83`), whose comment says
  every player-initiated path does.
* Moving a session's reservation moves no session (`reservations.service.ts:330`).
  A player who registers while the coach cancels is on nobody's mailing list.
* A coach race that ends in a deadlock answers 500, because
  `isExclusionViolation` knows only `23P01`, and its victim may have lost for
  nothing: of three lessons with one coach, the middle one clashing with both
  others, the first can fall to the middle one and the middle one to the last, and
  the first hour stays free.
* A court that is created after a closure is open on the closed day: a closure is
  a row per court.
* Several days closed from 00:00 to 24:00 of each, which `createClubClosureSchema`
  permits (`schemas.ts:145-146`), are listed as one all-day closure per day, against
  `clubs.service.ts:326-327` ("a timed closure's per-day windows collapse back into
  the one closure the admin entered"). `MCClosures` without the condition on
  `DaysByHours` finds it.
* A closure that has begun, or was entered for days that are over, is listed with fewer
  days than were entered (`clubs.service.ts:312`), and one with a bound in the hour that
  the clocks skip is listed in pieces or with other hours (`clubs.service.ts:377-382`,
  `48-51`), against the same comment; `EnteredIsListed` asks for the days to come, and
  for times that exist.
* Two closures of one reason that begin at the same instant, a whole day and its first
  hours, say, are deleted together: `reason` keeps two closures over the same dates
  apart (`clubs.service.ts:421-424`) when the reasons differ, and only then.
* The preview dates a slot at UTC midnight and the booking at its instant, so that
  between local midnight and the change of the UTC date, or in the evening west of UTC,
  they can choose different rules; and the preview that `PriceRulesManager` asks for by
  default is about no court (`pricing.service.ts:75,107`), so that it ignores the rules
  for one, which the booking applies. Both are against `pricing.service.ts:11-14` ("can
  never disagree"), and are what the two conditions of `PreviewAgrees` leave out.
* The grid shows days beyond `MAX_ADVANCE_DAYS` as free, and the booking refuses them
  (`reservations.service.ts:1072-1074`), as `docs/qa/reports/2026-10-08.md:49` found and
  `docs/qa/FIX-LIST-2026-10-08.md:135` asks to be mended.
* A slot that ends when the clocks go forward is of no length in the grid, which looks
  for other bookings between its ends, and is shown as free although it is taken; one
  that ends when the clocks go back asks for an hour more. The comment of
  `availability.ts:7` ("correct across DST") is too kind; `Plain` leaves these slots out.
* An account that was linked before Google had verified the address stays unverified at
  every later sign-in, verified or not, because a link that is found is not looked at
  again (`auth.service.ts:214-216`).
* `updateSettings` without lengths keeps those that do not line up with the new
  interval (`clubs.service.ts:490-495`); hours that begin off the interval make
  slots that are shown and refused, or bookable and not shown.
* A move is priced without the member's discount and leaves the payment alone, so
  that the refund can exceed what was paid. Rules for a service match no booking,
  and rules for a court no booking of two.
* The web application: `Lagging` in `Browser` lists what a save leaves old on its
  own page; an invalidation that meets a first fetch under way is lost; public
  answers that depend on the account (a price with discount) and were fetched
  signed out are kept after the sign-in for as long as they are fresh; a session
  that expires and is followed by another account's, without a sign-out, shows the
  first one's data.

### Bounds, and why they are enough

Where an MC module has a `subject`, a behaviour of the instance is about one
group of operations that touch the same data; the module's comment says why the
groups do not meet. It keeps the product of unrelated interleavings out of the
state space, and each group is explored with all its interleavings.

* `MCReservations`: two reservations and two handlers are what a conflict takes; a
  third party comes as the worker, the PSP or a crash. Periods are `[1,2)`, `[2,3)`
  and `[1,3)`: same, adjacent, overlapping. `MaxTime` takes the clock past the
  start of a booking and past its hold. `MaxMoves` is one per booking, none in
  `payments_and_expiry`: moves against payments are the theorems' part, which hold
  without any bound.
* `MCReservationsHistory`: one reservation, because being overtaken is a matter of
  one reservation and what its two handlers and the worker do to it; others could
  only refuse it a slot.
* `MCBookingTx`: "the winner lost to a third one" takes three bookings; requests
  are sorted, since bookings differ in nothing but their names.
* `MCRegistrations`: capacities 1 and 2 with three players fill an event and
  oversell it.
* `MCClosures`: three days of three units have a first, a middle and a last day,
  windows that end at midnight, that begin there, that are the whole day, that are
  adjacent and that overlap; two closures and two reasons make ties. The last unit of
  the third day is skipped, so that closures have bounds in it, and time passes into
  the second day, past whole closures and into others, while the list is the subject.
  One booking is what a closure can swallow; two saves are what a union takes.
* `MCTeam`: two clubs that add one person with two handlers; persons do not meet.
* `MCAccounts`: one address, two rows (a removed account and its successor), three
  tokens (an old one, and one of each of two handlers).
* `MCOffers`: six local times of which an hour of two is skipped or repeated, UTC
  midnight after the local one or before it, a booking that begins up to 8 units ahead
  where the day before the day is 6, lengths 1 to 4, one closure, seven rules that
  differ in court, hours, dates, priority, two at a time: a pair is what an order can
  decide.
* `MCBrowser`: one followed key next to `me`, because a query never looks at
  another one's answer but at that of the session; one write, older or newer than
  an answer; saves one after the other. The loader veils the page while a save is
  under way, but only after 150 ms and for 10 s at most: two saves at once are
  outside the model.

Symmetry permutes reservations, handlers, players, clubs or accounts, in safety
runs only. Deadlock is not checked: the clock, the reservations and the bounds of
an instance run out, and then the system stops.

History variables (`overtaken`, `disturbed`, `stale`, `raced`, `halted`, `missed`,
`switched`, and `vouched` for what Google said) name where a comment of the code
cannot be held to: two handlers on one thing, a handler that died, a lost
invalidation, a session that ended by itself. The comments are checked of everything
else, next to what goes on there.

### Fairness

`Reservations!FairSpec`: time passes; a handler in flight goes on (Node does not
starve a continuation); the worker takes a due job (BullMQ polls); a webhook is
delivered until some handler takes it (Stripe retries). Nothing obliges users,
staff or the player at the checkout. `BookingTx!Fairness`: the server executes
the statement that can run, hands a released lock to a waiter, and looks for
deadlocks after `deadlock_timeout`. Only weak fairness is assumed. The other
modules state safety: their handlers end by themselves, and nothing in the code
retries what died.

## 4. What is proved

All theorems hold for any sets of reservations, courts, coaches, players, clubs,
accounts and so on, any number of handlers, any bound on tokens, moves and time (the
handlers of `Registrations` and the courts of `Closures` are finitely many), and with
handlers that die between any two steps where the module has crashes. They rest on the
`ConstantsAssumption` of each module alone, but for three that state one more
hypothesis about a constant: `OneOrder` and `Nested`, below. Nothing is assumed of the
order of handlers or the number of deliveries.

| Module | Theorem | Statement |
|---|---|---|
| `ReservationsProofs` | `TypeCorrect` | `Spec => []TypeOK` |
| | `NeverDoubleBooked` | `Spec => []NoDoubleBooking` |
| | `LiveBookingsHoldInventory` | `Spec => []LiveHoldsInventory` |
| | `HoldsAreHonoured` | `Spec => HoldHonoured` |
| | `Implementation` | `Spec => ImplementsInventory` |
| | `RowsAreFollowed` | `WatchedSpec => []RowsFollowUnlessOvertaken` |
| | `RefundedAtMostOnce` | `WatchedSpec => []RefundedOnceUnlessOvertaken` |
| | `StatusesAreLegal` | `WatchedSpec => LegalUnlessOvertaken` |
| | `OnlyUnpaidExpire` | `WatchedSpec => UnpaidUnlessOvertaken` |
| `BookingTxProofs` | `TypeCorrect` | `Spec => []TypeOK` |
| | `CourtsStayFree` | `Spec => []CheckedCourtsStayFree` |
| | `Implementation` | `Spec => ImplementsInventory` |
| | `CoachesAloneDeadlock` | `OneOrder(order)` implies `Spec => []OnlyCoachesDeadlock` |
| | `WinnersForLosers` | `OneOrder(order)` implies `Spec => []LosersHaveWinner` |
| `RegistrationsProofs` | `TypeCorrect` | `Spec => []TypeOK` |
| | `OversoldByRacers` | `Spec => []OversoldByRacersOnly` |
| | `CancelledIsFree` | `Spec => []CancelledHoldsNothing` |
| | `PlayersAreTold` | `WatchedSpec => []UndisturbedTold` |
| | `SuspendedStayOut` | `WatchedSpec => UndisturbedInGoodStanding` |
| `ClosuresProofs` | `TypeCorrect` | `Spec => []TypeOK` |
| | `NothingBuried` | `Spec => NothingBuriedUnlessRaced` |
| | `HoursReplaced` | `Spec => HoursReplacedUnlessRaced` |
| | `ListIsFaithful` | `Spec => []ListingFaithful` |
| | `EnteredListed` | `Spec => EnteredIsListed` |
| `TeamProofs` | `TypeCorrect` | `Spec => []TypeOK` |
| | `FeaturedAlone` | `Spec => []OneFeatured` |
| | `ResourceIsShared` | `Spec => []OneResourcePerCoach` |
| | `WayIn` | `Spec => []NobodyIsLockedOut` |
| `AccountsProofs` | `TypeCorrect` | `Spec => []TypeOK` |
| | `GoogleVerifies` | `Spec => []LinkedIsVerified` |
| | `RemovalShuts` | `Spec => []RemovedStaysShut` |
| | `OneWelcome` | `Spec => WelcomedOnce` |
| | `OneReset` | `Spec => ResetIsSingleUse` |
| | `OneLink` | `Spec => NewestLinkOnly` |
| `OffersProofs` | `TypeCorrect` | `Spec => []TypeOK` |
| | `GridAgrees` | `Spec => []OfferIsBookable` |
| | `PriceIsKept` | `Spec => ShownIsCharged` |
| | `PreviewIsReal` | `Spec => []PreviewAgrees` |
| | `WaitingNeverPays` | `Nested` implies `Spec => RefundOnlyShrinks` |
| `BrowserProofs` | `TypeCorrect` | `Spec => []TypeOK` |
| | `OwnDataShown` | `Spec => []OwnDataOnly` |
| | `SavesAreShown` | `Spec => []SavedIsShown` |

Almost none of the properties but the types is inductive, and for one reason: a
handler writes on the strength of an old read. Each proof says what is still true of
that read when the write comes.

**Reservations.** `IInv` is `TypeOK`; `RequestsOnRows`: a handler in flight is about
a row that exists (rows are never deleted); `no_resource_overlap(claims)`: the
constraint itself; and `CurrentRows`: every reservation has rows for its own hours,
whatever its status, and they are active while the status occupies inventory. The
weaker `LiveHoldsInventory` says nothing of cancelled bookings, and a stale webhook
can bring one of those back to life. Every step of every handler falls into one of
three shapes (`RowStep`): it leaves rows, statuses and bounds alone; it writes one
status, through the trigger and past the constraint; or it replaces some rows of one
reservation (none, when it is booked) by new ones for its new bounds, past the
conflict query. `KeptApart` and `KeptCurrent` show that each shape keeps `IInv`, and
`NextStep` shows, handler by handler, that there are no others. This is why stale
decisions do no harm here: the status write carries its trigger and its constraint
with it, whatever the handler believed. The same shapes give the refinement.
`HoldsAreHonoured` adds `DueHolds`: a worker that decided to expire a reservation
works on one whose hold has run out, and stays so, because time does not go back and
a hold is only set when the reservation is created.

The four theorems about `ReservationsHistory` share `HInv`. Its core is `Informed`:
a handler that is about to write on a reservation outside of `overtaken` finds the
status it decided in, and a reschedule between its DELETE and its INSERT has chosen
every row there is. That, and not the read itself, is inductive, because whoever
changes the status or the rows meanwhile puts the reservation into `overtaken`.
Around it: only sessions are released, a reservation that does not exist has no
rows, nobody completes a booking, and the refund that was made or is about to be is
the one of a single cancellation (`RefundsDue`). `HistoryStep` sorts the steps of all
handlers by what they do to status, rows and refunds, so that each part of `HInv` is
shown once for each sort and not once for each handler.

**BookingTx.** The same exclusion, one level down, where the row lock and the
constraint are many steps each. Courts: from its check on a transaction has the
locks of all its courts (`Locks`), so nobody else has inserted a row for one of them
(`Inserted`, `CourtsApart`) or commits one (`CourtsFree`). Coaches have no lock. A row
that has passed the constraint (`Passed`) is in the way of no committed row (`Clear`)
and of no other row that has passed (`Unshared`), and stays so until its transaction
ends: whoever comes second has to wait for it, is refused, or goes down as the victim
of a deadlock. A transaction commits only rows that have passed, which gives
`Exclusive` and, with it, the refinement. Neither the order in which courts are
scanned nor the fairness of locks matters for this.

The order matters for deadlocks and answers, and `OneOrder(order)` says that there is
one: `Scans` is a single injective ranking of the courts. The code asks for no order
(`FOR UPDATE` has no `ORDER BY`); the rows are met in that of the index on the primary
key as long as the planner uses it. Then every transaction waits for a court that
ranks above all it holds (`Ascending`), so new bookings that wait for courts alone
close no circle; one that waits for the row of a coach has all its courts, and waits
for another that has come as far, so that those in a circle are a circle of their own.
For the answers, `Refused` and `Survivor` say of the bookings that were turned away
who holds their place now, and that among any bookings that clash with no others one
is not yet lost; the last one standing of a circle is served, because the detector
ends one transaction at a time.

**Registrations.** A count protects nothing, but a sum does: the places of a session
that are taken, and the handlers that have counted and are about to insert, are
together fewer than its capacity and all the handlers. A count that succeeds adds
one handler when the places alone are below the capacity; an insert turns a handler
into a place. `CapacityKnown` and `MadeOnce` say that the capacity a handler has read
is still that of the session; the handlers have to be finitely many for the sum to be
one, and at least one for the inequality to be strict. `FreedFirst` is the order in
which a session is cancelled: the reservation before the row, so that a handler that
dies leaves a session too many, never a court too few. A reservation that was given up
(`GivenUp`) stays so, whatever staff write over its status, and has no active rows but
those of a move that read it before, which `overtaken` names.

With `disturbed`, `Undisturbed` says that what a handler has read is still so when it
takes its last step: the player it let in is not suspended (`StandingKept`), the list
it mails is the list (`ListKept`), nobody who waits to join is on a session that is
cancelled (`NobodyJoins`), and a cancelled session has told its players or has the
handler that will (`ToldOrMailing`), which is the only part the property shows.

**Closures.** A handler that is about to write has asked one question, and
`FreshAnswers` says that the answer is still right unless the handler is in `stale`.
A step of another handler that changes what was asked about puts it there.

The list needs two things. `CalendarInv` is what the database promises: finitely many
rows, each of a window that could be entered (`CalendarWindow`: whole days, or hours of
a day), and requests in flight for such windows and at least one court. The rest is
about the loop of `listClosures`. `Counting` is induction up to a number for the
members of a set, which follows from the well-foundedness of `<` and takes no operator
as a parameter, so that what a recursive function computes can be proved after all:
`Growth` shows that the function exists and `ListGrows` what it does next, and `ListLaid`
that after `n` windows the list is `Laid`: each of the `n` is shown by an entry, and an
entry `Stands` for windows that follow each other in the order, up to the `n`-th for the
last entry. `ProlongedStands` is the step where days meet: the new window is of the
same hours (`SameHours`: midnight at the end of a day is 0, and no other hour is) and of
the next day, so that the entry's range grows and still shows what it stands for. From
`Laid`, `GoneIsShown`: a window in the range of an entry comes in the order before those
of the entry, and then begins with the first; or is one of them; or comes after them, and
then lies within the last. A row that is over is not in the list, and if it is deleted
with an entry, it begins after the entry's first window and ends before that does. The
rows are windows of the calendar because a bound in the hour that is skipped is read as
an earlier time of the same day (`ReadWithinDay`, `ResolvedWindows`). For a single
closure, what is ahead of it could itself have been entered (`DaysAhead`,
`AheadIsEnterable`); of that, `DaysFollow` shows that whatever order the query returns is
that of the days, `GoesOnForADay` that the last entry goes on at every one of them, and
`RowsOfOne` counts courts and days.

**Team.** `AloneOnClubs` and `AloneOnPersons`: outside of `raced`, one handler works
on a club or a person. So the clubs its UPDATE is about to un-feature are all the
others that are featured (`SeenAll`), and a row it is about to create is not there
(`NoneYet`), which cannot be said of accounts and roles, made by a join request in
one transaction of its own; but who made the account made its role (`RoleOfNew`).

**Accounts.** Some things hold of all accounts: a token knows its account
(`TokensKnown`), a good token has changed no password (`SpentOnce`), who is welcomed
is verified (`WelcomedVerified`), whose Google account was linked with a verified
address is verified, will be or was left by a dead handler (`LinkedIsMarked`): a later
sign-in finds the link and changes nothing of that. The rest holds of accounts that
are not raced (`Fresh`): whoever works on one finds what it relies on (`Relies`),
there is one outstanding link, and a removed account has no key and nobody at work on
it. `Unseen` is the step from `Notice` to that: if an account is not raced, nothing
that a waiting handler has looked at has changed.

**Offers.** Of the rules that match, `Before` orders any two, by their ids in the end,
so that at most one wins (`OneWinner`) and a price is one price (`OnePrice`), in
whatever order the rules were loaded. `Fresh`: a price the player looks at is one of
today's until something outdates it, since prices depend on the rules and on the
memberships alone (`SameShown`). `Lined`: lengths saved with the interval are multiples
of it. With it, the grid (steps from the beginning of a window) and the booking (steps
from midnight) count the same slots when windows begin on a step (`SameSteps`), end
within the day, and mean the same period when the clocks do not change within it
(`PlainEnds`). That windows end within the day is `availabilityRuleSchema`
(`schemas.ts:268`). The preview and the booking see the same rules because a rule
begins and ends at a change of the UTC date (`SameDate`), and a preview without a court
misses none but the rules for one. `WaitingNeverPays` supposes
`Nested`: no tier of the policy gives more for a shorter notice. The code validates no
policy, and under another one waiting would pay; the seeded policy and TLC's are
nested. The rest is rounding (`RoundingOfHundredths`) and `PaidAsPriced`: what was paid
is the price until the first move.

**Browser.** `PageTable` is a fact about the source, page by page: what a save of a
page writes, the page refreshes wherever it shows it, but for what `Lagging` names. Over
it, `Good` says of a key outside of `missed` that whatever is under way, fresh or on
the page is no older than the last save the user was told of. It has to speak of what
is fresh or under way off the page too, because mounting a page shows the one
without asking and waits for the other. `Own` is the same for accounts: until a session
ends by itself, all answers kept and all requests sent are for the account of the
cookie or for a visitor, and a visitor is refused what is guarded.

Only model-checked: liveness, which the prover cannot state (`HoldsReleased` in
`holds_are_released`, `EveryRequestAnswered` in `booking_transactions`). Every other
property of a run that passes is a theorem. The violation of
`expiry_cancels_a_paid_booking` is a behaviour TLC finds.

## 5. Not modelled

* The account that a walk-in's booking makes (`resolveCustomer`): nothing in the
  engine depends on it. Bookings have no owner in `Reservations`, so whether a
  suspended player keeps one made meanwhile is not asked there, but of places in
  sessions, in `Registrations`.
* Mail and push: best-effort, failures are swallowed, no state depends on them.
* A coach's services, free hours and daily digest, the searches, statistics,
  exports: they read.
* Feedback, community, profile, and a club's texts, pictures and links: single-row
  writes behind unique indexes. `Pages` has them as what a save makes stale.
* Seasons and court groups: `pricing.ts` knows them, no row of the database does.
* Hashing, JWT, the OAuth protocol and the PSP's signatures.
* The web application's layout, forms, drag and drop and server rendering.
* `COMPLETED` and `REFUNDED` reservations and `canTransition`, which the API never
  writes or calls.

Registrations keep their places when `UpdateEvent` moves the event, as in the code.

## 6. Plan

1. Done: all the modules of section 2, and the theorems of section 4.
2. Give bookings owners, and check a suspension against the booking transaction
   (`reservations.service.ts:80`).
3. State what does follow for the reservations in `overtaken`: which two handlers
   have to meet for each of the four properties to fail.
