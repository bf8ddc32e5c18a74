-------------------------------- MODULE Offers --------------------------------
(***************************************************************************)
(* What a club offers on one day, what it costs, and what comes back: the  *)
(* price rules (PricingService, resolvePrice), the free slots of the day   *)
(* (AvailabilityService, generateSlots), the checks and the price of a     *)
(* booking or a move (ReservationsService), the members' discount          *)
(* (MembershipsService) and the refund of a cancellation (computeRefund).  *)
(*                                                                         *)
(* The grid, the admin's preview and the booking are computed by different *)
(* code from the same rows.  The question is whether they agree.           *)
(*                                                                         *)
(* Time is counted in the smallest slot interval.  Local times are counted *)
(* from the local midnight of the day; instants are what the clocks would  *)
(* show if they were not changed that day.  A court and a local time make  *)
(* a slot, a court and an instant a request.                               *)
(***************************************************************************)
EXTENDS Integers, FiniteSets

CONSTANTS
    Court,
    DayLength,    \* the local times of the day are 0 .. DayLength
    Zone,         \* what the clocks of the club may do that day
    MaxAdvance,   \* how far ahead a booking may begin
    RuleInput,    \* what may be saved as a price rule
    HoursInput,   \* what may be saved as a court's hours
    LengthsInput, \* what may be saved as the lengths the club offers
    Least,        \* what may be saved as the shortest booking of a court
    ClosureInput, \* what may be entered as a closure
    Plan,
    Percent,      \* what may be saved as a plan's discount
    Tiers,        \* the club's cancellation policy
    MaxRules      \* bound on the rules created

AnyCourt == "any court"
NoRule == [court |-> "none"]
NoPrice == -1
Nothing == [slot |-> "nothing"]

\* The days before, at and after the day of the offer.
Days == 0 .. 2

Rules ==
    [court: Court \cup {AnyCourt}, service: BOOLEAN, today: BOOLEAN,
     from: Nat, to: Nat, since: Days, until: Days, per: Nat \ {0},
     cents: Nat, priority: Nat, active: BOOLEAN]

Windows == [from: 0 .. DayLength, to: 0 .. DayLength]

\* At the instant change the clocks go forward or back: by -shift or by shift.  A
\* time that is shown twice is read as its later instant if late (as it is east of
\* UTC), else as its earlier one.  The UTC date changes to that of the day at utc.
Zones == [change: Int, shift: Int, late: BOOLEAN, utc: Int]

ASSUME ConstantsAssumption ==
    /\ DayLength \in Nat /\ MaxAdvance \in Nat
    /\ Zone \subseteq Zones
    /\ ClosureInput \subseteq [from: Int, to: Int]
    /\ RuleInput \subseteq Rules
    /\ HoursInput \subseteq SUBSET Windows
    /\ LengthsInput \subseteq SUBSET (Nat \ {0})
    /\ Least \subseteq Nat
    /\ Percent \subseteq 0 .. 100
    /\ Tiers \subseteq [before: Nat, percent: Int]
    /\ MaxRules \in Nat

VARIABLES
    zone,       \* what the clocks do that day
    rules,      \* the PriceRule rows
    created,    \* how many rules were created, which is the id of the latest
    interval,   \* Club.slotIntervalMin
    offered,    \* Club.bookingDurationsMin
    listed,     \* the lengths were sent with the latest change of the interval
    hours,      \* the windows of a court's AvailabilityRule rows for that weekday
    least,      \* Resource.minReservationMin
    closed,     \* the ResourceException rows: closures are for all courts
    discount,   \* MembershipPlan.discountPercent
    granted,    \* plans the player holds a valid membership of
    taken,      \* the periods of other players' bookings
    now,
    shown,      \* the slot the player has picked in the grid
    booking     \* what has become of it

settings == <<interval, offered, listed, hours, least, closed>>
vars == <<zone, rules, created, settings, discount, granted, taken, now, shown, booking>>

Starts == 0 .. DayLength - 1
Periods == [court: Court, start: Starts, length: 1 .. DayLength]

Init ==
    /\ zone \in Zone
    /\ rules = [i \in 1 .. MaxRules |-> NoRule] /\ created = 0
    /\ interval \in {1, 2} /\ listed = TRUE
    /\ offered \in {L \in LengthsInput : \A l \in L : l % interval = 0}
    /\ hours \in [Court -> HoursInput]
    /\ least \in [Court -> Least]
    /\ discount \in [Plan -> Percent] /\ granted = {}
    /\ closed = {} /\ taken = {}
    /\ now = -DayLength
    /\ shown = Nothing /\ booking = Nothing

-----------------------------------------------------------------------------
(***************************************************************************)
(* Local times and instants.                                               *)
(***************************************************************************)

Overlap(a, b) == a.from < b.to /\ b.from < a.to

\* The local time from which on instants are read with the new offset.
Turn == IF zone.shift > 0 /\ zone.late THEN zone.change - zone.shift ELSE zone.change

\* instantFromDayMinutes: a time that the clocks skip is read with the new offset
\* as well, and so as an instant before the change.
Instant(m) == IF m < Turn THEN m ELSE m + zone.shift

\* formatInZone
LocalTime(i) == IF i < zone.change THEN i ELSE i - zone.shift

\* The instants that fall on the day.
Instants == {i \in Starts \cup {m + zone.shift : m \in Starts} : LocalTime(i) \in Starts}

Requests == [court: Court, at: Instants, length: 1 .. DayLength]

\* What is requested when a slot of the grid is picked, and what resolveSlot makes
\* of it.
Sent(s) == [court |-> s.court, at |-> Instant(s.start), length |-> s.length]

SlotOf(q) == [court |-> q.court, start |-> LocalTime(q.at), length |-> q.length]

\* The period a booking takes: its length is counted in instants.
Booked(q) == [court |-> q.court, from |-> q.at, to |-> q.at + q.length]

\* The period the grid asks about: both ends are local times.
Asked(s) == [court |-> s.court, from |-> Instant(s.start), to |-> Instant(s.start + s.length)]

RoundHalfUp(n, d) == (2 * n + d) \div (2 * d)

-----------------------------------------------------------------------------
(***************************************************************************)
(* Prices.                                                                 *)
(***************************************************************************)

\* The start of the UTC date, at which rules begin and end to be valid.
UtcDate(day) == (day - 1) * DayLength + zone.utc

\* Mutant: a rule is valid on its last date too.
Valid_Inclusive(r, date) == UtcDate(r.since) <= date /\ (r.until = 2 \/ date <= UtcDate(r.until))

\* A rule without end is one until the day after.
Valid(r, date) == UtcDate(r.since) <= date /\ (r.until = 2 \/ date < UtcDate(r.until))

\* No caller prices a service by the rules: those for one never match.
Matches(r, s, courts, date) ==
    /\ r # NoRule /\ r.active
    /\ r.court = AnyCourt \/ courts = {r.court}
    /\ ~r.service
    /\ Valid(r, date)
    /\ r.today
    /\ r.from < s.start + s.length /\ s.start < r.to

Specificity(r) == (IF r.court = AnyCourt THEN 0 ELSE 2) + (IF r.service THEN 1 ELSE 0)

\* Mutant: of rules as specific as each other, the one loaded first.
Before_LoadOrder(i, j) ==
    \/ rules[i].priority > rules[j].priority
    \/ rules[i].priority = rules[j].priority /\ Specificity(rules[i]) > Specificity(rules[j])

Before(i, j) ==
    \/ rules[i].priority > rules[j].priority
    \/ /\ rules[i].priority = rules[j].priority
       /\ \/ Specificity(rules[i]) > Specificity(rules[j])
          \/ Specificity(rules[i]) = Specificity(rules[j]) /\ i > j

\* The rules resolvePrice may choose, in whatever order they were loaded.
Winners(s, courts, date) ==
    LET candidates == {i \in 1 .. created : Matches(rules[i], s, courts, date)}
    IN  {i \in candidates : \A j \in candidates : ~Before(j, i)}

Prices(s, courts, date) ==
    LET w == Winners(s, courts, date)
    IN  IF w = {} THEN {NoPrice} ELSE {RoundHalfUp(rules[i].cents * s.length, rules[i].per) : i \in w}

\* The best discount the player has a right to.
MemberDiscount ==
    IF granted = {} THEN 0
    ELSE CHOOSE d \in {discount[p] : p \in granted} : \A p \in granted : discount[p] <= d

Discounted(price) ==
    IF price = NoPrice THEN NoPrice ELSE RoundHalfUp(price * (100 - MemberDiscount), 100)

\* Mutant: the grid shows what a visitor pays.
Shown_Visitor(s) == Prices(s, {s.court}, Instant(s.start))

Shown(s) == {Discounted(c) : c \in Prices(s, {s.court}, Instant(s.start))}

Charged(q) == {Discounted(c) : c \in Prices(SlotOf(q), {q.court}, q.at)}

Moved(q) == Prices(SlotOf(q), {q.court}, q.at)

\* The preview may be asked without a court: it is then that of no court.
Preview(s, courts) == Winners(s, courts, UtcDate(1))

-----------------------------------------------------------------------------
(***************************************************************************)
(* The grid and the checks of a booking.                                   *)
(***************************************************************************)

Slots(c) ==
    {s \in [court: {c}, start: Starts, length: 1 .. DayLength] :
        /\ \E w \in hours[c] :
              /\ s.start >= w.from /\ (s.start - w.from) % interval = 0
              /\ s.start + s.length <= w.to
        /\ interval = 1 \/ s.start % 2 = 0}

\* Mutant: the local times the day does not have are listed as well.
Exists_All(s) == TRUE

Exists(s) == LocalTime(Instant(s.start)) = s.start

Occupied(period, others) ==
    \E t \in others : t.court = period.court /\ Overlap(t, period)

Mine == IF booking = Nothing \/ booking.refund # NoPrice THEN {} ELSE {Booked(booking.slot)}

Shut(period) == \E w \in closed : Overlap(w, period)

\* generateSlots: the slots of a length that are shown as FREE.
Free(s) ==
    /\ s \in Slots(s.court)
    /\ Exists(s)
    /\ Instant(s.start) > now
    /\ ~Shut(Asked(s))
    /\ ~Occupied(Asked(s), taken \cup Mine)

\* resolveSlot: the checks of a booking.
Open(q) ==
    LET start == LocalTime(q.at)
        end   == start + q.length
    IN  /\ q.at > now /\ q.at - now <= MaxAdvance
        /\ Instant(start) = q.at
        /\ start % interval = 0 /\ q.length % interval = 0
        /\ end <= DayLength
        /\ \E w \in hours[q.court] : w.from <= start /\ end <= w.to
        /\ q.length >= least[q.court]
        /\ ~Shut(Booked(q))

Bookable(q, others) == Open(q) /\ ~Occupied(Booked(q), others)

-----------------------------------------------------------------------------
(***************************************************************************)
(* The club's staff.                                                       *)
(***************************************************************************)

\* What the player has in front of them was computed from other rows.
Outdated == shown' = IF shown = Nothing THEN Nothing ELSE [shown EXCEPT !.fresh = FALSE]

CreateRule(r) ==
    /\ created < MaxRules
    /\ created' = created + 1
    /\ rules' = [rules EXCEPT ![created + 1] = r]
    /\ Outdated
    /\ UNCHANGED <<settings, discount, granted, taken, now, booking>>

UpdateRule(i, r) ==
    /\ rules[i] # NoRule
    /\ rules' = [rules EXCEPT ![i] = r]
    /\ Outdated
    /\ UNCHANGED <<created, settings, discount, granted, taken, now, booking>>

RemoveRule(i) ==
    /\ rules[i] # NoRule
    /\ rules' = [rules EXCEPT ![i] = NoRule]
    /\ Outdated
    /\ UNCHANGED <<created, settings, discount, granted, taken, now, booking>>

\* Mutant: any list of lengths is saved.
LineUp_Any(lengths, step) == TRUE

LineUp(lengths, step) == \A l \in lengths : l % step = 0

\* With the lengths, or without: then those there are stay.
UpdateSettings(step, lengths) ==
    /\ LineUp(lengths, step)
    /\ interval' = step /\ offered' = lengths /\ listed' = TRUE
    /\ Outdated
    /\ UNCHANGED <<rules, created, hours, least, closed, discount, granted, taken, now, booking>>

UpdateIntervalOnly(step) ==
    /\ interval' = step /\ listed' = FALSE
    /\ Outdated
    /\ UNCHANGED <<rules, created, offered, hours, least, closed, discount, granted, taken, now, booking>>

SetAvailability(c, windows) ==
    /\ \A w \in windows : w.to > w.from
    /\ hours' = [hours EXCEPT ![c] = windows]
    /\ Outdated
    /\ UNCHANGED <<rules, created, interval, offered, listed, least, closed, discount, granted, taken, now, booking>>

UpdateCourt(c, l) ==
    /\ least' = [least EXCEPT ![c] = l]
    /\ Outdated
    /\ UNCHANGED <<rules, created, interval, offered, listed, hours, closed, discount, granted, taken, now, booking>>

\* createClosure, which refuses what would bury a booking.
CreateClosure(w) ==
    /\ w.from < w.to
    /\ \A t \in taken \cup Mine : ~Overlap(t, w)
    /\ closed' = closed \cup {w}
    /\ Outdated
    /\ UNCHANGED <<rules, created, interval, offered, listed, hours, least, discount, granted, taken, now, booking>>

DeleteClosure(w) ==
    /\ closed' = closed \ {w}
    /\ Outdated
    /\ UNCHANGED <<rules, created, interval, offered, listed, hours, least, discount, granted, taken, now, booking>>

UpdatePlan(p, percent) ==
    /\ discount' = [discount EXCEPT ![p] = percent]
    /\ Outdated
    /\ UNCHANGED <<rules, created, settings, granted, taken, now, booking>>

Grant(p) ==
    /\ granted' = granted \cup {p}
    /\ Outdated
    /\ UNCHANGED <<rules, created, settings, discount, taken, now, booking>>

-----------------------------------------------------------------------------
(***************************************************************************)
(* Time and the players.                                                   *)
(***************************************************************************)

\* A membership runs out.
Lapse(p) ==
    /\ granted' = granted \ {p}
    /\ Outdated
    /\ UNCHANGED <<rules, created, settings, discount, taken, now, booking>>

Tick ==
    /\ now < DayLength
    /\ now' = now + 1
    /\ UNCHANGED <<rules, created, settings, discount, granted, taken, shown, booking>>

OthersBook(q) ==
    /\ Bookable(q, taken \cup Mine) /\ Charged(q) # {NoPrice}
    /\ taken' = taken \cup {Booked(q)}
    /\ Outdated
    /\ UNCHANGED <<rules, created, settings, discount, granted, now, booking>>

OthersCancel(t) ==
    /\ taken' = taken \ {t}
    /\ Outdated
    /\ UNCHANGED <<rules, created, settings, discount, granted, now, booking>>

\* The grid loads and the player picks a free slot of it.
Pick(s) ==
    /\ s.length \in offered /\ Free(s)
    /\ \E price \in Shown(s) : shown' = [slot |-> s, price |-> price, fresh |-> TRUE]
    /\ UNCHANGED <<rules, created, settings, discount, granted, taken, now, booking>>

\* createReservation; a refusal changes nothing.
Book ==
    /\ shown # Nothing /\ booking = Nothing
    /\ LET q == Sent(shown.slot)
       IN  /\ Bookable(q, taken)
           /\ \E price \in Charged(q) \ {NoPrice} :
                 booking' = [slot |-> q, price |-> price, paid |-> price,
                             moved |-> FALSE, refund |-> NoPrice]
    /\ UNCHANGED <<rules, created, settings, discount, granted, taken, now, shown>>

\* reschedule: the new price is that of the rules, and the payment stays.
Reschedule(q) ==
    /\ booking # Nothing /\ booking.refund = NoPrice
    /\ Bookable(q, taken)
    /\ \E price \in Moved(q) \ {NoPrice} :
          booking' = [booking EXCEPT !.slot = q, !.price = price, !.moved = TRUE]
    /\ Outdated
    /\ UNCHANGED <<rules, created, settings, discount, granted, taken, now>>

ClampPercent(p) == IF p < 0 THEN 0 ELSE IF p > 100 THEN 100 ELSE p

\* Mutant: the first tier that is already over.
Reached_Not(t, left) == left <= t.before

Reached(t, left) == left >= t.before

\* The most generous of the tiers whose time is not over yet.
RefundPercent(left) ==
    LET open == {t \in Tiers : Reached(t, left)}
    IN  IF open = {} THEN 0
        ELSE ClampPercent((CHOOSE t \in open : \A u \in open : u.before <= t.before).percent)

Refund == RoundHalfUp(booking.price * RefundPercent(booking.slot.at - now), 100)

Cancel ==
    /\ booking # Nothing /\ booking.refund = NoPrice
    /\ booking' = [booking EXCEPT !.refund = Refund]
    /\ Outdated
    /\ UNCHANGED <<rules, created, settings, discount, granted, taken, now>>

-----------------------------------------------------------------------------

Staff ==
    \/ \E r \in RuleInput : CreateRule(r) \/ \E i \in 1 .. created : UpdateRule(i, r)
    \/ \E i \in 1 .. created : RemoveRule(i)
    \/ \E step \in {1, 2} : UpdateIntervalOnly(step) \/ \E L \in LengthsInput : UpdateSettings(step, L)
    \/ \E c \in Court, w \in HoursInput : SetAvailability(c, w)
    \/ \E c \in Court, l \in Least : UpdateCourt(c, l)
    \/ \E w \in ClosureInput : CreateClosure(w)
    \/ \E w \in closed : DeleteClosure(w)
    \/ \E p \in Plan, d \in Percent : UpdatePlan(p, d)
    \/ \E p \in Plan : Grant(p)

Player ==
    \/ \E s \in Periods : Pick(s)
    \/ \E q \in Requests : OthersBook(q) \/ Reschedule(q)
    \/ \E t \in taken : OthersCancel(t)
    \/ Book \/ Cancel

Next == (Staff \/ Player \/ Tick \/ \E p \in Plan : Lapse(p)) /\ UNCHANGED zone

Spec == Init /\ [][Next]_vars

-----------------------------------------------------------------------------

\* The slot begins after the change of the clocks or ends before it: the grid reads
\* the end of one that ends at the change with the new offset.
Plain(s) == s.start >= Turn \/ s.start + s.length < Turn

\* The hours of the court begin when slots do, and the lengths were saved with
\* the interval: nothing in the code keeps staff from saving others.
Tidy(c) == listed /\ \A w \in hours[c] : w.from % interval = 0

\* What can be booked is shown as free in the grid, and what is shown as free can
\* be booked, as far ahead as bookings go: generateSlots and the checks of
\* resolveSlot, two programs for one question, agree for every length on offer, on
\* days of 23 and of 25 hours as well.
OfferIsBookable ==
    \A q \in Requests :
        /\ Tidy(q.court) /\ q.length \in offered /\ q.length >= least[q.court]
        /\ q.at - now <= MaxAdvance
        /\ Plain(SlotOf(q))
        => (Bookable(q, taken \cup Mine) <=> \E s \in Periods : Sent(s) = q /\ Free(s))

\* A slot is charged what the grid showed for it, unless something changed in
\* the meantime: rules, discount and rounding are the same in both, and no order
\* of the rules makes a difference.
ShownIsCharged ==
    [][booking = Nothing /\ booking' # Nothing /\ shown.fresh => booking'.price = shown.price]_vars

\* The rules for its court that apply to a request.
CourtRules(q) ==
    {i \in 1 .. created : rules[i].court = q.court /\ Matches(rules[i], SlotOf(q), {q.court}, q.at)}

\* "The admin preview and real bookings can never disagree": they do not while the
\* UTC date is the local one, if the preview is asked about the court or no rule is
\* about it.
PreviewAgrees ==
    \A q \in Requests : \A courts \in {{q.court}, {}} :
        /\ UtcDate(1) <= q.at /\ q.at < UtcDate(2)
        /\ courts = {} => CourtRules(q) = {}
        => Preview(SlotOf(q), courts) = Winners(SlotOf(q), {q.court}, q.at)

\* Waiting never pays: while a booking stands as it is, what its cancellation
\* would give back only shrinks, and it is never more than what was paid.  (A move
\* to a dearer hour raises the price and not the payment.)
RefundOnlyShrinks ==
    [][booking # Nothing /\ booking' = booking /\ booking.refund = NoPrice =>
          /\ Refund' <= Refund
          /\ ~booking.moved => Refund <= booking.paid]_vars
===============================================================================
