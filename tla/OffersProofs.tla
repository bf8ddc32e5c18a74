------------------------------ MODULE OffersProofs ------------------------------
(***************************************************************************)
(* The grid, the preview and the booking of Offers agree, for any courts,  *)
(* rules, hours, lengths, plans and change of the clocks, and no refund    *)
(* grows by waiting.                                                       *)
(*                                                                         *)
(* The argument.  Rules are in a total order, so that whoever chooses      *)
(* among them chooses the same one (OneWinner), and a price depends on     *)
(* nothing but the rules and the memberships (Fresh: as long as nothing    *)
(* outdates it, what the player looks at is one of today's prices).  The   *)
(* instant that is sent for a slot of the grid reads as that slot again    *)
(* (Existing), so that grid and booking speak of the same.  That they      *)
(* agree about it is the arithmetic of the interval and of the change of   *)
(* the clocks, from what the settings keep (Lined: lengths saved with the  *)
(* interval are multiples of it).  Of a refund, time alone                 *)
(* changes the tier, and a payment is the price until the first move       *)
(* (PaidAsPriced).                                                         *)
(***************************************************************************)
EXTENDS Offers, FiniteSetTheorems, WellFoundedInduction, TLAPS

-----------------------------------------------------------------------------
(***************************************************************************)
(* Numbers.                                                                *)
(***************************************************************************)

\* A set of integers with an upper bound has a largest element.
LEMMA Largest ==
    ASSUME NEW S, S \subseteq Int, S # {}, NEW b \in Int, \A x \in S : x <= b
    PROVE  \E m \in S : \A x \in S : x <= m
  <1> DEFINE T == {b - x : x \in S}
             R == OpToRel(<, Nat)
  <1>1. T \subseteq Nat /\ T # {}
    <2>1. \A x \in S : b - x \in Nat
      OBVIOUS
    <2>2. PICK x \in S : TRUE
      OBVIOUS
    <2>3. b - x \in T
      OBVIOUS
    <2>4. QED
      BY <2>1, <2>3
  <1>2. \A x, y \in Nat : x < y => <<x, y>> \in R
    BY DEF OpToRel
  <1>3. IsWellFoundedOn(R, Nat)
    BY NatLessThanWellFounded
  <1> HIDE DEF R
  <1>4. PICK t \in T : \A y \in T : ~ (<<y, t>> \in R)
    BY <1>1, <1>3, WFMin, Zenon
  <1>5. PICK m \in S : t = b - m
    BY <1>4
  <1>6. ASSUME NEW x \in S
        PROVE  x <= m
    <2>1. b - x \in T /\ ~ (b - x < t)
      BY <1>1, <1>2, <1>4
    <2>2. QED
      BY <1>5, <2>1
  <1>7. QED
    BY <1>6

LEMMA Scaling ==
    ASSUME NEW a \in Nat, NEW x \in Int, NEW y \in Int, x <= y
    PROVE  a * x <= a * y /\ a * x \in Int
  OBVIOUS

LEMMA RoundingOfHundredths ==
    ASSUME NEW x \in Int, NEW y \in Int, x <= y
    PROVE  RoundHalfUp(x, 100) <= RoundHalfUp(y, 100)
  BY DEF RoundHalfUp

LEMMA RoundingOfWholes ==
    ASSUME NEW x \in Int
    PROVE  RoundHalfUp(x * 100, 100) = x
  BY DEF RoundHalfUp

LEMMA RoundingIsNat ==
    ASSUME NEW n \in Nat, NEW d \in Nat \ {0}
    PROVE  RoundHalfUp(n, d) \in Nat
  BY DEF RoundHalfUp

-----------------------------------------------------------------------------
(***************************************************************************)
(* Prices.                                                                 *)
(***************************************************************************)

Picked == [slot: Periods, price: Nat \cup {NoPrice}, fresh: BOOLEAN]

Calls == [court: Court, at: Int, length: 1 .. DayLength]

Times == [court: Court, from: Int, to: Int]

Bookings == [slot: Calls, price: Nat, paid: Nat, moved: BOOLEAN, refund: Nat \cup {NoPrice}]

TypeOK ==
    /\ zone \in Zone
    /\ rules \in [1 .. MaxRules -> Rules \cup {NoRule}] /\ created \in 0 .. MaxRules
    /\ interval \in {1, 2} /\ offered \in LengthsInput /\ listed \in BOOLEAN
    /\ hours \in [Court -> HoursInput] /\ least \in [Court -> Least]
    /\ discount \in [Plan -> Percent] /\ granted \subseteq Plan
    /\ closed \subseteq [from: Int, to: Int]
    /\ taken \subseteq Times /\ now \in Int
    /\ shown \in Picked \cup {Nothing}
    /\ booking \in Bookings \cup {Nothing}

LEMMA RuleType ==
    ASSUME TypeOK, NEW i \in 1 .. created, rules[i] # NoRule
    PROVE  i \in Int /\ rules[i] \in Rules
  BY ConstantsAssumption DEF TypeOK

\* No two rules are as good as each other: their ids decide.
LEMMA OneWinner ==
    ASSUME TypeOK, NEW s, NEW courts, NEW date,
           NEW i \in Winners(s, courts, date), NEW j \in Winners(s, courts, date)
    PROVE  i = j
  <1>1. /\ i \in 1 .. created /\ j \in 1 .. created
        /\ rules[i] # NoRule /\ rules[j] # NoRule
        /\ ~Before(i, j) /\ ~Before(j, i)
    BY DEF Winners, Matches
  <1>2. rules[i] \in Rules /\ rules[j] \in Rules
    BY <1>1, RuleType
  <1>3. rules[i].priority \in Int /\ rules[j].priority \in Int
    BY <1>2 DEF Rules
  <1>4. Specificity(rules[i]) \in Int /\ Specificity(rules[j]) \in Int
    BY DEF Specificity
  <1>5. i \in Int /\ j \in Int
    BY <1>1
  <1>6. QED
    BY <1>1, <1>3, <1>4, <1>5 DEF Before

LEMMA PricesType ==
    ASSUME TypeOK, NEW s, s.length \in Nat, NEW courts, NEW date
    PROVE  Prices(s, courts, date) \subseteq Nat \cup {NoPrice}
  <1> SUFFICES ASSUME NEW i \in Winners(s, courts, date)
               PROVE  RoundHalfUp(rules[i].cents * s.length, rules[i].per) \in Nat
    BY DEF Prices
  <1>1. rules[i] \in Rules
    BY RuleType DEF Winners, Matches
  <1>2. rules[i].cents \in Nat /\ rules[i].per \in Nat \ {0} /\ s.length \in Nat
    BY <1>1 DEF Rules
  <1>3. rules[i].cents * s.length \in Nat
    BY <1>2
  <1>4. QED
    BY <1>2, <1>3, RoundingIsNat

\* Whoever asks for the price of a slot is told the same.
LEMMA OnePrice ==
    ASSUME TypeOK, NEW s, NEW courts, NEW date,
           NEW a \in Prices(s, courts, date), NEW b \in Prices(s, courts, date)
    PROVE  a = b
  BY OneWinner DEF Prices

LEMMA MemberDiscountType == TypeOK => MemberDiscount \in 0 .. 100
  <1> SUFFICES ASSUME TypeOK, granted # {}
               PROVE  MemberDiscount \in 0 .. 100
    BY DEF MemberDiscount
  <1> DEFINE D == {discount[p] : p \in granted}
  <1>1. \A p \in granted : discount[p] \in 0 .. 100
    BY ConstantsAssumption DEF TypeOK
  <1>2. D \subseteq Int /\ D # {} /\ \A x \in D : x <= 100
    BY <1>1
  <1>3. \E d \in D : \A x \in D : x <= d
    <2> HIDE DEF D
    <2>1. 100 \in Int
      OBVIOUS
    <2>2. QED
      BY <1>2, <2>1, Largest
  <1>4. \E d \in D : \A p \in granted : discount[p] <= d
    BY <1>3
  <1>5. MemberDiscount \in D
    BY <1>4 DEF MemberDiscount
  <1>6. QED
    BY <1>1, <1>5

LEMMA DiscountedType ==
    ASSUME TypeOK, NEW c \in Nat \cup {NoPrice}
    PROVE  Discounted(c) \in Nat \cup {NoPrice}
  <1>1. CASE c = NoPrice
    BY <1>1 DEF Discounted
  <1>2. CASE c # NoPrice
    <2>1. c \in Nat /\ 100 - MemberDiscount \in Nat
      BY <1>2, MemberDiscountType
    <2>2. c * (100 - MemberDiscount) \in Nat
      BY <2>1
    <2>3. RoundHalfUp(c * (100 - MemberDiscount), 100) \in Nat
      BY <2>2, RoundingIsNat
    <2>4. QED
      BY <1>2, <2>3 DEF Discounted
  <1>3. QED
    BY <1>1, <1>2

LEMMA ShownType == TypeOK => \A s \in Periods : Shown(s) \subseteq Nat \cup {NoPrice}
  <1> SUFFICES ASSUME TypeOK, NEW s \in Periods
               PROVE  Shown(s) \subseteq Nat \cup {NoPrice}
    OBVIOUS
  <1>1. s.length \in Nat
    BY ConstantsAssumption DEF Periods
  <1>2. QED
    BY <1>1, PricesType, DiscountedType DEF Shown

LEMMA ChargedType ==
    ASSUME TypeOK, NEW q \in Calls
    PROVE  /\ Charged(q) \subseteq Nat \cup {NoPrice}
           /\ Moved(q) \subseteq Nat \cup {NoPrice}
  <1>1. SlotOf(q).length \in Nat
    BY ConstantsAssumption DEF Calls, SlotOf
  <1>2. QED
    BY <1>1, PricesType, DiscountedType DEF Charged, Moved

-----------------------------------------------------------------------------
(***************************************************************************)
(* Time.                                                                   *)
(***************************************************************************)

LEMMA ZoneType ==
    ASSUME zone \in Zone
    PROVE  /\ zone.change \in Int /\ zone.shift \in Int /\ zone.late \in BOOLEAN /\ zone.utc \in Int
           /\ Turn \in Int
  BY ConstantsAssumption DEF Zones, Turn

LEMMA InstantType ==
    ASSUME zone \in Zone, NEW m \in Int
    PROVE  Instant(m) \in Int /\ LocalTime(m) \in Int
  BY ZoneType DEF Instant, LocalTime

\* A local time that exists is read again off its instant.
LEMMA Existing ==
    ASSUME NEW s \in Periods, Exists(s)
    PROVE  SlotOf(Sent(s)) = s
  BY DEF Exists, Sent, SlotOf, Periods

\* What is requested for a period of the grid.
LEMMA SentType ==
    ASSUME zone \in Zone, NEW s \in Periods
    PROVE  Sent(s) \in Calls
  <1>1. s.start \in Int
    BY ConstantsAssumption DEF Periods, Starts
  <1>2. QED
    BY <1>1, InstantType DEF Sent, Calls, Periods

LEMMA RequestType ==
    ASSUME zone \in Zone, NEW q \in Requests
    PROVE  /\ q \in Calls /\ SlotOf(q) \in Periods
           /\ Booked(q) \in Times
  <1>1. Starts \subseteq Int /\ DayLength \in Int
    BY ConstantsAssumption DEF Starts
  <1>2. Instants \subseteq Int
    <2>1. \A m \in Starts : m \in Int /\ m + zone.shift \in Int
      BY <1>1, ZoneType
    <2>2. QED
      BY <2>1 DEF Instants
  <1>3. q \in Calls
    BY <1>2 DEF Requests, Calls
  <1>4. SlotOf(q) \in Periods
    BY DEF SlotOf, Periods, Requests, Instants
  <1>5. q.at + q.length \in Int
    BY <1>1, <1>3 DEF Calls
  <1>6. QED
    BY <1>3, <1>4, <1>5 DEF Booked, Times, Calls

\* A slot on one side of the change of the clocks ends where its length says.
LEMMA PlainEnds ==
    ASSUME zone \in Zone, NEW s \in Periods, Plain(s)
    PROVE  Asked(s) = Booked(Sent(s))
  <1>1. s.start \in Int /\ s.length \in Int /\ s.length >= 1
    BY ConstantsAssumption DEF Periods, Starts
  <1>2. Instant(s.start + s.length) = Instant(s.start) + s.length
    BY <1>1, ZoneType DEF Plain, Instant
  <1>3. QED
    BY <1>2 DEF Asked, Booked, Sent

\* The policy gives no more for a shorter notice.
Nested == \A t, u \in Tiers : t.before <= u.before => t.percent <= u.percent

LEMMA ClampType ==
    ASSUME NEW x \in Int, NEW y \in Int, x <= y
    PROVE  /\ ClampPercent(x) \in 0 .. 100 /\ ClampPercent(y) \in 0 .. 100
           /\ ClampPercent(x) <= ClampPercent(y)
  BY DEF ClampPercent

\* The tier that computeRefund finds.
LEMMA TierFound ==
    ASSUME NEW left \in Int, {t \in Tiers : Reached(t, left)} # {}
    PROVE  LET open == {t \in Tiers : Reached(t, left)}
               t    == CHOOSE t \in open : \A u \in open : u.before <= t.before
           IN  /\ t \in open /\ \A u \in open : u.before <= t.before
               /\ RefundPercent(left) = ClampPercent(t.percent)
  <1> DEFINE open == {t \in Tiers : Reached(t, left)}
             B    == {t.before : t \in open}
  <1>1. \A t \in open : t.before \in Int /\ t.before <= left
    BY ConstantsAssumption DEF Reached
  <1>2. B \subseteq Int /\ B # {} /\ \A x \in B : x <= left
    BY <1>1
  <1>3. \E m \in B : \A x \in B : x <= m
    BY <1>2, Largest
  <1>4. \E t \in open : \A u \in open : u.before <= t.before
    BY <1>3
  <1>5. QED
    BY <1>4 DEF RefundPercent

LEMMA RefundPercentType ==
    ASSUME NEW left \in Int
    PROVE  RefundPercent(left) \in 0 .. 100
  <1>1. CASE {t \in Tiers : Reached(t, left)} = {}
    BY <1>1 DEF RefundPercent
  <1>2. CASE {t \in Tiers : Reached(t, left)} # {}
    <2>1. PICK t \in Tiers : RefundPercent(left) = ClampPercent(t.percent)
      BY <1>2, TierFound
    <2>2. t.percent \in Int
      BY ConstantsAssumption
    <2>3. QED
      BY <2>1, <2>2, ClampType
  <1>3. QED
    BY <1>1, <1>2

LEMMA LaterIsLess ==
    ASSUME Nested, NEW x \in Int, NEW y \in Int, x <= y
    PROVE  RefundPercent(x) <= RefundPercent(y)
  <1>1. CASE {t \in Tiers : Reached(t, x)} = {}
    <2>1. RefundPercent(x) = 0
      BY <1>1 DEF RefundPercent
    <2>2. QED
      BY <2>1, RefundPercentType
  <1>2. CASE {t \in Tiers : Reached(t, x)} # {}
    <2>1. PICK t \in Tiers : Reached(t, x) /\ RefundPercent(x) = ClampPercent(t.percent)
      BY <1>2, TierFound
    <2>2. Reached(t, y) /\ t.before \in Int
      BY <2>1, ConstantsAssumption DEF Reached
    <2>3. PICK u \in Tiers : /\ \A v \in {v \in Tiers : Reached(v, y)} : v.before <= u.before
                             /\ RefundPercent(y) = ClampPercent(u.percent)
      BY <2>2, TierFound
    <2>4. t.percent <= u.percent /\ t.percent \in Int /\ u.percent \in Int
      BY <2>2, <2>3, ConstantsAssumption DEF Nested
    <2>5. QED
      BY <2>1, <2>3, <2>4, ClampType
  <1>3. QED
    BY <1>1, <1>2

-----------------------------------------------------------------------------
(***************************************************************************)
(* The invariant.                                                          *)
(***************************************************************************)

\* What the player has picked, and nothing has outdated, is a price of today.
Fresh == shown # Nothing /\ shown.fresh => shown.price \in Shown(shown.slot)

\* Lengths that were saved with the interval are multiples of it.
Lined == listed => LineUp(offered, interval)

\* A booking that was not moved costs what was paid.
PaidAsPriced == booking # Nothing /\ ~booking.moved => booking.paid = booking.price

\* What the player has picked is a time of the day.
PickedExists == shown # Nothing => Exists(shown.slot)

IInv == TypeOK /\ Fresh /\ PickedExists /\ Lined /\ PaidAsPriced

LEMMA InitInv == Init => IInv
  <1> SUFFICES ASSUME Init PROVE IInv
    OBVIOUS
  <1>1. TypeOK
    <2>1. created \in 0 .. MaxRules /\ now \in Int
      BY ConstantsAssumption DEF Init
    <2>2. QED
      BY <2>1 DEF Init, TypeOK
  <1>2. QED
    BY <1>1 DEF Init, IInv, Fresh, PickedExists, Lined, LineUp, PaidAsPriced

LEMMA OutdatedType ==
    ASSUME TypeOK, Outdated
    PROVE  /\ shown' \in Picked \cup {Nothing}
           /\ shown' # Nothing => /\ shown # Nothing /\ ~shown'.fresh
                                 /\ shown'.slot = shown.slot
  <1>1. CASE shown = Nothing
    BY <1>1 DEF Outdated
  <1>2. CASE shown # Nothing
    <2>1. shown \in Picked /\ shown' = [shown EXCEPT !.fresh = FALSE]
      BY <1>2 DEF Outdated, TypeOK
    <2>2. shown' \in Picked /\ shown'.fresh = FALSE /\ shown'.slot = shown.slot
      BY <2>1 DEF Picked
    <2>3. QED
      BY <1>2, <2>2
  <1>3. QED
    BY <1>1, <1>2

\* The staff, and the membership that runs out, outdate what was picked and leave
\* the booking alone.
LEMMA StaffStep ==
    ASSUME TypeOK, Lined, Staff \/ \E p \in Plan : Lapse(p), zone' = zone
    PROVE  TypeOK' /\ Lined' /\ Outdated /\ UNCHANGED <<booking, now>>
  <1>0. created \in Nat /\ MaxRules \in Nat
    BY ConstantsAssumption DEF TypeOK
  <1>1. ASSUME Outdated, UNCHANGED <<interval, offered, listed>>
        PROVE  /\ shown' \in Picked \cup {Nothing}
               /\ interval' \in {1, 2} /\ offered' \in LengthsInput /\ listed' \in BOOLEAN
               /\ Lined'
    BY <1>1, OutdatedType DEF TypeOK, Lined, LineUp
  <1>2. ASSUME NEW r \in RuleInput, CreateRule(r)
        PROVE  TypeOK' /\ Lined' /\ Outdated /\ UNCHANGED <<booking, now>>
    <2>1. created + 1 \in 1 .. MaxRules /\ created + 1 \in 0 .. MaxRules /\ r \in Rules
      BY <1>0, <1>2, ConstantsAssumption DEF CreateRule, TypeOK
    <2>2. /\ rules' \in [1 .. MaxRules -> Rules \cup {NoRule}]
          /\ created' \in 0 .. MaxRules
      BY <1>2, <2>1 DEF CreateRule, TypeOK
    <2>3. QED
      BY <1>1, <1>2, <2>2 DEF CreateRule, settings, TypeOK
  <1>3. ASSUME NEW i \in 1 .. created, NEW r \in RuleInput \cup {NoRule},
               UpdateRule(i, r) \/ RemoveRule(i)
        PROVE  TypeOK' /\ Lined' /\ Outdated /\ UNCHANGED <<booking, now>>
    <2>1. r \in Rules \cup {NoRule}
      BY ConstantsAssumption
    <2>2. rules' \in [1 .. MaxRules -> Rules \cup {NoRule}]
      BY <1>3, <2>1 DEF UpdateRule, RemoveRule, TypeOK
    <2>3. QED
      BY <1>1, <1>3, <2>2 DEF UpdateRule, RemoveRule, settings, TypeOK
  <1>4. ASSUME NEW step \in {1, 2}, NEW L \in LengthsInput, UpdateSettings(step, L)
        PROVE  TypeOK' /\ Lined' /\ Outdated /\ UNCHANGED <<booking, now>>
    <2>1. shown' \in Picked \cup {Nothing}
      BY <1>4, OutdatedType DEF UpdateSettings
    <2>2. QED
      BY <1>4, <2>1 DEF UpdateSettings, TypeOK, Lined, LineUp
  <1>5. ASSUME NEW step \in {1, 2}, UpdateIntervalOnly(step)
        PROVE  TypeOK' /\ Lined' /\ Outdated /\ UNCHANGED <<booking, now>>
    <2>1. shown' \in Picked \cup {Nothing}
      BY <1>5, OutdatedType DEF UpdateIntervalOnly
    <2>2. QED
      BY <1>5, <2>1 DEF UpdateIntervalOnly, TypeOK, Lined
  <1>6. ASSUME NEW c \in Court, NEW w \in HoursInput, SetAvailability(c, w)
        PROVE  TypeOK' /\ Lined' /\ Outdated /\ UNCHANGED <<booking, now>>
    BY <1>1, <1>6 DEF SetAvailability, TypeOK
  <1>7. ASSUME NEW c \in Court, NEW l \in Least, UpdateCourt(c, l)
        PROVE  TypeOK' /\ Lined' /\ Outdated /\ UNCHANGED <<booking, now>>
    BY <1>1, <1>7 DEF UpdateCourt, TypeOK
  <1>8. ASSUME NEW p \in Plan, NEW d \in Percent, UpdatePlan(p, d)
        PROVE  TypeOK' /\ Lined' /\ Outdated /\ UNCHANGED <<booking, now>>
    BY <1>1, <1>8 DEF UpdatePlan, settings, TypeOK
  <1>9. ASSUME NEW p \in Plan, Grant(p) \/ Lapse(p)
        PROVE  TypeOK' /\ Lined' /\ Outdated /\ UNCHANGED <<booking, now>>
    BY <1>1, <1>9 DEF Grant, Lapse, settings, TypeOK
  <1>10. ASSUME NEW w \in ClosureInput \cup closed, CreateClosure(w) \/ DeleteClosure(w)
         PROVE  TypeOK' /\ Lined' /\ Outdated /\ UNCHANGED <<booking, now>>
    <2>1. w \in [from: Int, to: Int]
      BY ConstantsAssumption DEF TypeOK
    <2>2. closed' \subseteq [from: Int, to: Int]
      BY <1>10, <2>1 DEF CreateClosure, DeleteClosure, TypeOK
    <2>3. QED
      BY <1>1, <1>10, <2>2 DEF CreateClosure, DeleteClosure, TypeOK
  <1>11. QED
    BY <1>2, <1>3, <1>4, <1>5, <1>6, <1>7, <1>8, <1>9, <1>10 DEF Staff

LEMMA SameShown ==
    ASSUME UNCHANGED <<zone, rules, created, discount, granted>>
    PROVE  \A s : Shown(s)' = Shown(s)
  <1>1. \A s, courts, date : Winners(s, courts, date)' = Winners(s, courts, date)
    BY DEF Winners, Before, Matches, Valid, UtcDate
  <1>2. \A s, courts, date : Prices(s, courts, date)' = Prices(s, courts, date)
    BY <1>1 DEF Prices
  <1>3. MemberDiscount' = MemberDiscount
    BY DEF MemberDiscount
  <1>4. QED
    BY <1>2, <1>3 DEF Shown, Discounted, Instant, Turn

\* The steps of the players, of time, and of nobody.
LEMMA PlayerStep ==
    ASSUME TypeOK, Lined, Player \/ Tick \/ UNCHANGED vars, zone' = zone
    PROVE  /\ TypeOK' /\ Lined'
           /\ \/ Outdated
              \/ shown' = shown /\ UNCHANGED <<rules, created, discount, granted>>
              \/ \E s \in Periods : Pick(s)
  <1>1. CASE UNCHANGED vars
    BY <1>1 DEF vars, settings, TypeOK, Lined, LineUp
  <1>2. CASE Tick
    BY <1>2 DEF Tick, settings, TypeOK, Lined, LineUp
  <1>3. ASSUME Outdated, UNCHANGED <<rules, created, settings, discount, granted, now>>,
               booking' \in Bookings \cup {Nothing},
               taken' \subseteq Times
        PROVE  TypeOK' /\ Lined'
    BY <1>3, OutdatedType DEF settings, TypeOK, Lined, LineUp
  <1>4. CASE \/ \E q \in Requests : OthersBook(q)
             \/ \E t \in taken : OthersCancel(t)
    <2>1. /\ booking' \in Bookings \cup {Nothing}
          /\ taken' \subseteq Times
      BY <1>4, RequestType DEF OthersBook, OthersCancel, TypeOK
    <2>2. QED
      BY <1>3, <1>4, <2>1 DEF OthersBook, OthersCancel
  <1>5. ASSUME NEW s \in Periods, Pick(s)
        PROVE  TypeOK' /\ Lined'
    <2>1. PICK price \in Shown(s) :
            shown' = [slot |-> s, price |-> price, fresh |-> TRUE]
      BY <1>5 DEF Pick
    <2>2. price \in Nat \cup {NoPrice}
      BY ShownType
    <2>3. shown' \in Picked
      BY <2>1, <2>2 DEF Picked
    <2>4. QED
      BY <1>5, <2>3 DEF Pick, settings, TypeOK, Lined, LineUp
  <1>6. CASE Book
    <2>1. shown \in Picked
      BY <1>6 DEF Book, TypeOK
    <2>2. Sent(shown.slot) \in Calls
      BY <2>1, SentType DEF Picked, TypeOK
    <2>3. PICK price \in Charged(Sent(shown.slot)) \ {NoPrice} :
            booking' = [slot |-> Sent(shown.slot), price |-> price, paid |-> price,
                        moved |-> FALSE, refund |-> NoPrice]
      BY <1>6 DEF Book
    <2>4. price \in Nat
      BY <2>2, <2>3, ChargedType
    <2>5. booking' \in Bookings
      BY <2>2, <2>3, <2>4 DEF Bookings
    <2>6. QED
      BY <1>6, <2>5 DEF Book, settings, TypeOK, Lined, LineUp
  <1>7. ASSUME NEW q \in Requests, Reschedule(q)
        PROVE  TypeOK' /\ Lined'
    <2>1. PICK price \in Moved(q) \ {NoPrice} :
            booking' = [booking EXCEPT !.slot = q, !.price = price, !.moved = TRUE]
      BY <1>7 DEF Reschedule
    <2>2. q \in Calls /\ price \in Nat
      BY <2>1, RequestType, ChargedType DEF TypeOK
    <2>3. booking \in Bookings
      BY <1>7 DEF Reschedule, TypeOK
    <2>4. booking' \in Bookings
      BY <2>1, <2>2, <2>3 DEF Bookings
    <2>5. taken' \subseteq Times
      BY <1>7 DEF Reschedule, TypeOK
    <2>6. QED
      BY <1>3, <1>7, <2>4, <2>5 DEF Reschedule
  <1>8. CASE Cancel
    <2>1. booking \in Bookings
      BY <1>8 DEF Cancel, TypeOK
    <2>2. booking.slot.at \in Int /\ booking.price \in Nat /\ now \in Int
      BY <2>1 DEF Bookings, Calls, TypeOK
    <2>3. booking.slot.at - now \in Int
      BY <2>2
    <2>4. RefundPercent(booking.slot.at - now) \in Nat
      BY <2>3, RefundPercentType
    <2>5. Refund \in Nat
      <3>1. booking.price * RefundPercent(booking.slot.at - now) \in Nat
        BY <2>2, <2>4
      <3>2. QED
        BY <3>1, RoundingIsNat DEF Refund
    <2>6. booking' \in Bookings
      BY <1>8, <2>1, <2>5 DEF Cancel, Bookings
    <2>7. taken' \subseteq Times
      BY <1>8 DEF Cancel, TypeOK
    <2>8. QED
      BY <1>3, <1>8, <2>6, <2>7 DEF Cancel
  <1>9. QED
    BY <1>1, <1>2, <1>4, <1>5, <1>6, <1>7, <1>8
       DEF Player, Tick, Book, Reschedule, Cancel, OthersBook, OthersCancel, vars

LEMMA NextInv == IInv /\ [Next]_vars => IInv'
  <1> SUFFICES ASSUME IInv, [Next]_vars PROVE IInv'
    OBVIOUS
  <1>0. TypeOK /\ Fresh /\ PickedExists /\ Lined /\ PaidAsPriced /\ zone' = zone
    BY DEF IInv, Next, vars
  <1>1. (Staff \/ \E p \in Plan : Lapse(p)) \/ (Player \/ Tick \/ UNCHANGED vars)
    BY DEF Next
  <1>2. TypeOK' /\ Lined'
    BY <1>0, <1>1, StaffStep, PlayerStep
  <1>3. Fresh'
    <2>1. CASE Outdated
      BY <1>0, <2>1, OutdatedType DEF Fresh
    <2>2. CASE shown' = shown /\ UNCHANGED <<zone, rules, created, discount, granted>>
      <3>1. Shown(shown'.slot) = Shown(shown.slot)
        BY <2>2
      <3>2. \A s : Shown(s)' = Shown(s)
        BY <2>2, SameShown
      <3>3. Shown(shown.slot)' = Shown(shown.slot)
        BY <2>2, <3>2
      <3>4. QED
        BY <1>0, <2>2, <3>3 DEF Fresh
    <2>3. ASSUME NEW s \in Periods, Pick(s)
          PROVE  Fresh'
      <3>1. \A t : Shown(t)' = Shown(t)
        BY <1>0, <2>3, SameShown DEF Pick
      <3>2. shown'.slot = s /\ shown'.price \in Shown(s)
        BY <2>3 DEF Pick
      <3>3. shown'.price \in Shown(shown.slot)'
        BY <3>1, <3>2
      <3>4. QED
        BY <3>3 DEF Fresh
    <2>4. QED
      BY <1>0, <1>1, <2>1, <2>2, <2>3, StaffStep, PlayerStep
  <1>4. PaidAsPriced'
    <2>1. CASE booking' = booking
      BY <1>0, <2>1 DEF PaidAsPriced
    <2>2. CASE Book
      BY <2>2 DEF Book, PaidAsPriced
    <2>3. ASSUME booking \in Bookings, Cancel \/ \E q \in Requests : Reschedule(q)
          PROVE  PaidAsPriced'
      <3>1. CASE Cancel
        <4>1. booking # Nothing /\ booking' = [booking EXCEPT !.refund = Refund]
          BY <3>1 DEF Cancel
        <4>2. /\ booking'.moved = booking.moved
              /\ booking'.paid = booking.paid /\ booking'.price = booking.price
          BY <2>3, <4>1 DEF Bookings
        <4>3. QED
          BY <1>0, <4>1, <4>2 DEF PaidAsPriced
      <3>2. ASSUME NEW q \in Requests, Reschedule(q)
            PROVE  PaidAsPriced'
        <4>1. booking'.moved = TRUE
          BY <2>3, <3>2 DEF Reschedule, Bookings
        <4>2. QED
          BY <4>1 DEF PaidAsPriced
      <3>3. QED
        BY <2>3, <3>1, <3>2
    <2>4. Cancel \/ (\E q \in Requests : Reschedule(q)) => booking \in Bookings
      BY <1>0 DEF Cancel, Reschedule, TypeOK
    <2>5. \/ booking' = booking
          \/ Book
          \/ Cancel \/ \E q \in Requests : Reschedule(q)
      <3>1. CASE Staff \/ \E p \in Plan : Lapse(p)
        BY <1>0, <3>1, StaffStep
      <3>2. CASE Player \/ Tick \/ UNCHANGED vars
        BY <3>2 DEF Player, Tick, vars, OthersBook, OthersCancel, Pick
      <3>3. QED
        BY <1>1, <3>1, <3>2
    <2>6. QED
      BY <2>1, <2>2, <2>3, <2>4, <2>5
  <1>5. PickedExists'
    <2>1. \A s : Exists(s)' = Exists(s)
      BY <1>0 DEF Exists, LocalTime, Instant, Turn
    <2>2. CASE Outdated
      BY <1>0, <2>1, <2>2, OutdatedType DEF PickedExists
    <2>3. CASE shown' = shown
      BY <1>0, <2>1, <2>3 DEF PickedExists
    <2>4. ASSUME NEW s \in Periods, Pick(s)
          PROVE  PickedExists'
      BY <2>1, <2>4 DEF Pick, Free, PickedExists
    <2>5. QED
      BY <1>0, <1>1, <2>2, <2>3, <2>4, StaffStep, PlayerStep
  <1>6. QED
    BY <1>2, <1>3, <1>4, <1>5 DEF IInv

THEOREM Inductive == Spec => []IInv
  BY InitInv, NextInv, PTL DEF Spec

\* Every value of the variables has its type: a price that is shown or charged is
\* a natural number of cents or missing, and so is a refund.
THEOREM TypeCorrect == Spec => []TypeOK
  <1>1. IInv => TypeOK
    BY DEF IInv
  <1>2. QED
    BY <1>1, Inductive, PTL

-----------------------------------------------------------------------------
(***************************************************************************)
(* The grid and the booking.                                               *)
(***************************************************************************)

\* Steps from the beginning of a window and steps from midnight are the same when
\* the window begins on a step.
LEMMA SameSteps ==
    ASSUME NEW step \in {1, 2}, NEW start \in Nat, NEW from \in Nat, from % step = 0
    PROVE  (start - from) % step = 0 /\ (step = 1 \/ start % 2 = 0) <=> start % step = 0
  <1>1. CASE step = 1
    BY <1>1
  <1>2. CASE step = 2
    BY <1>2
  <1>3. QED
    BY <1>1, <1>2

LEMMA SlotsAreOpen ==
    ASSUME TypeOK, NEW s \in Periods, Tidy(s.court)
    PROVE  s \in Slots(s.court)
           <=> /\ s.start % interval = 0
               /\ \E w \in hours[s.court] : w.from <= s.start /\ s.start + s.length <= w.to
  <1>1. /\ s.start \in Nat /\ s.length \in Nat /\ interval \in {1, 2} /\ s.court \in Court
        /\ s \in [court: {s.court}, start: Starts, length: 1 .. DayLength]
    BY ConstantsAssumption DEF TypeOK, Periods, Starts
  <1>2. \A w \in hours[s.court] : w.from \in Nat /\ w.to \in Nat /\ w.from % interval = 0
    BY <1>1, ConstantsAssumption DEF TypeOK, Tidy, Windows
  <1>3. \A w \in hours[s.court] :
          (s.start - w.from) % interval = 0 /\ (interval = 1 \/ s.start % 2 = 0)
          <=> s.start % interval = 0
    BY <1>1, <1>2, SameSteps
  <1>4. \A w \in hours[s.court] : s.start >= w.from <=> w.from <= s.start
    BY <1>1, <1>2
  <1>5. QED
    BY <1>1, <1>3, <1>4 DEF Slots

\* For a slot that is free, or one that can be booked, the checks are the same.
LEMMA SameChecks ==
    ASSUME TypeOK, Lined, NEW s \in Periods, NEW q \in Requests, q = Sent(s), s = SlotOf(q),
           Tidy(s.court), s.length \in offered, s.length >= least[s.court],
           q.at - now <= MaxAdvance, Plain(s)
    PROVE  Free(s) <=> Bookable(q, taken \cup Mine)
  <1>1. /\ Asked(s) = Booked(q) /\ Instant(s.start) = q.at /\ LocalTime(q.at) = s.start
        /\ q.court = s.court /\ q.length = s.length
    <2>1. Asked(s) = Booked(q)
      BY PlainEnds DEF TypeOK
    <2>2. q.at = Instant(s.start) /\ q.court = s.court /\ q.length = s.length
      BY DEF Sent
    <2>3. s.start = LocalTime(q.at)
      BY DEF SlotOf
    <2>4. QED
      BY <2>1, <2>2, <2>3
  <1>2. s.length % interval = 0
    BY DEF Lined, LineUp, Tidy
  <1>3. \A w \in hours[s.court] : s.start + s.length <= w.to => s.start + s.length <= DayLength
    <2>1. s.start \in Nat /\ s.length \in Nat /\ s.court \in Court
      BY ConstantsAssumption DEF Periods, Starts
    <2>2. \A w \in hours[s.court] : w.to \in 0 .. DayLength
      BY <2>1, ConstantsAssumption DEF TypeOK, Windows
    <2>3. QED
      BY <2>1, <2>2, ConstantsAssumption
  <1>4. Exists(s)
    BY <1>1 DEF Exists
  <1>5. Occupied(Asked(s), taken \cup Mine) = Occupied(Booked(q), taken \cup Mine)
        /\ Shut(Asked(s)) = Shut(Booked(q))
    BY <1>1
  <1>6. Free(s) <=> /\ s.start % interval = 0
                    /\ \E w \in hours[s.court] : w.from <= s.start /\ s.start + s.length <= w.to
                    /\ q.at > now /\ ~Shut(Booked(q)) /\ ~Occupied(Booked(q), taken \cup Mine)
    BY <1>1, <1>4, <1>5, SlotsAreOpen DEF Free
  <1>7. Open(q) <=> /\ q.at > now
                    /\ s.start % interval = 0
                    /\ s.start + s.length <= DayLength
                    /\ \E w \in hours[s.court] : w.from <= s.start /\ s.start + s.length <= w.to
                    /\ ~Shut(Booked(q))
    BY <1>1, <1>2 DEF Open
  <1>8. QED
    BY <1>3, <1>6, <1>7 DEF Bookable

LEMMA FreeIsBookable ==
    ASSUME TypeOK, Lined, NEW q \in Requests,
           Tidy(q.court), q.length \in offered, q.length >= least[q.court],
           q.at - now <= MaxAdvance, Plain(SlotOf(q))
    PROVE  Bookable(q, taken \cup Mine) <=> \E s \in Periods : Sent(s) = q /\ Free(s)
  <1>0. /\ SlotOf(q) \in Periods
        /\ SlotOf(q).court = q.court /\ SlotOf(q).length = q.length
    BY RequestType DEF SlotOf, TypeOK
  <1>1. ASSUME Bookable(q, taken \cup Mine)
        PROVE  \E s \in Periods : Sent(s) = q /\ Free(s)
    <2>1. Instant(LocalTime(q.at)) = q.at
      BY <1>1 DEF Bookable, Open
    <2>2. Sent(SlotOf(q)) = q
      BY <2>1 DEF Sent, SlotOf, Requests
    <2>3. Free(SlotOf(q))
      BY <1>0, <1>1, <2>2, SameChecks
    <2>4. QED
      BY <1>0, <2>2, <2>3
  <1>2. ASSUME NEW s \in Periods, Sent(s) = q, Free(s)
        PROVE  Bookable(q, taken \cup Mine)
    <2>1. SlotOf(q) = s
      BY <1>2, Existing DEF Free
    <2>2. QED
      BY <1>0, <1>2, <2>1, SameChecks
  <1>3. QED
    BY <1>1, <1>2

\* What generateSlots shows as free resolveSlot accepts, as far ahead as bookings
\* go, and what it accepts is shown, for any courts, hours, closures, bookings and
\* change of the clocks, as long as the lengths were saved with the interval and
\* the hours begin when slots do.
THEOREM GridAgrees == Spec => []OfferIsBookable
  <1>1. IInv => OfferIsBookable
    BY FreeIsBookable DEF IInv, OfferIsBookable
  <1>2. QED
    BY <1>1, Inductive, PTL

\* The price that createReservation charges is the one the grid showed, whatever
\* the rules, if nothing changed since: no order of the rules, no rounding and no
\* membership makes a difference.
THEOREM PriceIsKept == Spec => ShownIsCharged
  <1>1. ASSUME IInv, [Next]_vars, booking = Nothing, booking' # Nothing, shown.fresh
        PROVE  booking'.price = shown.price
    <2>0. TypeOK /\ Lined /\ Fresh /\ PickedExists /\ zone' = zone
      BY <1>1 DEF IInv, Next, vars
    <2>1. Book
      <3>1. ~(Staff \/ \E p \in Plan : Lapse(p))
        BY <1>1, <2>0, StaffStep
      <3>2. QED
        BY <1>1, <3>1
           DEF Next, Player, Tick, vars, OthersBook, OthersCancel, Pick, Reschedule, Cancel
    <2>2. shown \in Picked /\ shown.price \in Shown(shown.slot)
      BY <1>1, <2>0, <2>1 DEF Book, Fresh, TypeOK
    <2>3. PICK price \in Charged(Sent(shown.slot)) : booking'.price = price
      BY <2>1 DEF Book
    <2> DEFINE s == shown.slot
    <2>4. SlotOf(Sent(s)) = s /\ Sent(s).court = s.court /\ Sent(s).at = Instant(s.start)
      <3>1. s \in Periods /\ Exists(s)
        BY <2>0, <2>1, <2>2 DEF Book, Picked, PickedExists
      <3>2. QED
        BY <3>1, Existing DEF Sent
    <2>5. PICK b \in Prices(s, {s.court}, Instant(s.start)) : booking'.price = Discounted(b)
      BY <2>3, <2>4 DEF Charged
    <2>8. PICK a \in Prices(s, {s.court}, Instant(s.start)) : shown.price = Discounted(a)
      BY <2>2 DEF Shown
    <2>6. a = b
      BY <2>0, OnePrice
    <2>7. QED
      BY <2>5, <2>6, <2>8
  <1>2. IInv /\ [Next]_vars =>
          [booking = Nothing /\ booking' # Nothing /\ shown.fresh => booking'.price = shown.price]_vars
    BY <1>1
  <1>3. QED
    BY <1>2, Inductive, PTL DEF Spec, ShownIsCharged

\* While the UTC date is the local one, the preview (which asks about the midnight
\* of the date) and the booking (which asks about its instant) find the same rules,
\* whatever dates those are valid on.
LEMMA SameDate ==
    ASSUME zone \in Zone, NEW i \in Int, UtcDate(1) <= i, i < UtcDate(2), NEW r \in Rules
    PROVE  Valid(r, UtcDate(1)) <=> Valid(r, i)
  <1>1. /\ DayLength \in Nat /\ zone.utc \in Int
        /\ r.since \in Days /\ r.until \in Days
    BY ZoneType, ConstantsAssumption DEF Rules
  <1>2. /\ UtcDate(0) = zone.utc - DayLength
        /\ UtcDate(1) = zone.utc
        /\ UtcDate(2) = DayLength + zone.utc
    BY <1>1 DEF UtcDate
  <1>3. DayLength > 0
    BY <1>1, <1>2
  <1>4. \A day \in Days : UtcDate(day) <= UtcDate(1) <=> UtcDate(day) <= i
    BY <1>1, <1>2, <1>3 DEF Days
  <1>5. \A day \in Days : UtcDate(1) < UtcDate(day) <=> i < UtcDate(day)
    BY <1>1, <1>2, <1>3 DEF Days
  <1>6. QED
    BY <1>1, <1>4, <1>5 DEF Valid

\* The admin preview and real bookings choose the same rule for every request
\* while the UTC date is the local one, if the court is named in the preview or no
\* rule for it applies.
THEOREM PreviewIsReal == Spec => []PreviewAgrees
  <1>1. ASSUME IInv, NEW q \in Requests, NEW courts \in {{q.court}, {}},
               UtcDate(1) <= q.at, q.at < UtcDate(2), courts = {} => CourtRules(q) = {}
        PROVE  Preview(SlotOf(q), courts) = Winners(SlotOf(q), {q.court}, q.at)
    <2>0. TypeOK /\ zone \in Zone /\ q.at \in Int
      BY <1>1, RequestType DEF IInv, TypeOK, Calls
    <2>1. ASSUME NEW i \in 1 .. created
          PROVE  Matches(rules[i], SlotOf(q), courts, UtcDate(1))
                 <=> Matches(rules[i], SlotOf(q), {q.court}, q.at)
      <3>1. CASE rules[i] = NoRule
        BY <3>1 DEF Matches
      <3>2. CASE rules[i] # NoRule
        <4>1. rules[i] \in Rules
          BY <2>0, <3>2, RuleType
        <4>2. Valid(rules[i], UtcDate(1)) <=> Valid(rules[i], q.at)
          BY <1>1, <2>0, <4>1, SameDate
        <4>3. CASE courts = {q.court}
          BY <4>2, <4>3 DEF Matches
        <4>4. CASE courts = {}
          <5>1. ~ (rules[i].court = q.court /\ Matches(rules[i], SlotOf(q), {q.court}, q.at))
            BY <1>1, <4>4 DEF CourtRules
          <5>2. QED
            BY <4>2, <4>4, <5>1 DEF Matches
        <4>5. QED
          BY <4>3, <4>4
      <3>3. QED
        BY <3>1, <3>2
    <2>2. QED
      BY <2>1 DEF Preview, Winners
  <1>2. IInv => PreviewAgrees
    BY <1>1 DEF PreviewAgrees
  <1>3. QED
    BY <1>2, Inductive, PTL

-----------------------------------------------------------------------------
(***************************************************************************)
(* The refund.                                                             *)
(***************************************************************************)

LEMMA RefundIsBounded ==
    ASSUME TypeOK, PaidAsPriced, booking # Nothing, ~booking.moved
    PROVE  Refund <= booking.paid
  <1>1. /\ booking.price \in Nat /\ booking.paid = booking.price
        /\ booking.slot.at \in Int /\ now \in Int
    BY DEF TypeOK, Bookings, Calls, PaidAsPriced
  <1> DEFINE percent == RefundPercent(booking.slot.at - now)
  <1>2. percent \in 0 .. 100
    BY <1>1, RefundPercentType
  <1> HIDE DEF percent
  <1>3. booking.price * percent <= booking.price * 100 /\ booking.price * percent \in Int
    BY <1>1, <1>2, Scaling
  <1>4. RoundHalfUp(booking.price * percent, 100) <= booking.price
    BY <1>1, <1>3, RoundingOfHundredths, RoundingOfWholes
  <1>5. QED
    BY <1>1, <1>4 DEF Refund, percent

LEMMA RefundShrinks ==
    ASSUME Nested, TypeOK, booking # Nothing, booking' = booking, now' \in Int, now <= now'
    PROVE  Refund' <= Refund
  <1>1. /\ booking.price \in Nat /\ booking.slot.at \in Int /\ now \in Int
    BY DEF TypeOK, Bookings, Calls
  <1> DEFINE start   == booking.slot.at
             percent == RefundPercent(start - now)
             later   == RefundPercent(start - now')
  <1>2. start \in Int
    BY <1>1
  <1>3. percent \in Int /\ later \in Int /\ later <= percent
    <2>1. \A a, b, c \in Int : a <= b => c - a \in Int /\ c - b \in Int /\ c - b <= c - a
      OBVIOUS
    <2>2. start - now \in Int /\ start - now' \in Int /\ start - now' <= start - now
      BY <1>1, <1>2, <2>1
    <2>3. QED
      BY <2>2, RefundPercentType, LaterIsLess
  <1>4. booking.slot.at' = start
    OBVIOUS
  <1>5. Refund' = RoundHalfUp(booking.price * later, 100)
    BY <1>4 DEF Refund, RefundPercent
  <1>6. Refund = RoundHalfUp(booking.price * percent, 100)
    BY DEF Refund
  <1> HIDE DEF percent, later
  <1>7. /\ booking.price * later <= booking.price * percent
        /\ booking.price * later \in Int /\ booking.price * percent \in Int
    BY <1>1, <1>3, Scaling
  <1>8. QED
    BY <1>5, <1>6, <1>7, RoundingOfHundredths

LEMMA TimeGoesOn == TypeOK /\ Lined /\ [Next]_vars => now' \in Int /\ now <= now'
  <1> SUFFICES ASSUME TypeOK, Lined, [Next]_vars
               PROVE  now' \in Int /\ now <= now'
    OBVIOUS
  <1>1. now \in Int
    BY DEF TypeOK
  <1>2. CASE Staff \/ \E p \in Plan : Lapse(p)
    BY <1>1, <1>2, StaffStep DEF Next, vars
  <1>3. CASE Tick
    BY <1>1, <1>3 DEF Tick
  <1>4. CASE Player \/ UNCHANGED vars
    <2>1. now' = now
      BY <1>4 DEF Player, vars, OthersBook, OthersCancel, Pick, Book, Reschedule, Cancel
    <2>2. QED
      BY <1>1, <2>1
  <1>5. QED
    BY <1>2, <1>3, <1>4 DEF Next

\* Under a policy that gives no more for a shorter notice, the refund of a booking
\* that stands as it is never grows, whatever else happens, and before the first
\* move it is never more than the payment.
THEOREM WaitingNeverPays ==
    ASSUME Nested
    PROVE  Spec => RefundOnlyShrinks
  <1>1. ASSUME IInv, [Next]_vars, booking # Nothing, booking' = booking
        PROVE  Refund' <= Refund /\ (~booking.moved => Refund <= booking.paid)
    BY <1>1, TimeGoesOn, RefundShrinks, RefundIsBounded DEF IInv
  <1>2. IInv /\ [Next]_vars =>
          [booking # Nothing /\ booking' = booking /\ booking.refund = NoPrice =>
              /\ Refund' <= Refund
              /\ ~booking.moved => Refund <= booking.paid]_vars
    BY <1>1
  <1>3. QED
    BY <1>2, Inductive, PTL DEF Spec, RefundOnlyShrinks

===============================================================================
