------------------------------- MODULE TeamProofs -------------------------------
(***************************************************************************)
(* Team is type correct, features one club at most, gives a coach one      *)
(* shared resource and locks nobody out, for every set of clubs, persons   *)
(* and handlers, but where two handlers met on the same rows.              *)
(*                                                                         *)
(* The argument.  A club or person outside of raced is worked on by one    *)
(* handler at a time (AloneOnClubs, AloneOnPersons), since arriving where  *)
(* another one is at work makes both of theirs raced.  What that handler   *)
(* has found therefore still holds when it writes: the clubs its UPDATE is *)
(* about to un-feature are all the others that are (SeenAll), and the row  *)
(* it is about to create is not there yet (NoneYet).  NoneYet cannot hold  *)
(* of accounts and roles, which a join request makes in one transaction of *)
(* its own without being seen in flight; but a handler that made the       *)
(* account made its role along with it (RoleOfNew), and creates neither    *)
(* again.                                                                  *)
(***************************************************************************)
EXTENDS Team, FiniteSetTheorems, TLAPS

AloneOnClubs ==
    \A p, q \in Api : p # q /\ At(p, "feature") /\ At(q, "feature") => req[p].on \in raced

AloneOnPersons ==
    \A p, q \in Api :
        p # q /\ OnPerson(p) /\ OnPerson(q) /\ req[p].on = req[q].on => req[p].on \in raced

SeenAll ==
    \A p \in Api :
        At(p, "feature") /\ req[p].to /\ req[p].on \notin raced
          => featured \ raced \subseteq req[p].seen \cup {req[p].on}

AtMostOne == \A c, d \in featured \ raced : c = d

InRange ==
    \A p \in Api : req[p].op \in {"find", "create"} => req[p].step \in 1 .. Len(Add(req[p].role))

RoleOfNew ==
    \A p \in Api :
        req[p].op \in {"find", "create"} /\ req[p].new
          => req[p].step > 1 /\ rows[<<req[p].role, req[p].on>>] > 0

NoneYet ==
    \A p \in Api :
        At(p, "create") /\ req[p].on \notin raced
          => \/ rows[Row(p)] = 0
             \/ Table(p) # "resource" /\ (req[p].new => Table(p) = "member")

IInv ==
    /\ TypeOK
    /\ AloneOnClubs /\ AloneOnPersons
    /\ SeenAll /\ AtMostOne
    /\ InRange /\ RoleOfNew /\ NoneYet
    /\ OneResourcePerCoach /\ NobodyIsLockedOut

-----------------------------------------------------------------------------
(***************************************************************************)
(* The tables and the rows of a handler.                                   *)
(***************************************************************************)

\* The account comes first and its role second; the resource is the last of a coach's.
LEMMA AddFacts ==
    ASSUME NEW role \in Roles, NEW i \in 1 .. Len(Add(role))
    PROVE  /\ i \in 1 .. 5 /\ Len(Add(role)) \in {3, 5}
           /\ Add(role)[i] \in {"user", "profile", "link", "resource", "member", role}
           /\ Add(role)[i] = "user" <=> i = 1
           /\ Add(role)[i] = role <=> i = 2
  <1>1. CASE role = "COACH"
    <2>1. Add(role) = <<"user", role, "profile", "link", "resource">>
      BY <1>1 DEF Add
    <2>2. Len(Add(role)) = 5
      BY <2>1
    <2>3. i \in {1, 2, 3, 4, 5}
      BY <2>2
    <2>4. QED
      BY <1>1, <2>1, <2>2, <2>3
  <1>2. CASE role # "COACH"
    <2>1. Add(role) = <<"user", role, "member">>
      BY <1>2 DEF Add
    <2>2. Len(Add(role)) = 3
      BY <2>1
    <2>3. i \in {1, 2, 3}
      BY <2>2
    <2>4. role \in {"CLUB_STAFF", "CLUB_ADMIN"}
      BY <1>2 DEF Roles, Admin
    <2>5. QED
      BY <2>1, <2>2, <2>3, <2>4
  <1>3. QED
    BY <1>1, <1>2

\* A handler that adds somebody carries the person, the club and the role.
LEMMA PersonType ==
    ASSUME TypeOK, NEW p \in Api, OnPerson(p)
    PROVE  /\ req[p] \in [op: PersonOps, on: Person, club: Club, role: Roles,
                          step: 1 .. 6, new: BOOLEAN]
           /\ req[p] # Idle
  BY DEF TypeOK, Requests, OnPerson, PersonOps, Idle

\* A handler that features a club carries it and the clubs it has seen.
LEMMA FeatureType ==
    ASSUME TypeOK, NEW p \in Api, At(p, "feature")
    PROVE  /\ req[p] \in [op: {"feature"}, on: Club, seen: SUBSET Club, to: BOOLEAN]
           /\ req[p] # Idle
  BY DEF TypeOK, Requests, At, Idle, PersonOps

\* A handler looks for, and makes, rows that are rows.
LEMMA RowType ==
    ASSUME TypeOK, InRange, NEW p \in Api, req[p].op \in {"find", "create"}
    PROVE  /\ Table(p) \in {"user", "profile", "link", "resource", "member", req[p].role}
           /\ Row(p) \in Rows
           /\ Row(p)[1] = Table(p) /\ Row(p)[2] = req[p].on
           /\ Table(p) \notin {"link", "member"} => Row(p) = <<Table(p), req[p].on>>
           /\ Table(p) = "user" <=> req[p].step = 1
           /\ Table(p) = req[p].role <=> req[p].step = 2
  <1>1. OnPerson(p)
    BY DEF OnPerson, PersonOps
  <1>2. req[p].on \in Person /\ req[p].club \in Club /\ req[p].role \in Roles
    BY <1>1, PersonType
  <1>3. req[p].step \in 1 .. Len(Add(req[p].role))
    BY DEF InRange
  <1>4. /\ Table(p) \in {"user", "profile", "link", "resource", "member", req[p].role}
        /\ Table(p) = "user" <=> req[p].step = 1
        /\ Table(p) = req[p].role <=> req[p].step = 2
    BY <1>2, <1>3, AddFacts DEF Table
  <1>5. CASE Table(p) \in {"link", "member"}
    <2>1. Row(p) = <<Table(p), req[p].on, req[p].club>>
      BY <1>5 DEF Row
    <2>2. QED
      BY <1>2, <1>4, <1>5, <2>1 DEF Rows
  <1>6. CASE Table(p) \notin {"link", "member"}
    <2>1. Row(p) = <<Table(p), req[p].on>>
      BY <1>6 DEF Row
    <2>2. Table(p) \in {"user", "profile", "resource"} \cup Roles
      BY <1>2, <1>4, <1>6
    <2>3. QED
      BY <1>2, <1>4, <2>1, <2>2, <1>6 DEF Rows
  <1>7. QED
    BY <1>5, <1>6

\* The next step of a handler is one of a request, and within the tables.
LEMMA OnwardType ==
    ASSUME TypeOK, InRange, NEW p \in Api, req[p].op \in {"find", "create"},
           NEW b \in BOOLEAN, Onward(p, b)
    PROVE  /\ req' \in [Api -> Requests]
           /\ \A q \in Api : q # p => req'[q] = req[q]
           /\ \/ /\ req'[p] = Step("find", p, b)
                 /\ req'[p].step \in 1 .. Len(Add(req[p].role))
              \/ b /\ req'[p] = Step("invite", p, b)
              \/ ~ b /\ req'[p] = Idle
  <1>1. OnPerson(p)
    BY DEF OnPerson, PersonOps
  <1>2. req[p] \in [op: PersonOps, on: Person, club: Club, role: Roles, step: 1 .. 6, new: BOOLEAN]
    BY <1>1, PersonType
  <1>3. /\ req[p].step \in 1 .. Len(Add(req[p].role))
        /\ req[p].step \in 1 .. 5 /\ Len(Add(req[p].role)) \in {3, 5}
    BY <1>2, AddFacts DEF InRange
  <1>4. Step("find", p, b) \in Requests /\ Step("invite", p, b) \in Requests
    BY <1>2, <1>3 DEF Step, Requests, PersonOps
  <1>5. Idle \in Requests
    BY DEF Requests
  <1>6. req \in [Api -> Requests]
    BY DEF TypeOK
  <1>7. CASE req[p].step < Len(Add(req[p].role))
    <2>1. req' = [req EXCEPT ![p] = Step("find", p, b)]
      BY <1>7 DEF Onward, Step
    <2>2. Step("find", p, b).step \in 1 .. Len(Add(req[p].role))
      BY <1>3, <1>7 DEF Step
    <2>3. QED
      BY <1>4, <1>6, <2>1, <2>2
  <1>8. CASE ~ (req[p].step < Len(Add(req[p].role))) /\ b
    <2>1. req' = [req EXCEPT ![p] = Step("invite", p, b)]
      BY <1>8 DEF Onward, Step
    <2>2. QED
      BY <1>4, <1>6, <1>8, <2>1
  <1>9. CASE ~ (req[p].step < Len(Add(req[p].role))) /\ ~ b
    <2>1. req' = [req EXCEPT ![p] = Idle]
      BY <1>9 DEF Onward
    <2>2. QED
      BY <1>5, <1>6, <1>9, <2>1
  <1>10. QED
    BY <1>7, <1>8, <1>9

LEMMA StepFields ==
    ASSUME NEW p \in Api, NEW op \in PersonOps, NEW b \in BOOLEAN, req'[p] = Step(op, p, b)
    PROVE  OnPerson(p)' /\ req'[p].op = op /\ req'[p].on = req[p].on /\ req'[p].new = b
  BY DEF OnPerson, Step

-----------------------------------------------------------------------------
(***************************************************************************)
(* Handlers that meet.                                                     *)
(***************************************************************************)

\* Whoever arrives where another one is at work makes both of theirs raced.
LEMMA Met ==
    ASSUME raced' = raced \cup Meeting'
    PROVE  AloneOnClubs' /\ AloneOnPersons'
  <1>1. AloneOnClubs'
    <2> SUFFICES ASSUME NEW p \in Api, NEW q \in Api, p # q, At(p, "feature")', At(q, "feature")'
                 PROVE  req'[p].on \in raced'
      BY DEF AloneOnClubs
    <2>1. req'[p] # Idle /\ req'[q] # Idle
      BY DEF At, Idle
    <2>2. Meets(p, q)'
      BY <2>1 DEF Meets
    <2>3. QED
      BY <2>2 DEF Meeting
  <1>2. AloneOnPersons'
    <2> SUFFICES ASSUME NEW p \in Api, NEW q \in Api, p # q, OnPerson(p)', OnPerson(q)',
                        req'[p].on = req'[q].on
                 PROVE  req'[p].on \in raced'
      BY DEF AloneOnPersons
    <2>1. req'[p] # Idle /\ req'[q] # Idle
      BY DEF OnPerson, PersonOps, Idle
    <2>2. ~ At(p, "feature")' /\ ~ At(q, "feature")'
      BY DEF OnPerson, PersonOps, At
    <2>3. Meets(p, q)'
      BY <2>1, <2>2 DEF Meets
    <2>4. QED
      BY <2>3 DEF Meeting
  <1>3. QED
    BY <1>1, <1>2

\* A handler that goes on with what it was about, or ends, meets nobody new.
LEMMA StillAlone ==
    ASSUME AloneOnClubs, AloneOnPersons, raced \subseteq raced',
           \A p \in Api : req'[p].op \in {"feature"} \cup PersonOps =>
               /\ req'[p].on = req[p].on
               /\ req'[p].op = "feature" => req[p].op = "feature"
               /\ req'[p].op \in PersonOps => req[p].op \in PersonOps
    PROVE  AloneOnClubs' /\ AloneOnPersons'
  <1>1. AloneOnClubs'
    <2> SUFFICES ASSUME NEW p \in Api, NEW q \in Api, p # q, At(p, "feature")', At(q, "feature")'
                 PROVE  req'[p].on \in raced'
      BY DEF AloneOnClubs
    <2>1. req[p].on \in raced
      BY DEF AloneOnClubs, At
    <2>2. QED
      BY <2>1 DEF At
  <1>2. AloneOnPersons'
    <2> SUFFICES ASSUME NEW p \in Api, NEW q \in Api, p # q, OnPerson(p)', OnPerson(q)',
                        req'[p].on = req'[q].on
                 PROVE  req'[p].on \in raced'
      BY DEF AloneOnPersons
    <2>1. req[p].on \in raced
      BY DEF AloneOnPersons, OnPerson
    <2>2. QED
      BY <2>1 DEF OnPerson
  <1>3. QED
    BY <1>1, <1>2

-----------------------------------------------------------------------------
(***************************************************************************)
(* Steps that write no row of a person: each part of the invariant that is *)
(* about one handler holds of those that are left alone.                   *)
(***************************************************************************)

\* What is known of a handler that is left alone, while rows and featured
\* clubs stay, stays.
LEMMA LeftAlone ==
    ASSUME SeenAll, InRange, RoleOfNew, NoneYet, NEW p \in Api,
           UNCHANGED <<featured, rows>>, raced \subseteq raced', req'[p] = req[p]
    PROVE  /\ At(p, "feature")' /\ req'[p].to /\ req'[p].on \notin raced'
                => featured' \ raced' \subseteq req'[p].seen \cup {req'[p].on}
           /\ req'[p].op \in {"find", "create"}
                => req'[p].step \in 1 .. Len(Add(req'[p].role))
           /\ req'[p].op \in {"find", "create"} /\ req'[p].new
                => req'[p].step > 1 /\ rows'[<<req'[p].role, req'[p].on>>] > 0
           /\ At(p, "create")' /\ req'[p].on \notin raced'
                => \/ rows'[Row(p)'] = 0
                   \/ Table(p)' # "resource" /\ (req'[p].new => Table(p)' = "member")
  <1>1. Table(p)' = Table(p) /\ Row(p)' = Row(p)
    BY DEF Table, Row
  <1>2. QED
    BY <1>1 DEF SeenAll, InRange, RoleOfNew, NoneYet, At

\* Fewer clubs count as featured alone, and no resource is made.
LEMMA NothingMade ==
    ASSUME AtMostOne, OneResourcePerCoach, UNCHANGED <<featured, rows>>, raced \subseteq raced'
    PROVE  AtMostOne' /\ OneResourcePerCoach'
  BY DEF AtMostOne, OneResourcePerCoach

LEMMA InitInv == Init => IInv
  <1> SUFFICES ASSUME Init PROVE IInv
    OBVIOUS
  <1>1. TypeOK
    BY DEF Init, TypeOK, Requests
  <1>2. AloneOnClubs /\ AloneOnPersons /\ SeenAll /\ InRange /\ RoleOfNew /\ NoneYet
    BY DEF Init, Idle, At, OnPerson, PersonOps, AloneOnClubs, AloneOnPersons, SeenAll, InRange,
           RoleOfNew, NoneYet
  <1>3. AtMostOne
    BY DEF Init, AtMostOne
  <1>4. \A u \in Person : <<"resource", u>> \in Rows /\ <<"user", u>> \in Rows
    BY DEF Rows
  <1>5. OneResourcePerCoach
    <2>1. \A r \in Rows : rows[r] <= 1
      BY DEF Init
    <2>2. QED
      BY <1>4, <2>1 DEF OneResourcePerCoach
  <1>6. \A u \in Person : ~ Known(u)
    <2>1. \A r \in Rows : ~ (rows[r] > 0)
      BY DEF Init
    <2>2. QED
      BY <1>4, <2>1 DEF Known
  <1>7. NobodyIsLockedOut
    BY <1>6 DEF NobodyIsLockedOut
  <1>8. QED
    BY <1>1, <1>2, <1>3, <1>5, <1>7 DEF IInv

\* Creating a club and setting its status are about no handler and no person.
LEMMA ClubStep ==
    ASSUME IInv, NEW p \in Api, NEW c \in Club, raced' = raced \cup Meeting',
           CreateClub(p, c) \/ \E s \in {"ACTIVE", "SUSPENDED"} : SetStatus(p, c, s)
    PROVE  IInv'
  <1>1. UNCHANGED <<featured, rows, activated, invited, req>>
    BY DEF CreateClub, SetStatus
  <1>2. club' \in [Club -> {"none", "PENDING", "ACTIVE", "SUSPENDED"}]
    BY DEF CreateClub, SetStatus, IInv, TypeOK
  <1>3. Meeting' \subseteq Person \cup Club
    BY <1>1 DEF Meeting, Meets, IInv, TypeOK, Requests, Idle
  <1>4. TypeOK'
    BY <1>1, <1>2, <1>3 DEF IInv, TypeOK
  <1>5. AloneOnClubs' /\ AloneOnPersons'
    BY Met
  <1>6. SeenAll' /\ InRange' /\ RoleOfNew' /\ NoneYet'
    BY <1>1, LeftAlone DEF SeenAll, InRange, RoleOfNew, NoneYet, IInv
  <1>7. AtMostOne' /\ OneResourcePerCoach'
    BY <1>1, NothingMade DEF IInv
  <1>8. NobodyIsLockedOut'
    BY <1>1 DEF IInv, NobodyIsLockedOut, Known, OnPerson
  <1>9. QED
    BY <1>4, <1>5, <1>6, <1>7, <1>8 DEF IInv

\* Onboarding makes an account together with its password.
LEMMA JoinStep ==
    ASSUME IInv, NEW p \in Api, NEW c \in Club, NEW u \in Person, raced' = raced \cup Meeting',
           JoinRequest(p, c, u)
    PROVE  IInv'
  <1> DEFINE made == {<<"user", u>>, <<Admin, u>>, <<"member", u, c>>}
  <1>1. UNCHANGED <<featured, invited, req>> /\ activated \subseteq activated'
    BY DEF JoinRequest
  <1>2. made \subseteq Rows
    BY DEF Rows, Roles
  <1>3. rows' = [r \in Rows |-> IF r \in made THEN 1 ELSE rows[r]]
    <2>1. rows \in [Rows -> Nat]
      BY DEF IInv, TypeOK
    <2>2. rows' = [[[rows EXCEPT ![<<"user", u>>] = 1] EXCEPT ![<<Admin, u>>] = 1]
                      EXCEPT ![<<"member", u, c>>] = 1]
      BY DEF JoinRequest
    <2>3. QED
      BY <1>2, <2>1, <2>2
  <1>4. \A v \in Person : rows'[<<"resource", v>>] = rows[<<"resource", v>>]
    <2>1. \A v \in Person : <<"resource", v>> \in Rows \ made
      BY DEF Rows, Admin
    <2>2. QED
      BY <1>3, <2>1
  <1>5. TypeOK'
    <2>1. rows' \in [Rows -> Nat] /\ \A r \in Rows : r[1] # "resource" => rows'[r] <= 1
      BY <1>3 DEF IInv, TypeOK
    <2>2. club' \in [Club -> {"none", "PENDING", "ACTIVE", "SUSPENDED"}]
      BY DEF JoinRequest, IInv, TypeOK
    <2>3. activated' \subseteq Person
      BY DEF JoinRequest, IInv, TypeOK
    <2>4. Meeting' \subseteq Person \cup Club
      BY <1>1 DEF Meeting, Meets, IInv, TypeOK, Requests, Idle
    <2>5. QED
      BY <1>1, <2>1, <2>2, <2>3, <2>4 DEF IInv, TypeOK
  <1>6. AloneOnClubs' /\ AloneOnPersons'
    BY Met
  <1>7. SeenAll' /\ InRange' /\ AtMostOne'
    BY <1>1 DEF SeenAll, InRange, AtMostOne, IInv, At
  <1>8. RoleOfNew'
    <2> SUFFICES ASSUME NEW q \in Api, req[q].op \in {"find", "create"}, req[q].new
                 PROVE  req[q].step > 1 /\ rows'[<<req[q].role, req[q].on>>] > 0
      BY <1>1 DEF RoleOfNew
    <2>1. req[q].step > 1 /\ rows[<<req[q].role, req[q].on>>] > 0
      BY DEF RoleOfNew, IInv
    <2>2. <<req[q].role, req[q].on>> \in Rows
      BY PersonType DEF IInv, OnPerson, PersonOps, Rows
    <2>3. QED
      BY <1>3, <2>1, <2>2
  <1>9. NoneYet'
    <2> SUFFICES ASSUME NEW q \in Api, At(q, "create"), req[q].on \notin raced',
                        Table(q) = "resource" \/ (req[q].new /\ Table(q) # "member")
                 PROVE  rows'[Row(q)] = 0
      BY <1>1 DEF NoneYet, At, Table, Row
    <2>1. rows[Row(q)] = 0
      BY DEF NoneYet, IInv
    <2>2. /\ Row(q) \in Rows /\ Row(q)[1] = Table(q) /\ Row(q)[2] = req[q].on
          /\ Table(q) = "user" <=> req[q].step = 1
          /\ Table(q) = req[q].role <=> req[q].step = 2
          /\ Table(q) \in {"user", "profile", "link", "resource", "member", req[q].role}
          /\ Table(q) \notin {"link", "member"} => Row(q) = <<Table(q), req[q].on>>
      BY RowType DEF IInv, At
    <2>3. Row(q) \notin made
      <3>1. CASE Table(q) = "resource"
        BY <2>2, <3>1 DEF Admin
      <3>2. CASE req[q].new /\ Table(q) # "member"
        <4>1. req[q].step > 1 /\ rows[<<req[q].role, req[q].on>>] > 0
          BY <3>2 DEF RoleOfNew, IInv, At
        <4>2. Table(q) # "user" /\ Table(q) # req[q].role
          BY <2>1, <2>2, <4>1, PersonType DEF IInv, OnPerson, PersonOps, At, Roles, Admin
        <4>3. Table(q) \in {"profile", "link", "resource"}
          BY <2>2, <3>2, <4>2
        <4>4. QED
          BY <2>2, <4>3 DEF Admin
      <3>3. QED
        BY <3>1, <3>2
    <2>4. QED
      BY <1>3, <2>1, <2>2, <2>3
  <1>10. OneResourcePerCoach'
    <2>1. raced \subseteq raced'
      OBVIOUS
    <2>2. QED
      BY <1>4, <2>1 DEF OneResourcePerCoach, IInv
  <1>11. NobodyIsLockedOut'
    <2> SUFFICES ASSUME NEW v \in Person, v \notin raced', Known(v)'
                 PROVE  \/ v \in activated' \cup invited
                        \/ \E q \in Api : OnPerson(q) /\ req[q].on = v /\ req[q].new
      BY <1>1 DEF NobodyIsLockedOut, OnPerson
    <2>1. CASE Known(v)
      BY <1>1, <2>1 DEF NobodyIsLockedOut, IInv
    <2>2. CASE ~ Known(v)
      <3>1. <<"user", v>> \in Rows
        BY DEF Rows
      <3>2. <<"user", v>> \in made
        BY <1>3, <2>2, <3>1 DEF Known
      <3>3. v = u
        BY <3>2 DEF Admin
      <3>4. QED
        BY <2>2, <3>3 DEF JoinRequest
    <2>3. QED
      BY <2>1, <2>2
  <1>12. QED
    BY <1>5, <1>6, <1>7, <1>8, <1>9, <1>10, <1>11 DEF IInv

-----------------------------------------------------------------------------
(***************************************************************************)
(* Featuring.                                                              *)
(***************************************************************************)

LEMMA FeatureBeginStep ==
    ASSUME IInv, NEW p \in Api, NEW c \in Club, NEW b \in BOOLEAN, raced' = raced \cup Meeting',
           FeatureBegin(p, c, b)
    PROVE  IInv'
  <1> DEFINE new == [op |-> "feature", on |-> c, seen |-> IF b THEN Unfeatured(c) ELSE {}, to |-> b]
  <1>1. /\ UNCHANGED <<club, featured, rows, activated, invited>>
        /\ req[p] = Idle /\ req' = [req EXCEPT ![p] = new]
    BY DEF FeatureBegin, Begin
  <1>2. new \in Requests
    BY DEF Requests, Unfeatured, IInv, TypeOK
  <1>3. req' \in [Api -> Requests] /\ req'[p] = new /\ \A q \in Api : q # p => req'[q] = req[q]
    BY <1>1, <1>2 DEF IInv, TypeOK
  <1>4. TypeOK'
    <2>1. Meeting' \subseteq Person \cup Club
      BY <1>3 DEF Meeting, Meets, Requests, Idle
    <2>2. QED
      BY <1>1, <1>3, <2>1 DEF IInv, TypeOK
  <1>5. AloneOnClubs' /\ AloneOnPersons'
    BY Met
  <1>6. SeenAll' /\ InRange' /\ RoleOfNew' /\ NoneYet'
    <2>1. SeenAll'
      BY <1>1, <1>3, LeftAlone DEF SeenAll, IInv, At, Unfeatured
    <2>2. InRange' /\ RoleOfNew' /\ NoneYet'
      BY <1>1, <1>3, LeftAlone DEF InRange, RoleOfNew, NoneYet, IInv, At
    <2>3. QED
      BY <2>1, <2>2
  <1>7. AtMostOne' /\ OneResourcePerCoach'
    BY <1>1, NothingMade DEF IInv
  <1>8. NobodyIsLockedOut'
    BY <1>1, <1>3 DEF IInv, NobodyIsLockedOut, Known, OnPerson, PersonOps, Idle
  <1>9. QED
    BY <1>4, <1>5, <1>6, <1>7, <1>8 DEF IInv

\* A club that is not raced has been featured by the one handler at work, which
\* had seen all the others.
LEMMA FeatureCommitStep ==
    ASSUME IInv, NEW p \in Api, FeatureCommit(p), raced' = raced
    PROVE  IInv'
  <1>1. /\ UNCHANGED <<club, rows, activated, invited>>
        /\ At(p, "feature") /\ req' = [req EXCEPT ![p] = Idle]
    BY DEF FeatureCommit, Finish
  <1>2. req[p].on \in Club /\ req[p].seen \subseteq Club /\ req[p].to \in BOOLEAN
    BY <1>1, FeatureType DEF IInv
  <1>3. req' \in [Api -> Requests] /\ req'[p] = Idle /\ \A q \in Api : q # p => req'[q] = req[q]
    BY <1>1 DEF IInv, TypeOK, Requests
  <1>4. TypeOK'
    BY <1>1, <1>2, <1>3 DEF FeatureCommit, IInv, TypeOK
  <1>5. AloneOnClubs' /\ AloneOnPersons'
    <2>1. \A q \in Api : req'[q].op \in {"feature"} \cup PersonOps =>
              /\ req'[q].on = req[q].on
              /\ req'[q].op = "feature" => req[q].op = "feature"
              /\ req'[q].op \in PersonOps => req[q].op \in PersonOps
      BY <1>3 DEF Idle, PersonOps
    <2>2. QED
      BY <2>1, StillAlone DEF IInv
  <1>6. SeenAll'
    <2> SUFFICES ASSUME NEW q \in Api, At(q, "feature")', req'[q].to, req'[q].on \notin raced
                 PROVE  featured' \ raced \subseteq req'[q].seen \cup {req'[q].on}
      BY DEF SeenAll
    <2>1. q # p /\ req'[q] = req[q] /\ At(q, "feature")
      BY <1>3 DEF At, Idle
    <2>2. req[q].on \in raced
      BY <1>1, <2>1 DEF AloneOnClubs, IInv
    <2>3. QED
      BY <2>1, <2>2
  <1>7. AtMostOne'
    <2>1. CASE req[p].on \in raced \/ ~ req[p].to
      <3>1. featured' \ raced \subseteq featured \ raced
        BY <2>1 DEF FeatureCommit
      <3>2. QED
        BY <3>1 DEF AtMostOne, IInv
    <2>2. CASE req[p].on \notin raced /\ req[p].to
      <3>1. featured \ raced \subseteq req[p].seen \cup {req[p].on}
        BY <1>1, <2>2 DEF SeenAll, IInv
      <3>2. featured' \ raced \subseteq {req[p].on}
        BY <2>2, <3>1 DEF FeatureCommit
      <3>3. QED
        BY <3>2 DEF AtMostOne
    <2>3. QED
      BY <2>1, <2>2
  <1>8. InRange' /\ RoleOfNew' /\ NoneYet'
    <2>1. \A q \in Api : q # p => Table(q)' = Table(q) /\ Row(q)' = Row(q)
      BY <1>3 DEF Table, Row
    <2>2. QED
      BY <1>1, <1>3, <2>1 DEF InRange, RoleOfNew, NoneYet, IInv, At, Idle
  <1>9. OneResourcePerCoach'
    BY <1>1 DEF OneResourcePerCoach, IInv
  <1>10. NobodyIsLockedOut'
    <2> SUFFICES ASSUME NEW u \in Person \ raced, Known(u)', u \notin activated' \cup invited'
                 PROVE  \E q \in Api : OnPerson(q)' /\ req'[q].on = u /\ req'[q].new
      BY DEF NobodyIsLockedOut
    <2>1. PICK q \in Api : OnPerson(q) /\ req[q].on = u /\ req[q].new
      BY <1>1 DEF NobodyIsLockedOut, IInv, Known
    <2>2. q # p
      BY <1>1, <2>1 DEF At, OnPerson, PersonOps
    <2>3. QED
      BY <1>3, <2>1, <2>2 DEF OnPerson
  <1>11. QED
    BY <1>4, <1>5, <1>6, <1>7, <1>8, <1>9, <1>10 DEF IInv

-----------------------------------------------------------------------------
(***************************************************************************)
(* Adding people.                                                          *)
(***************************************************************************)

LEMMA AddMemberStep ==
    ASSUME IInv, NEW p \in Api, NEW c \in Club, NEW u \in Person, NEW role \in Roles,
           raced' = raced \cup Meeting', AddMember(p, c, u, role)
    PROVE  IInv'
  <1> DEFINE new == [op |-> "find", on |-> u, club |-> c, role |-> role, step |-> 1, new |-> FALSE]
  <1>1. /\ UNCHANGED <<club, featured, rows, activated, invited>>
        /\ req[p] = Idle /\ req' = [req EXCEPT ![p] = new]
    BY DEF AddMember, Begin
  <1>2. new \in Requests
    BY DEF Requests, PersonOps
  <1>3. req' \in [Api -> Requests] /\ req'[p] = new /\ \A q \in Api : q # p => req'[q] = req[q]
    BY <1>1, <1>2 DEF IInv, TypeOK
  <1>4. TypeOK'
    <2>1. Meeting' \subseteq Person \cup Club
      BY <1>3 DEF Meeting, Meets, Requests, Idle
    <2>2. QED
      BY <1>1, <1>3, <2>1 DEF IInv, TypeOK
  <1>5. AloneOnClubs' /\ AloneOnPersons'
    BY Met
  <1>6. InRange'
    <2>1. 1 \in 1 .. Len(Add(role))
      <3>1. CASE role = "COACH"
        BY <3>1 DEF Add
      <3>2. CASE role # "COACH"
        BY <3>2 DEF Add
      <3>3. QED
        BY <3>1, <3>2
    <2>2. QED
      BY <1>1, <1>3, <2>1, LeftAlone DEF InRange, IInv
  <1>7. SeenAll' /\ RoleOfNew' /\ NoneYet'
    <2>1. SeenAll'
      BY <1>1, <1>3, LeftAlone DEF SeenAll, IInv, At
    <2>2. RoleOfNew'
      BY <1>1, <1>3, LeftAlone DEF RoleOfNew, IInv
    <2>3. NoneYet'
      BY <1>1, <1>3, LeftAlone DEF NoneYet, IInv, At
    <2>4. QED
      BY <2>1, <2>2, <2>3
  <1>8. AtMostOne' /\ OneResourcePerCoach'
    BY <1>1, NothingMade DEF IInv
  <1>9. NobodyIsLockedOut'
    BY <1>1, <1>3 DEF IInv, NobodyIsLockedOut, Known, OnPerson, PersonOps, Idle
  <1>10. QED
    BY <1>4, <1>5, <1>6, <1>7, <1>8, <1>9 DEF IInv

\* Going on after a row was found.
LEMMA OnwardInv ==
    ASSUME IInv, NEW p \in Api, req[p].op \in {"find", "create"}, raced' = raced,
           UNCHANGED <<club, featured, rows, activated, invited>>,
           OnPerson(p), req' \in [Api -> Requests],
           req[p] \in [op: PersonOps, on: Person, club: Club, role: Roles, step: 1 .. 6, new: BOOLEAN],
           \A q \in Api : q # p => req'[q] = req[q],
           \/ req'[p] = Step("find", p, req[p].new) /\ req'[p].step \in 1 .. Len(Add(req[p].role))
           \/ req[p].new /\ req'[p] = Step("invite", p, req[p].new)
           \/ ~ req[p].new /\ req'[p] = Idle
    PROVE  IInv'
  <1>1. TypeOK'
    BY DEF IInv, TypeOK
  <1>2. AloneOnClubs' /\ AloneOnPersons'
    <2>1. \A q \in Api : req'[q].op \in {"feature"} \cup PersonOps =>
              /\ req'[q].on = req[q].on
              /\ req'[q].op = "feature" => req[q].op = "feature"
              /\ req'[q].op \in PersonOps => req[q].op \in PersonOps
      BY DEF OnPerson, PersonOps, Step, Idle
    <2>2. QED
      BY <2>1, StillAlone DEF IInv
  <1>3. InRange' /\ SeenAll' /\ NoneYet'
    <2>1. InRange'
      BY LeftAlone DEF InRange, IInv, Step, Idle
    <2>2. SeenAll'
      BY LeftAlone DEF SeenAll, IInv, At, Step, Idle
    <2>3. NoneYet'
      <3> SUFFICES ASSUME NEW q \in Api, At(q, "create")', req'[q].on \notin raced'
                   PROVE  \/ rows'[Row(q)'] = 0
                          \/ Table(q)' # "resource" /\ (req'[q].new => Table(q)' = "member")
        BY DEF NoneYet
      <3>1. q # p
        BY DEF At, Step, Idle
      <3>2. QED
        BY <3>1, LeftAlone DEF IInv
    <2>4. QED
      BY <2>1, <2>2, <2>3
  <1>4. RoleOfNew'
    BY LeftAlone DEF RoleOfNew, IInv, Step, Idle
  <1>5. AtMostOne' /\ OneResourcePerCoach'
    BY NothingMade DEF IInv
  <1>6. NobodyIsLockedOut'
    BY DEF IInv, NobodyIsLockedOut, Known, OnPerson, PersonOps, Step, Idle
  <1>7. QED
    BY <1>1, <1>2, <1>3, <1>4, <1>5, <1>6 DEF IInv

\* A handler goes to create only the row it has just not found.
LEMMA FindStep ==
    ASSUME IInv, NEW p \in Api, Find(p), raced' = raced
    PROVE  IInv'
  <1>1. At(p, "find") /\ UNCHANGED <<club, featured, rows, activated, invited>>
    BY DEF Find
  <1>2. OnPerson(p) /\ req[p].op \in {"find", "create"}
    BY <1>1 DEF At, OnPerson, PersonOps
  <1>3. /\ req[p] \in [op: PersonOps, on: Person, club: Club, role: Roles, step: 1 .. 6, new: BOOLEAN]
        /\ req \in [Api -> Requests]
    BY <1>2, PersonType DEF IInv, TypeOK
  <1>4. CASE Found(p)
    <2>1. Onward(p, req[p].new)
      BY <1>4 DEF Find
    <2>2. /\ req' \in [Api -> Requests]
          /\ \A q \in Api : q # p => req'[q] = req[q]
          /\ \/ req'[p] = Step("find", p, req[p].new) /\ req'[p].step \in 1 .. Len(Add(req[p].role))
             \/ req[p].new /\ req'[p] = Step("invite", p, req[p].new)
             \/ ~ req[p].new /\ req'[p] = Idle
      BY <1>2, <1>3, <2>1, OnwardType DEF IInv
    <2>3. QED
      BY <1>1, <1>2, <1>3, <2>2, OnwardInv
  <1>5. CASE ~ Found(p)
    <2>1. req' = [req EXCEPT ![p].op = "create"]
      BY <1>5 DEF Find
    <2>2. /\ req' \in [Api -> Requests]
          /\ \A q \in Api : q # p => req'[q] = req[q]
          /\ req'[p] \in [op: PersonOps, on: Person, club: Club, role: Roles, step: 1 .. 6, new: BOOLEAN]
          /\ req'[p].op = "create" /\ req'[p].on = req[p].on /\ req'[p].club = req[p].club
          /\ req'[p].role = req[p].role /\ req'[p].step = req[p].step /\ req'[p].new = req[p].new
      BY <1>3, <2>1 DEF Requests, PersonOps
    <2>3. Table(p)' = Table(p) /\ Row(p)' = Row(p)
      BY <2>2 DEF Table, Row
    <2>4. rows[Row(p)] = 0
      <3>1. Row(p) \in Rows
        BY <1>2, RowType DEF IInv
      <3>2. QED
        BY <1>5, <3>1 DEF Found, IInv, TypeOK
    <2>5. TypeOK'
      BY <1>1, <2>2 DEF IInv, TypeOK
    <2>6. AloneOnClubs' /\ AloneOnPersons'
      <3>1. \A q \in Api : req'[q].op \in {"feature"} \cup PersonOps =>
                /\ req'[q].on = req[q].on
                /\ req'[q].op = "feature" => req[q].op = "feature"
                /\ req'[q].op \in PersonOps => req[q].op \in PersonOps
        BY <1>2, <2>2 DEF OnPerson
      <3>2. QED
        BY <3>1, StillAlone DEF IInv
    <2>7. InRange' /\ RoleOfNew' /\ SeenAll'
      BY <1>1, <1>2, <2>2, LeftAlone DEF InRange, RoleOfNew, SeenAll, IInv, At
    <2>8. NoneYet'
      BY <1>1, <2>2, <2>3, <2>4, LeftAlone DEF NoneYet, IInv, At
    <2>9. AtMostOne' /\ OneResourcePerCoach'
      BY <1>1, NothingMade DEF IInv
    <2>10. NobodyIsLockedOut'
      BY <1>1, <1>2, <2>2 DEF IInv, NobodyIsLockedOut, Known, OnPerson, PersonOps
    <2>11. QED
      BY <2>5, <2>6, <2>7, <2>8, <2>9, <2>10 DEF IInv
  <1>6. QED
    BY <1>4, <1>5

\* A handler that ends leaves what is known of the others.
LEMMA EndsAlone ==
    ASSUME SeenAll, InRange, RoleOfNew, NoneYet, NEW p \in Api,
           UNCHANGED <<featured, rows>>, raced \subseteq raced',
           req'[p] = Idle, \A q \in Api : q # p => req'[q] = req[q]
    PROVE  SeenAll' /\ InRange' /\ RoleOfNew' /\ NoneYet'
  <1>1. SeenAll'
    BY LeftAlone DEF SeenAll, At, Idle
  <1>2. InRange'
    BY LeftAlone DEF InRange, Idle
  <1>3. RoleOfNew'
    BY LeftAlone DEF RoleOfNew, Idle
  <1>4. NoneYet'
    <2> SUFFICES ASSUME NEW q \in Api, At(q, "create")', req'[q].on \notin raced'
                 PROVE  \/ rows'[Row(q)'] = 0
                        \/ Table(q)' # "resource" /\ (req'[q].new => Table(q)' = "member")
      BY DEF NoneYet
    <2>1. q # p
      BY DEF At, Idle
    <2>2. QED
      BY <2>1, LeftAlone
  <1>5. QED
    BY <1>1, <1>2, <1>3, <1>4

\* Nobody is locked out by the end of a handler that made no account, or whose
\* person is raced.
LEMMA EndsKnown ==
    ASSUME NobodyIsLockedOut, NEW p \in Api, raced \subseteq raced',
           UNCHANGED <<rows, activated, invited>>,
           \A q \in Api : q # p => req'[q] = req[q],
           req[p].on \in raced' \/ ~ req[p].new
    PROVE  NobodyIsLockedOut'
  <1> SUFFICES ASSUME NEW u \in Person \ raced', Known(u)', u \notin activated' \cup invited'
               PROVE  \E q \in Api : OnPerson(q)' /\ req'[q].on = u /\ req'[q].new
    BY DEF NobodyIsLockedOut
  <1>1. PICK q \in Api : OnPerson(q) /\ req[q].on = u /\ req[q].new
    BY DEF NobodyIsLockedOut, Known
  <1>2. q # p
    BY <1>1
  <1>3. QED
    BY <1>1, <1>2 DEF OnPerson

\* A unique index refuses nothing to the handler that made the account: it alone
\* makes rows of somebody who is not raced, but for those of a join request.
LEMMA CreateRefused ==
    ASSUME IInv, NEW p \in Api, At(p, "create"), raced' = raced,
           Unique(Table(p)), Table(p) # "member", rows[Row(p)] > 0,
           Finish(p), UNCHANGED <<club, featured, rows, activated, invited>>
    PROVE  IInv'
  <1>1. /\ req[p] \in [op: PersonOps, on: Person, club: Club, role: Roles, step: 1 .. 6, new: BOOLEAN]
        /\ OnPerson(p)
    BY PersonType DEF IInv, At, OnPerson, PersonOps
  <1>2. req' \in [Api -> Requests] /\ req'[p] = Idle /\ \A q \in Api : q # p => req'[q] = req[q]
    BY DEF IInv, TypeOK, Requests, Finish
  <1>3. req[p].on \in raced \/ ~ req[p].new
    BY DEF NoneYet, IInv
  <1>4. TypeOK'
    BY <1>2 DEF IInv, TypeOK
  <1>5. AloneOnClubs' /\ AloneOnPersons'
    <2>1. \A q \in Api : req'[q].op \in {"feature"} \cup PersonOps =>
              /\ req'[q].on = req[q].on
              /\ req'[q].op = "feature" => req[q].op = "feature"
              /\ req'[q].op \in PersonOps => req[q].op \in PersonOps
      BY <1>2 DEF Idle, PersonOps
    <2>2. QED
      BY <2>1, StillAlone DEF IInv
  <1>6. SeenAll' /\ InRange' /\ RoleOfNew' /\ NoneYet'
    BY <1>2, EndsAlone DEF IInv
  <1>7. AtMostOne' /\ OneResourcePerCoach'
    BY NothingMade DEF IInv
  <1>8. NobodyIsLockedOut'
    BY <1>2, <1>3, EndsKnown DEF IInv
  <1>9. QED
    BY <1>4, <1>5, <1>6, <1>7, <1>8 DEF IInv

\* What is made is the handler's own row, and the role with an account.
Made(p) == {Row(p)} \cup (IF Table(p) = "user" THEN {<<req[p].role, req[p].on>>} ELSE {})

LEMMA CreateRows ==
    ASSUME IInv, NEW p \in Api, At(p, "create"),
           rows' = [r \in Rows |-> IF r \notin Made(p) THEN rows[r]
                                  ELSE IF Unique(r[1]) THEN 1 ELSE rows[r] + 1]
    PROVE  /\ rows' \in [Rows -> Nat]
           /\ \A r \in Rows : r[1] # "resource" => rows'[r] <= 1
           /\ \A r \in Rows : rows'[r] >= rows[r]
           /\ \A r \in Rows : r \in Made(p) => rows'[r] > 0
           /\ \A r \in Rows : r \in Made(p) => r[2] = req[p].on
  <1>1. rows \in [Rows -> Nat] /\ \A r \in Rows : r[1] # "resource" => rows[r] <= 1
    BY DEF IInv, TypeOK
  <1>2. \A r \in Rows : rows'[r] = IF r \notin Made(p) THEN rows[r]
                                  ELSE IF r[1] # "resource" THEN 1 ELSE rows[r] + 1
    BY DEF Unique
  <1>3. Row(p)[2] = req[p].on
    BY RowType DEF IInv, At
  <1>4. \A r \in Made(p) : r[2] = req[p].on
    BY <1>3 DEF Made
  <1>5. \A r \in Rows : rows'[r] \in Nat
    BY <1>1, <1>2
  <1>6. QED
    BY <1>1, <1>2, <1>4, <1>5

LEMMA CreateMade ==
    ASSUME IInv, NEW p \in Api, At(p, "create"), raced' = raced,
           UNCHANGED <<club, featured, activated, invited>>,
           rows' = [r \in Rows |-> IF r \notin Made(p) THEN rows[r]
                                  ELSE IF Unique(r[1]) THEN 1 ELSE rows[r] + 1],
           Onward(p, req[p].new \/ Table(p) = "user")
    PROVE  IInv'
  <1> DEFINE b == req[p].new \/ Table(p) = "user"
  <1>1. /\ req[p] \in [op: PersonOps, on: Person, club: Club, role: Roles, step: 1 .. 6, new: BOOLEAN]
        /\ OnPerson(p) /\ req[p].op \in {"find", "create"}
    BY PersonType DEF IInv, At, OnPerson, PersonOps
  <1>2. b \in BOOLEAN
    BY <1>1
  <1>3. /\ req' \in [Api -> Requests]
        /\ \A q \in Api : q # p => req'[q] = req[q]
        /\ \/ req'[p] = Step("find", p, b) /\ req'[p].step \in 1 .. Len(Add(req[p].role))
           \/ b /\ req'[p] = Step("invite", p, b)
           \/ ~ b /\ req'[p] = Idle
    BY <1>1, <1>2, OnwardType DEF IInv
  <1>4. /\ rows' \in [Rows -> Nat]
        /\ \A r \in Rows : r[1] # "resource" => rows'[r] <= 1
        /\ \A r \in Rows : rows'[r] >= rows[r]
        /\ \A r \in Rows : r \in Made(p) => rows'[r] > 0
        /\ \A r \in Rows : r \in Made(p) => r[2] = req[p].on
    BY CreateRows
  <1>5. TypeOK'
    BY <1>3, <1>4 DEF IInv, TypeOK
  <1>6. AloneOnClubs' /\ AloneOnPersons'
    <2>1. \A q \in Api : req'[q].op \in {"feature"} \cup PersonOps =>
              /\ req'[q].on = req[q].on
              /\ req'[q].op = "feature" => req[q].op = "feature"
              /\ req'[q].op \in PersonOps => req[q].op \in PersonOps
      BY <1>1, <1>3 DEF OnPerson, PersonOps, Step, Idle
    <2>2. QED
      BY <2>1, StillAlone DEF IInv
  <1>7. InRange'
    BY <1>3 DEF InRange, IInv, Step, Idle
  <1>8. SeenAll' /\ AtMostOne'
    BY <1>3 DEF SeenAll, AtMostOne, IInv, At, Step, Idle
  <1>9. RoleOfNew'
    <2> SUFFICES ASSUME NEW q \in Api, req'[q].op \in {"find", "create"}, req'[q].new
                 PROVE  req'[q].step > 1 /\ rows'[<<req'[q].role, req'[q].on>>] > 0
      BY DEF RoleOfNew
    <2>1. CASE q # p
      <3>1. req'[q] = req[q] /\ req[q].step > 1 /\ rows[<<req[q].role, req[q].on>>] > 0
        BY <1>3, <2>1 DEF RoleOfNew, IInv
      <3>2. <<req[q].role, req[q].on>> \in Rows
        BY <3>1, PersonType DEF IInv, OnPerson, PersonOps, Rows
      <3>3. rows[<<req[q].role, req[q].on>>] \in Nat /\ rows'[<<req[q].role, req[q].on>>] \in Nat
        BY <1>4, <3>2 DEF IInv, TypeOK
      <3>4. QED
        BY <1>4, <3>1, <3>2, <3>3
    <2>2. CASE q = p
      <3>1. req'[p] = Step("find", p, b) /\ b
        <4>1. req'[p] # Step("invite", p, b)
          BY <2>2 DEF Step
        <4>2. req'[p] # Idle
          BY <2>2 DEF Idle
        <4>3. req'[p] = Step("find", p, b)
          BY <1>3, <4>1, <4>2
        <4>4. "find" \in PersonOps
          BY DEF PersonOps
        <4>5. req'[p].new = b
          BY StepFields, <4>3, <4>4, <1>2
        <4>6. QED
          BY <2>2, <4>3, <4>5
      <3>2. req'[p].step > 1 /\ req'[p].role = req[p].role /\ req'[p].on = req[p].on
        BY <1>1, <3>1 DEF Step
      <3>3. <<req[p].role, req[p].on>> \in Rows
        BY <1>1 DEF Rows
      <3>4. rows[<<req[p].role, req[p].on>>] \in Nat /\ rows'[<<req[p].role, req[p].on>>] \in Nat
        BY <1>4, <3>3 DEF IInv, TypeOK
      <3>5. CASE Table(p) = "user"
        BY <1>4, <2>2, <3>2, <3>3, <3>5 DEF Made
      <3>6. CASE req[p].new
        <4>1. rows[<<req[p].role, req[p].on>>] > 0
          BY <1>1, <3>6 DEF RoleOfNew, IInv
        <4>2. QED
          BY <1>4, <2>2, <3>2, <3>3, <3>4, <4>1
      <3>7. QED
        BY <3>1, <3>5, <3>6
    <2>3. QED
      BY <2>1, <2>2
  <1>10. NoneYet'
    <2> SUFFICES ASSUME NEW q \in Api, At(q, "create")', req'[q].on \notin raced,
                        Table(q)' = "resource" \/ (req'[q].new /\ Table(q)' # "member")
                 PROVE  rows'[Row(q)'] = 0
      BY DEF NoneYet
    <2>1. q # p
      BY <1>3 DEF At, Step, Idle
    <2>2. req'[q] = req[q] /\ Table(q)' = Table(q) /\ Row(q)' = Row(q)
      BY <1>3, <2>1 DEF Table, Row
    <2>3. rows[Row(q)] = 0
      BY <2>2 DEF NoneYet, IInv, At
    <2>4. Row(q) \in Rows /\ Row(q)[2] = req[q].on
      BY <2>2, RowType DEF IInv, At
    <2>5. req[q].on # req[p].on
      BY <1>1, <2>1, <2>2 DEF AloneOnPersons, IInv, OnPerson, PersonOps, At
    <2>6. Row(q) \notin Made(p)
      BY <1>4, <2>4, <2>5
    <2>7. QED
      BY <2>2, <2>3, <2>4, <2>6
  <1>11. OneResourcePerCoach'
    <2> SUFFICES ASSUME NEW u \in Person, u \notin raced
                 PROVE  rows'[<<"resource", u>>] <= 1
      BY DEF OneResourcePerCoach
    <2>1. <<"resource", u>> \in Rows
      BY DEF Rows
    <2>2. rows[<<"resource", u>>] <= 1 /\ rows[<<"resource", u>>] \in Nat
      BY <2>1 DEF OneResourcePerCoach, IInv, TypeOK
    <2>3. CASE <<"resource", u>> \notin Made(p)
      BY <2>1, <2>2, <2>3
    <2>4. CASE <<"resource", u>> \in Made(p)
      <3>1. <<"resource", u>> = Row(p)
        BY <1>1, <2>4 DEF Made, Roles, Admin
      <3>2. Table(p) = "resource" /\ req[p].on = u
        BY <1>1, <3>1, RowType DEF IInv
      <3>3. rows[Row(p)] = 0
        BY <3>2 DEF NoneYet, IInv
      <3>4. rows'[<<"resource", u>>] = 1
        BY <2>1, <2>4, <3>1, <3>3 DEF Unique
      <3>5. QED
        BY <3>4
    <2>5. QED
      BY <2>3, <2>4
  <1>12. NobodyIsLockedOut'
    <2> SUFFICES ASSUME NEW u \in Person \ raced, Known(u)', u \notin activated \cup invited
                 PROVE  \E q \in Api : OnPerson(q)' /\ req'[q].on = u /\ req'[q].new
      BY DEF NobodyIsLockedOut
    <2>1. b => OnPerson(p)' /\ req'[p].on = req[p].on /\ req'[p].new
      <3>1. CASE req'[p] = Step("find", p, b)
        BY <1>2, <3>1, StepFields DEF PersonOps
      <3>2. CASE req'[p] = Step("invite", p, b)
        BY <1>2, <3>2, StepFields DEF PersonOps
      <3>3. QED
        BY <1>3, <3>1, <3>2
    <2>2. CASE Known(u)
      <3>1. PICK q \in Api : OnPerson(q) /\ req[q].on = u /\ req[q].new
        BY <2>2 DEF NobodyIsLockedOut, IInv
      <3>2. CASE q = p
        BY <2>1, <3>1, <3>2
      <3>3. CASE q # p
        BY <1>3, <3>1, <3>3 DEF OnPerson
      <3>4. QED
        BY <3>2, <3>3
    <2>3. CASE ~ Known(u)
      <3>1. <<"user", u>> \in Rows
        BY DEF Rows
      <3>2. <<"user", u>> \in Made(p)
        BY <2>3, <3>1 DEF Known
      <3>3. <<"user", u>> = Row(p)
        BY <1>1, <3>2 DEF Made, Roles, Admin
      <3>4. Table(p) = "user" /\ req[p].on = u
        BY <1>1, <3>3, RowType DEF IInv
      <3>5. QED
        BY <2>1, <3>4
    <2>4. QED
      BY <2>2, <2>3
  <1>13. QED
    BY <1>5, <1>6, <1>7, <1>8, <1>9, <1>10, <1>11, <1>12 DEF IInv

LEMMA CreateStep ==
    ASSUME IInv, NEW p \in Api, Create(p), raced' = raced
    PROVE  IInv'
  <1>1. At(p, "create") /\ UNCHANGED <<club, featured, activated, invited>>
    BY DEF Create
  <1>2. CASE Unique(Table(p)) /\ Table(p) # "member" /\ rows[Row(p)] > 0
    <2>1. Finish(p) /\ UNCHANGED rows
      BY <1>2 DEF Create
    <2>2. QED
      BY <1>1, <1>2, <2>1, CreateRefused
  <1>3. CASE ~ (Unique(Table(p)) /\ Table(p) # "member" /\ rows[Row(p)] > 0)
    <2>1. /\ rows' = [r \in Rows |-> IF r \notin Made(p) THEN rows[r]
                                    ELSE IF Unique(r[1]) THEN 1 ELSE rows[r] + 1]
          /\ Onward(p, req[p].new \/ Table(p) = "user")
      BY <1>3 DEF Create, Made
    <2>2. QED
      BY <1>1, <2>1, CreateMade
  <1>4. QED
    BY <1>2, <1>3

\* The link is made for the person whose account is new.
LEMMA InviteStep ==
    ASSUME IInv, NEW p \in Api, Invite(p), raced' = raced
    PROVE  IInv'
  <1>1. /\ UNCHANGED <<club, featured, rows, activated>> /\ At(p, "invite") /\ Finish(p)
        /\ invited' = IF req[p].new THEN invited \cup {req[p].on} ELSE invited
    BY DEF Invite, ToInvite
  <1>2. req[p] \in [op: PersonOps, on: Person, club: Club, role: Roles, step: 1 .. 6, new: BOOLEAN]
    BY <1>1, PersonType DEF IInv, At, OnPerson, PersonOps
  <1>3. req' \in [Api -> Requests] /\ req'[p] = Idle /\ \A q \in Api : q # p => req'[q] = req[q]
    BY <1>1 DEF IInv, TypeOK, Requests, Finish
  <1>4. TypeOK'
    BY <1>1, <1>2, <1>3 DEF IInv, TypeOK
  <1>5. AloneOnClubs' /\ AloneOnPersons'
    <2>1. \A q \in Api : req'[q].op \in {"feature"} \cup PersonOps =>
              /\ req'[q].on = req[q].on
              /\ req'[q].op = "feature" => req[q].op = "feature"
              /\ req'[q].op \in PersonOps => req[q].op \in PersonOps
      BY <1>3 DEF Idle, PersonOps
    <2>2. QED
      BY <2>1, StillAlone DEF IInv
  <1>6. SeenAll' /\ InRange' /\ RoleOfNew' /\ NoneYet'
    BY <1>1, <1>3, EndsAlone DEF IInv
  <1>7. AtMostOne' /\ OneResourcePerCoach'
    BY <1>1, NothingMade DEF IInv
  <1>8. NobodyIsLockedOut'
    <2> SUFFICES ASSUME NEW u \in Person \ raced, Known(u)', u \notin activated' \cup invited'
                 PROVE  \E q \in Api : OnPerson(q)' /\ req'[q].on = u /\ req'[q].new
      BY DEF NobodyIsLockedOut
    <2>1. PICK q \in Api : OnPerson(q) /\ req[q].on = u /\ req[q].new
      BY <1>1 DEF NobodyIsLockedOut, Known, IInv
    <2>2. q # p
      BY <1>1, <2>1
    <2>3. QED
      BY <1>3, <2>1, <2>2 DEF OnPerson
  <1>9. QED
    BY <1>4, <1>5, <1>6, <1>7, <1>8 DEF IInv

\* Whoever a dead handler was adding is raced from then on.
LEMMA CrashStep ==
    ASSUME IInv, NEW p \in Api, Crash(p), raced' = raced \cup Died(p)
    PROVE  IInv'
  <1>1. UNCHANGED <<club, featured, rows, activated, invited>> /\ req[p] # Idle /\ Finish(p)
    BY DEF Crash
  <1>2. req' \in [Api -> Requests] /\ req'[p] = Idle /\ \A q \in Api : q # p => req'[q] = req[q]
    BY <1>1 DEF IInv, TypeOK, Requests, Finish
  <1>3. \/ At(p, "feature") /\ raced' = raced
        \/ OnPerson(p) /\ raced' = raced \cup {req[p].on} /\ req[p].on \in Person
    <2>1. CASE At(p, "feature")
      BY <2>1 DEF Died
    <2>2. CASE ~ At(p, "feature")
      <3>1. OnPerson(p)
        BY <1>1, <2>2 DEF IInv, TypeOK, Requests, At, OnPerson
      <3>2. QED
        BY <2>2, <3>1, PersonType DEF Died, IInv
    <2>3. QED
      BY <2>1, <2>2
  <1>4. TypeOK'
    BY <1>1, <1>2, <1>3 DEF IInv, TypeOK
  <1>5. AloneOnClubs' /\ AloneOnPersons'
    <2>1. \A q \in Api : req'[q].op \in {"feature"} \cup PersonOps =>
              /\ req'[q].on = req[q].on
              /\ req'[q].op = "feature" => req[q].op = "feature"
              /\ req'[q].op \in PersonOps => req[q].op \in PersonOps
      BY <1>2 DEF Idle, PersonOps
    <2>2. QED
      BY <1>3, <2>1, StillAlone DEF IInv
  <1>6. SeenAll' /\ InRange' /\ RoleOfNew' /\ NoneYet'
    BY <1>1, <1>2, <1>3, EndsAlone DEF IInv
  <1>7. AtMostOne' /\ OneResourcePerCoach'
    BY <1>1, <1>3, NothingMade DEF IInv
  <1>8. NobodyIsLockedOut'
    <2>1. CASE OnPerson(p) /\ req[p].on \in raced'
      BY <1>1, <1>2, <1>3, <2>1, EndsKnown DEF IInv
    <2>2. CASE At(p, "feature") /\ raced' = raced
      <3> SUFFICES ASSUME NEW u \in Person \ raced, Known(u)', u \notin activated' \cup invited'
                   PROVE  \E q \in Api : OnPerson(q)' /\ req'[q].on = u /\ req'[q].new
        BY <2>2 DEF NobodyIsLockedOut
      <3>1. PICK q \in Api : OnPerson(q) /\ req[q].on = u /\ req[q].new
        BY <1>1 DEF NobodyIsLockedOut, Known, IInv
      <3>2. q # p
        BY <2>2, <3>1 DEF OnPerson, At, PersonOps
      <3>3. QED
        BY <1>2, <3>1, <3>2 DEF OnPerson
    <2>3. QED
      BY <1>3, <2>1, <2>2
  <1>9. QED
    BY <1>4, <1>5, <1>6, <1>7, <1>8 DEF IInv

LEMMA ActivateStep ==
    ASSUME IInv, NEW u \in Person, Activate(u), raced' = raced
    PROVE  IInv'
  <1>1. /\ UNCHANGED <<club, featured, rows, invited, req, raced>>
        /\ activated' = activated \cup {u}
    BY DEF Activate
  <1>2. TypeOK'
    BY <1>1 DEF IInv, TypeOK
  <1>3. AloneOnClubs' /\ AloneOnPersons' /\ AtMostOne' /\ OneResourcePerCoach'
    BY <1>1 DEF IInv, AloneOnClubs, AloneOnPersons, AtMostOne, OneResourcePerCoach, At, OnPerson
  <1>4. SeenAll' /\ InRange' /\ RoleOfNew' /\ NoneYet'
    BY <1>1, LeftAlone DEF SeenAll, InRange, RoleOfNew, NoneYet, IInv
  <1>5. NobodyIsLockedOut'
    BY <1>1 DEF IInv, NobodyIsLockedOut, Known, OnPerson
  <1>6. QED
    BY <1>2, <1>3, <1>4, <1>5 DEF IInv

LEMMA StutterStep == ASSUME IInv, UNCHANGED vars PROVE IInv'
  <1>1. UNCHANGED <<club, featured, rows, activated, invited, req, raced>>
    BY DEF vars
  <1>2. TypeOK'
    BY <1>1 DEF IInv, TypeOK
  <1>3. AloneOnClubs' /\ AloneOnPersons' /\ AtMostOne' /\ OneResourcePerCoach'
    BY <1>1 DEF IInv, AloneOnClubs, AloneOnPersons, AtMostOne, OneResourcePerCoach, At, OnPerson
  <1>4. SeenAll' /\ InRange' /\ RoleOfNew' /\ NoneYet'
    BY <1>1, LeftAlone DEF SeenAll, InRange, RoleOfNew, NoneYet, IInv
  <1>5. NobodyIsLockedOut'
    BY <1>1 DEF IInv, NobodyIsLockedOut, Known, OnPerson
  <1>6. QED
    BY <1>2, <1>3, <1>4, <1>5 DEF IInv

-----------------------------------------------------------------------------

LEMMA NextInv == IInv /\ [Next]_vars => IInv'
  <1> SUFFICES ASSUME IInv, [Next]_vars PROVE IInv'
    OBVIOUS
  <1>1. CASE \E p \in Api : Arrive(p) /\ raced' = raced \cup Meeting'
    <2>1. PICK p \in Api : Arrive(p) /\ raced' = raced \cup Meeting'
      BY <1>1
    <2>2. CASE \E c \in Club : CreateClub(p, c)
      BY <2>1, <2>2, ClubStep
    <2>3. CASE \E c \in Club, u \in Person : JoinRequest(p, c, u)
      BY <2>1, <2>3, JoinStep
    <2>4. CASE \E c \in Club, s \in {"ACTIVE", "SUSPENDED"} : SetStatus(p, c, s)
      BY <2>1, <2>4, ClubStep
    <2>5. CASE \E c \in Club, b \in BOOLEAN : FeatureBegin(p, c, b)
      BY <2>1, <2>5, FeatureBeginStep
    <2>6. CASE \E c \in Club, u \in Person, role \in Roles : AddMember(p, c, u, role)
      BY <2>1, <2>6, AddMemberStep
    <2>7. QED
      BY <2>1, <2>2, <2>3, <2>4, <2>5, <2>6 DEF Arrive
  <1>2. CASE \E p \in Api : Proceed(p) /\ UNCHANGED raced
    BY <1>2, FeatureCommitStep, FindStep, CreateStep, InviteStep DEF Proceed
  <1>3. CASE \E p \in Api : Crash(p) /\ raced' = raced \cup Died(p)
    BY <1>3, CrashStep
  <1>4. CASE \E u \in Person : Activate(u) /\ UNCHANGED raced
    BY <1>4, ActivateStep
  <1>5. CASE UNCHANGED vars
    BY <1>5, StutterStep
  <1>6. QED
    BY <1>1, <1>2, <1>3, <1>4, <1>5 DEF Next

LEMMA Invariance == Spec => []IInv
  BY InitInv, NextInv, PTL DEF Spec

\* Every reachable state of the clubs and their people is well typed.
THEOREM TypeCorrect == Spec => []TypeOK
  <1>1. IInv => TypeOK
    BY DEF IInv
  <1>2. QED
    BY Invariance, <1>1, PTL

\* One club at most is featured, but for clubs that two requests of a platform
\* admin featured at the same time.
THEOREM FeaturedAlone == Spec => []OneFeatured
  <1>1. IInv => OneFeatured
    <2> SUFFICES ASSUME AtMostOne PROVE OneFeatured
      BY DEF IInv
    <2>1. CASE featured \ raced = {}
      BY <2>1, FS_EmptySet DEF OneFeatured
    <2>2. CASE featured \ raced # {}
      <3>1. PICK c : featured \ raced = {c}
        BY <2>2 DEF AtMostOne
      <3>2. Cardinality(featured \ raced) = 1
        BY <3>1, FS_Singleton
      <3>3. QED
        BY <3>2 DEF OneFeatured
    <2>3. QED
      BY <2>1, <2>2
  <1>2. QED
    BY Invariance, <1>1, PTL

\* A coach whom no two requests add at the same time has one shared resource at
\* most, of whatever clubs the coach is.
THEOREM ResourceIsShared == Spec => []OneResourcePerCoach
  <1>1. IInv => OneResourcePerCoach
    BY DEF IInv
  <1>2. QED
    BY Invariance, <1>1, PTL

\* An account that adding its person to a club has made has a password or a link
\* to choose one, or the handler that made it is about to make the link.
THEOREM WayIn == Spec => []NobodyIsLockedOut
  <1>1. IInv => NobodyIsLockedOut
    BY DEF IInv
  <1>2. QED
    BY Invariance, <1>1, PTL
===============================================================================
