---------------------------------- MODULE Team ----------------------------------
(***************************************************************************)
(* Clubs and their people: ClubsService's onboarding (joinRequest,         *)
(* createClubAsPlatform, setStatus), the featured club, and the adding of  *)
(* admins, staff and coaches.                                              *)
(*                                                                         *)
(* Adding somebody is a row of find-or-create steps on the tables in Add,  *)
(* outside of any transaction.  A row is <<table, person>> or              *)
(* <<table, person, club>>, and rows[r] is how many of it there are: every *)
(* table but that of the coaches' shared resources has a unique index.     *)
(***************************************************************************)
EXTENDS Naturals, Sequences, FiniteSets

CONSTANTS
    Club,
    Person,    \* e-mail addresses
    Api,       \* request handlers in flight at the same time
    Crashes    \* whether a handler may die between two steps

ASSUME ConstantsAssumption == Crashes \in BOOLEAN

Admin == "CLUB_ADMIN"

Roles == {"CLUB_STAFF", "COACH", Admin}

\* The tables addCoach, addStaff and addClubAdmin go through; a role is a table
\* of the UserRole rows with it.
Add(role) ==
    IF role = "COACH" THEN <<"user", role, "profile", "link", "resource">>
    ELSE <<"user", role, "member">>

Rows == ({"user", "profile", "resource"} \cup Roles) \X Person
          \cup {"link", "member"} \X Person \X Club

VARIABLES
    club,       \* Club.status, "none" before the row exists
    featured,   \* clubs with isFeatured
    rows,
    activated,  \* persons with a password
    invited,    \* persons an invite link was made for
    req,        \* what each handler in flight has read and will do next
    raced       \* persons and clubs two handlers worked on at the same time

vars == <<club, featured, rows, activated, invited, req, raced>>

Idle == [op |-> "idle"]

PersonOps == {"find", "create", "invite"}

Requests ==
    [op: PersonOps, on: Person, club: Club, role: Roles,
     step: 1 .. 6, new: BOOLEAN]
      \cup [op: {"feature"}, on: Club, seen: SUBSET Club, to: BOOLEAN]
      \cup {Idle}

TypeOK ==
    /\ club \in [Club -> {"none", "PENDING", "ACTIVE", "SUSPENDED"}]
    /\ featured \subseteq Club
    /\ rows \in [Rows -> Nat]
    /\ \A r \in Rows : r[1] # "resource" => rows[r] <= 1
    /\ activated \subseteq Person /\ invited \subseteq Person
    /\ req \in [Api -> Requests]
    /\ raced \subseteq Person \cup Club

Init ==
    /\ club = [c \in Club |-> "none"]
    /\ featured = {}
    /\ rows = [r \in Rows |-> 0]
    /\ activated = {} /\ invited = {}
    /\ req = [p \in Api |-> Idle]
    /\ raced = {}

Begin(p, next) == req[p] = Idle /\ req' = [req EXCEPT ![p] = next]
At(p, op) == req[p].op = op
OnPerson(p) == req[p].op \in PersonOps
Finish(p) == req' = [req EXCEPT ![p] = Idle]

Known(u) == rows[<<"user", u>>] > 0

-----------------------------------------------------------------------------
(***************************************************************************)
(* Clubs.                                                                  *)
(***************************************************************************)

\* A pending club with its owner for admin, the owner's account made with a
\* password if there is none, in one transaction.
JoinRequest(p, c, u) ==
    /\ req[p] = Idle
    /\ club[c] = "none"
    /\ club' = [club EXCEPT ![c] = "PENDING"]
    /\ rows' = [rows EXCEPT ![<<"user", u>>] = 1, ![<<Admin, u>>] = 1,
                            ![<<"member", u, c>>] = 1]
    /\ activated' = IF Known(u) THEN activated ELSE activated \cup {u}
    /\ UNCHANGED <<featured, invited, req>>

CreateClub(p, c) ==
    /\ req[p] = Idle
    /\ club[c] = "none"
    /\ club' = [club EXCEPT ![c] = "ACTIVE"]
    /\ UNCHANGED <<featured, rows, activated, invited, req>>

SetStatus(p, c, status) ==
    /\ req[p] = Idle
    /\ club[c] # "none"
    /\ club' = [club EXCEPT ![c] = status]
    /\ UNCHANGED <<featured, rows, activated, invited, req>>

\* Mutant: the club featured before is left alone.
Unfeatured_None(c) == {}

\* The rows the UPDATE of the other clubs finds.
Unfeatured(c) == featured \ {c}

\* Two statements, of which others see nothing before both are done.
FeatureBegin(p, c, b) ==
    /\ club[c] # "none"
    /\ Begin(p, [op |-> "feature", on |-> c, seen |-> IF b THEN Unfeatured(c) ELSE {}, to |-> b])
    /\ UNCHANGED <<club, featured, rows, activated, invited>>

FeatureCommit(p) ==
    /\ At(p, "feature")
    /\ featured' = IF req[p].to THEN (featured \ req[p].seen) \cup {req[p].on}
                   ELSE featured \ {req[p].on}
    /\ Finish(p)
    /\ UNCHANGED <<club, rows, activated, invited>>

-----------------------------------------------------------------------------
(***************************************************************************)
(* People.                                                                 *)
(***************************************************************************)

AddMember(p, c, u, role) ==
    /\ club[c] # "none"
    /\ Begin(p, [op |-> "find", on |-> u, club |-> c, role |-> role, step |-> 1, new |-> FALSE])
    /\ UNCHANGED <<club, featured, rows, activated, invited>>

Table(p) == Add(req[p].role)[req[p].step]

Row(p) == IF Table(p) \in {"link", "member"} THEN <<Table(p), req[p].on, req[p].club>>
          ELSE <<Table(p), req[p].on>>

Step(op, p, new) ==
    [op |-> op, on |-> req[p].on, club |-> req[p].club, role |-> req[p].role,
     step |-> req[p].step + 1, new |-> new]

\* The next table; after the last one the new accounts are invited.
Onward(p, new) ==
    req' = [req EXCEPT ![p] =
        IF req[p].step < Len(Add(req[p].role)) THEN Step("find", p, new)
        ELSE IF new THEN Step("invite", p, new) ELSE Idle]

\* Mutant: the resource is looked for among those of the club, where a coach's is not.
Found_InTheClub(p) == rows[Row(p)] > 0 /\ Table(p) # "resource"

Found(p) == rows[Row(p)] > 0

Find(p) ==
    /\ At(p, "find")
    /\ IF Found(p) THEN Onward(p, req[p].new)
       ELSE req' = [req EXCEPT ![p].op = "create"]
    /\ UNCHANGED <<club, featured, rows, activated, invited>>

\* Mutant: the tables without the unique index on the link of coach and club.
Unique_NoLinks(table) == table \notin {"resource", "link"}

Unique(table) == table # "resource"

\* A new account is made with its role in one statement, and a membership by an
\* upsert.  A unique index refuses what another handler made in the meantime,
\* and that is the end of this one.
Create(p) ==
    /\ At(p, "create")
    /\ IF Unique(Table(p)) /\ Table(p) # "member" /\ rows[Row(p)] > 0
         THEN Finish(p) /\ UNCHANGED rows
         ELSE LET made == {Row(p)} \cup (IF Table(p) = "user" THEN {<<req[p].role, req[p].on>>} ELSE {})
              IN  /\ rows' = [r \in Rows |-> IF r \notin made THEN rows[r]
                                             ELSE IF Unique(r[1]) THEN 1 ELSE rows[r] + 1]
                  /\ Onward(p, req[p].new \/ Table(p) = "user")
    /\ UNCHANGED <<club, featured, activated, invited>>

\* Mutant: whoever has just been added is taken for known.
ToInvite_Not(p) == FALSE

ToInvite(p) == req[p].new

\* inviteResult: only who was not known gets a link, and a password with it.
Invite(p) ==
    /\ At(p, "invite")
    /\ invited' = IF ToInvite(p) THEN invited \cup {req[p].on} ELSE invited
    /\ Finish(p)
    /\ UNCHANGED <<club, featured, rows, activated>>

Activate(u) ==
    /\ u \in invited
    /\ activated' = activated \cup {u}
    /\ UNCHANGED <<club, featured, rows, invited, req>>

Crash(p) ==
    /\ Crashes
    /\ req[p] # Idle
    /\ Finish(p)
    /\ UNCHANGED <<club, featured, rows, activated, invited>>

-----------------------------------------------------------------------------

Arrive(p) ==
    \/ \E c \in Club : CreateClub(p, c)
    \/ \E c \in Club, u \in Person : JoinRequest(p, c, u)
    \/ \E c \in Club, s \in {"ACTIVE", "SUSPENDED"} : SetStatus(p, c, s)
    \/ \E c \in Club, b \in BOOLEAN : FeatureBegin(p, c, b)
    \/ \E c \in Club, u \in Person, role \in Roles : AddMember(p, c, u, role)

Proceed(p) == FeatureCommit(p) \/ Find(p) \/ Create(p) \/ Invite(p)

\* Two handlers add the same person, or feature clubs; or one died half way.
Meets(p, q) ==
    /\ req[p] # Idle /\ req[q] # Idle
    /\ At(p, "feature") <=> At(q, "feature")
    /\ At(p, "feature") \/ req[p].on = req[q].on

Meeting == {req[p].on : p \in {q \in Api : \E o \in Api \ {q} : Meets(q, o)}}

Died(p) == IF At(p, "feature") THEN {} ELSE {req[p].on}

Next ==
    \/ \E p \in Api : Arrive(p) /\ raced' = raced \cup Meeting'
    \/ \E p \in Api : Proceed(p) /\ UNCHANGED raced
    \/ \E p \in Api : Crash(p) /\ raced' = raced \cup Died(p)
    \/ \E u \in Person : Activate(u) /\ UNCHANGED raced

Spec == Init /\ [][Next]_vars

-----------------------------------------------------------------------------

\* "Exactly one club (or none) can be featured at a time": of the clubs that
\* were not featured by two handlers at once.
OneFeatured == Cardinality(featured \ raced) <= 1

\* A coach has one shared resource, or none yet, however many clubs add them: it
\* is what keeps the coach from being booked twice.
OneResourcePerCoach ==
    \A u \in Person \ raced : rows[<<"resource", u>>] <= 1

\* Whoever was given an account has a way to choose its password: the handler
\* that made the account makes the link.
NobodyIsLockedOut ==
    \A u \in Person \ raced :
        Known(u) => \/ u \in activated \cup invited
                    \/ \E p \in Api : OnPerson(p) /\ req[p].on = u /\ req[p].new
===============================================================================
