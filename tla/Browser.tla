--------------------------------- MODULE Browser ---------------------------------
(***************************************************************************)
(* A browser on the web application: the session cookie, the page, and the *)
(* cache of answers its components share (TanStack Query), against an API  *)
(* that others write to as well.                                           *)
(*                                                                         *)
(* Queries meet in "me" alone, so a behaviour follows "me" and the keys in *)
(* watched.  An answer is the account it was given to and the time at      *)
(* which what it shows was last written; the answer of a fetch under way   *)
(* is that of the moment it was sent, or of the moment it arrives.         *)
(***************************************************************************)
EXTENDS Pages, Naturals

CONSTANTS
    Account,
    MaxWrites,  \* bound: writes in a behaviour
    Failures    \* whether requests fail and answers get lost

ASSUME ConstantsAssumption == MaxWrites \in Nat /\ Failures \in BOOLEAN

VARIABLES
    session,  \* the account of the cookie, "none" without one
    page,
    going,    \* the page a visitor who has just signed in is about to be sent to
    watched,  \* the keys this behaviour follows
    entry,    \* the cache: what is held for a key, and the fetch for it
    clock,    \* writes so far
    written,  \* when what a key shows was last written
    saving,   \* the request of a mutation under way
    told,     \* for each key, the last write the user was told has succeeded and should see
    missed,   \* keys invalidated while a fetch was under way that was not sent again
    switched  \* whether a session ended, or another began, without a sign-out

vars == <<session, page, going, watched, entry, clock, written, saving, told, missed, switched>>

Nothing == [is |-> "nothing"]
Answer(by, at) == [is |-> "answer", by |-> by, at |-> at]

Empty == [status |-> "pending", data |-> Nothing, fresh |-> FALSE, fetch |-> Nothing]

-----------------------------------------------------------------------------
(***************************************************************************)
(* The cache.                                                              *)
(***************************************************************************)

Mounted(e, p) ==
    watched \cap UNION {c.always \cup (IF e["me"].status = "success" THEN c.signedIn ELSE {})
                          : c \in Parts(p)}

Active == Mounted(entry, page)

Loading(k) == entry[k].fetch # Nothing

\* A fetch is sent with the cookie of the moment.
Sent(x, k, who) ==
    [x EXCEPT !.fetch = Answer(who, written[k]),
              !.status = IF x.data = Nothing THEN "pending" ELSE @]

\* Keys that a component has just begun to observe are fetched when there is no
\* answer, or an old one, and no fetch is under way.
Observed(e, keys, who) ==
    [k \in watched |->
        IF k \in keys /\ e[k].fetch = Nothing /\ (e[k].data = Nothing \/ ~e[k].fresh)
        THEN Sent(e[k], k, who) ELSE e[k]]

\* A page change mounts all components of the page.
Shown(e, p, who) == Observed(e, Mounted(e, p), who)

\* An invalidated key that is shown is fetched anew; but a first fetch under way
\* is left to finish, and so is that of a key nobody observes.
Refetched(k) == k \in Active /\ (~Loading(k) \/ entry[k].data # Nothing)

Invalidated(keys, who) ==
    [k \in watched |->
        IF k \notin keys THEN entry[k]
        ELSE LET old == [entry[k] EXCEPT !.fresh = FALSE]
             IN  IF Refetched(k) THEN Sent(old, k, who) ELSE old]

Missed(keys) == {k \in keys \cap watched : Loading(k) /\ ~Refetched(k)}

\* A fetch that starts again, or ends, makes up for what an earlier one missed.
StillMissed == {k \in missed : entry'[k].fetch = entry[k].fetch \/ entry'[k].fetch = Nothing}

-----------------------------------------------------------------------------

Init ==
    /\ session \in Account \cup {"none"}
    /\ page = "home" /\ going = "nowhere"
    /\ watched \in {{"me", k} : k \in Key}
    /\ entry = [k \in watched |->
          IF k = "me" /\ session # "none"
          THEN [Empty EXCEPT !.status = "success", !.data = Answer(session, 0), !.fresh = TRUE]
          ELSE IF k = "me" THEN [Empty EXCEPT !.status = "error"]
          ELSE Empty]
    /\ clock = 0
    /\ written = [k \in watched |-> 0]
    /\ saving = Nothing
    /\ told = [k \in watched |-> 0]
    /\ missed = {}
    /\ switched = FALSE

\* A link of the page, which the veil of a save does not cover.
GoTo(p) ==
    /\ page' = p
    /\ entry' = Shown(entry, p, session)
    /\ UNCHANGED <<session, clock, written, saving, told, switched>>

\* Components that want a session leave for the login page without one.
Redirected(e, p) ==
    IF e["me"].status = "error" /\ \E c \in Parts(p) : c.private THEN "login" ELSE p

\* What arrives enables queries of the components that were waiting for it.
Settle(e) ==
    LET p == Redirected(e, page)
    IN  /\ page' = p
        /\ entry' = IF p # page THEN Shown(e, p, session)
                    ELSE Observed(e, Mounted(e, p) \ Active, session)

Refused(k) == k \in Guarded /\ entry[k].fetch.by = "none"

Receive(k) ==
    /\ Loading(k)
    /\ ~Refused(k)
    /\ \E at \in {entry[k].fetch.at, written[k]} :
          Settle([entry EXCEPT ![k] = [status |-> "success", data |-> Answer(entry[k].fetch.by, at),
                                       fresh |-> TRUE, fetch |-> Nothing]])
    /\ UNCHANGED <<session, clock, written, saving, told, switched>>

FetchFails(k) ==
    /\ Loading(k)
    /\ Refused(k) \/ Failures
    /\ Settle([entry EXCEPT ![k].status = "error", ![k].fetch = Nothing])
    /\ UNCHANGED <<session, clock, written, saving, told, switched>>

\* staleTime
Age(k) ==
    /\ entry[k].fresh
    /\ entry' = [entry EXCEPT ![k].fresh = FALSE]
    /\ UNCHANGED <<session, page, clock, written, saving, told, switched>>

\* gcTime
Collect(k) ==
    /\ k \notin Active
    /\ ~Loading(k)
    /\ entry[k] # Empty
    /\ entry' = [entry EXCEPT ![k] = Empty]
    /\ UNCHANGED <<session, page, clock, written, saving, told, switched>>

\* A message of the club's event stream.
LiveUpdate ==
    /\ entry' = Invalidated(UNION {c.live : c \in Parts(page)}, session)
    /\ missed' = StillMissed \cup Missed(UNION {c.live : c \in Parts(page)})
    /\ UNCHANGED <<session, page, clock, written, saving, told, switched>>

-----------------------------------------------------------------------------
(***************************************************************************)
(* Sessions.                                                               *)
(***************************************************************************)

\* LoginForm: the session query is asked again, and the visitor is sent on when
\* it is settled.
SignIn(u, p) ==
    /\ page = "login" /\ going = "nowhere"
    /\ session' = u
    /\ switched' = (switched \/ session \notin {"none", u})
    /\ going' = p
    /\ entry' = Invalidated({"me"}, u)
    /\ missed' = StillMissed \cup Missed({"me"})
    /\ UNCHANGED <<page, clock, written, saving, told>>

SentOn ==
    /\ going # "nowhere" /\ ~Loading("me")
    /\ page' = going
    /\ going' = "nowhere"
    /\ entry' = Shown(entry, going, session)
    /\ UNCHANGED <<session, clock, written, saving, told, switched>>

\* Mutant: the cache is kept.
Cleared_Not == entry

Cleared == [k \in watched |-> Empty]

\* logout, in SiteNav and AccountClient.
SignOut ==
    /\ session # "none"
    /\ entry["me"].status = "success"
    /\ session' = "none"
    /\ switched' = FALSE
    /\ page' = "home"
    /\ entry' = Shown(Cleared, "home", "none")
    /\ told' = [k \in watched |-> 0]
    /\ UNCHANGED <<clock, written, saving>>

\* The session runs out by itself.
Expire ==
    /\ session # "none"
    /\ session' = "none"
    /\ switched' = TRUE
    /\ UNCHANGED <<page, entry, clock, written, saving, told>>

-----------------------------------------------------------------------------
(***************************************************************************)
(* Saves.                                                                  *)
(***************************************************************************)

\* Bound: one at a time, as under the loader's veil.
Submit(s) ==
    /\ saving = Nothing
    /\ session # "none" /\ entry["me"].status = "success"
    /\ saving' = [save |-> s, by |-> session, stage |-> "sent", at |-> 0]
    /\ UNCHANGED <<session, page, entry, clock, written, told, switched>>

Writes(tables) ==
    /\ clock < MaxWrites
    /\ clock' = clock + 1
    /\ written' = [k \in watched |-> IF Reads(k) \cap tables # {} THEN clock' ELSE written[k]]

Apply ==
    /\ saving # Nothing /\ saving.stage = "sent"
    /\ Writes(saving.save.writes)
    /\ saving' = [saving EXCEPT !.stage = "written", !.at = clock']
    /\ UNCHANGED <<session, page, entry, told, switched>>

\* What a save leaves stale on its own page: the statistics, which nothing
\* refreshes; one's own clubs and the cities after the platform's console has
\* changed a club, and one's own clubs and the users after it has made somebody
\* the admin of one; one's own clubs after one is added to a team; the opening
\* hours and the rules' court names after a court is edited; the list of
\* customers after a booking in the calendar; the trainings to rate after a
\* booking is called off, and the coach's free hours after a training is; and
\* the coach's public card after the profile is edited.
Lagging(s) ==
    {"adminStats"} \cup
    CASE s.save = "club"          -> {"myClubs", "cities"}
      [] s.save = "clubAdmin"     -> {"myClubs", "platformUsers"}
      [] s.save = "member"        -> {"myClubs"}
      [] s.save = "court"         -> {"platformClub", "priceRules"}
      [] s.save = "calendar"      -> {"clubCustomers"}
      [] s.save = "cancelBooking" -> {"myFeedback"}
      [] s.save = "cancelSession" -> {"coachAvail"}
      [] s.save = "coachProfile"  -> {"coachSelf"}
      [] OTHER                    -> {}

\* onSuccess.  What a save refreshes, and all that its page shows of what it
\* wrote, should be seen from now on.
Confirmed ==
    LET s == saving.save
    IN  /\ saving # Nothing /\ saving.stage = "written"
        /\ saving' = Nothing
        /\ entry' = Invalidated(s.refresh, session)
        /\ missed' = StillMissed \cup Missed(s.refresh)
        /\ told' = [k \in watched |->
               IF /\ Reads(k) \cap s.writes # {}
                  /\ k \in s.refresh \cup (IF s \in Saves(page) THEN Active \ Lagging(s) ELSE {})
               THEN saving.at ELSE told[k]]
        /\ UNCHANGED <<session, page, clock, written, switched>>

\* A refusal, or after CLIENT_TIMEOUT_MS an error for a save that may have succeeded.
SaveFails ==
    /\ saving # Nothing
    /\ saving.stage = "sent" \/ Failures
    /\ saving' = Nothing
    /\ UNCHANGED <<session, page, entry, clock, written, told, switched>>

\* Other people's saves.
OthersWrite(t) ==
    /\ Writes({t})
    /\ UNCHANGED <<session, page, entry, saving, told, switched>>

-----------------------------------------------------------------------------

Tables == UNION {Reads(k) : k \in Key}

Next ==
    /\ UNCHANGED watched
    /\ \/ LiveUpdate /\ UNCHANGED going
       \/ Confirmed /\ UNCHANGED going
       \/ \E u \in Account, p \in Page : SignIn(u, p)
       \/ SentOn /\ missed' = StillMissed
       \/ /\ \/ \E p \in Page : GoTo(p)
             \/ \E k \in watched : Receive(k) \/ FetchFails(k) \/ Age(k) \/ Collect(k)
             \/ SignOut \/ Expire
             \/ \E s \in Saves(page) : Submit(s)
             \/ Apply \/ SaveFails
             \/ \E t \in Tables : OthersWrite(t)
          /\ missed' = StillMissed
          /\ UNCHANGED going

Spec == Init /\ [][Next]_vars

-----------------------------------------------------------------------------

\* After a save has succeeded, what the page shows of it is no older than the
\* save as soon as no fetch is under way, and so is, on every page, what the
\* save refreshes; except for what a first fetch under way had missed.
SavedIsShown ==
    \A k \in Active \ missed :
        entry[k].status = "success" /\ ~Loading(k) => entry[k].data.at >= told[k]

\* Nobody is shown what was fetched for another account, as long as accounts are
\* left by signing out.
OwnDataOnly ==
    \A k \in Active \cap Guarded :
        entry[k].data # Nothing /\ session # "none" /\ ~switched => entry[k].data.by = session
===============================================================================
