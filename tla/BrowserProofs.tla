----------------------------- MODULE BrowserProofs -----------------------------
(***************************************************************************)
(* Nobody is shown what was fetched for another account (OwnDataShown),    *)
(* and what a save has changed is shown (SavesAreShown), on every page of  *)
(* the application, for any accounts, writes, failures and orders in which *)
(* answers arrive.                                                         *)
(*                                                                         *)
(* The argument.  Until a session ends without a sign-out all that the     *)
(* cache holds, and all that is under way, is for the account of the       *)
(* cookie, or for a visitor, who is refused (Own).  A fetch under way that *)
(* missed no invalidation was sent after the last save the user was told   *)
(* of, and an answer that is not shown may be older but then it is stale,  *)
(* so that showing it fetches it anew (Fine).  That a save refreshes what  *)
(* its page shows of it is a fact of every page and every save (PageTable).*)
(***************************************************************************)
EXTENDS Browser, TLAPS

-----------------------------------------------------------------------------
(***************************************************************************)
(* Pages: what a save of a page writes, the page refreshes wherever it     *)
(* shows it, but for what Lagging names.                                   *)
(***************************************************************************)

PageKeys(p) == UNION {c.always \cup c.signedIn : c \in Parts(p)}

Covers(s, keys) ==
    \A k \in keys : Reads(k) \cap s.writes # {} /\ k \notin Lagging(s) => k \in s.refresh

LEMMA ClubTable == \A s \in Saves("club") : Covers(s, PageKeys("club"))
  <1>1. Parts("club") = {FavoriteButton, AvailabilityGrid, EventsSection,
                         MembershipPlansSection, ReviewsSection, SiteNav}
    BY DEF Parts, Pages, ClubPage
  <1>2. /\ FavoriteButton.saves = {Save("favorite", ToggleFavorite, {"favorites"})}
        /\ AvailabilityGrid.saves = {Save("book", {"reservation"}, {"availability"})}
        /\ EventsSection.saves = {Save("registerEvent", {"registration"}, {"events"})}
        /\ MembershipPlansSection.saves = {}
        /\ ReviewsSection.saves = {Save("review", UpsertReview, {"reviews"})}
        /\ SiteNav.saves = {}
    BY DEF AvailabilityGrid, EventsSection, FavoriteButton,
           MembershipPlansSection, ReviewsSection, SiteNav, Part, Private,
           Live
  <1>3. PageKeys("club") \subseteq
          {"me", "favorites", "availability", "clubCoaches", "events",
           "membershipPlans", "myMemberships", "reviews"}
    BY <1>1 DEF PageKeys, AvailabilityGrid, EventsSection, FavoriteButton,
                MembershipPlansSection, ReviewsSection, SiteNav, Part,
                Private, Live
  <1>4. \A s \in Saves("club") : s \in
          {Save("favorite", ToggleFavorite, {"favorites"}),
           Save("book", {"reservation"}, {"availability"}),
           Save("registerEvent", {"registration"}, {"events"}),
           Save("review", UpsertReview, {"reviews"})}
    BY <1>1, <1>2 DEF Saves
  <1>5. QED
    BY <1>3, <1>4 DEF Covers, Lagging, Save, ToggleFavorite, UpsertReview,
                      Reads, Answers, GetMe, ListFavorites, GetAvailability,
                      Slots, CoachTimes, ListCoaches, CoachCard, ListEvents,
                      EventCard, ListPlans, MyMemberships, ListReviews

LEMMA AccountTable == \A s \in Saves("account") : Covers(s, PageKeys("account"))
  <1>1. Parts("account") = {AccountClient, AccountProfileEditor,
                            PushNotificationToggle, SiteNav}
    BY DEF Parts, Pages, AccountPage
  <1>2. /\ AccountClient.saves = {}
        /\ AccountProfileEditor.saves = {Save("profile", UpdateUserProfile, {"userProfile", "me"})}
        /\ PushNotificationToggle.saves = {Save("push", Subscribe, {"pushConfig"})}
        /\ SiteNav.saves = {}
    BY DEF AccountClient, AccountProfileEditor, PushNotificationToggle,
           SiteNav, Part, Private, Live
  <1>3. PageKeys("account") \subseteq
          {"me", "myMemberships", "userProfile", "pushConfig"}
    BY <1>1 DEF PageKeys, AccountClient, AccountProfileEditor,
                PushNotificationToggle, SiteNav, Part, Private, Live
  <1>4. \A s \in Saves("account") : s \in
          {Save("profile", UpdateUserProfile, {"userProfile", "me"}),
           Save("push", Subscribe, {"pushConfig"})}
    BY <1>1, <1>2 DEF Saves
  <1>5. QED
    BY <1>3, <1>4 DEF Covers, Lagging, Save, UpdateUserProfile, Subscribe,
                      Reads, Answers, GetMe, MyMemberships, UserProfile,
                      PushConfig

LEMMA BookingsTable == \A s \in Saves("bookings") : Covers(s, PageKeys("bookings"))
  <1>1. Parts("bookings") = {AccountStandingBanner, MyBookings,
                             SessionFeedbackPanel, SiteNav}
    BY DEF Parts, Pages, BookingsPage
  <1>2. /\ AccountStandingBanner.saves = {}
        /\ MyBookings.saves = {Save("cancelBooking", {"reservation"}, {"myReservations"})}
        /\ SessionFeedbackPanel.saves = {Save("rate", SubmitFeedback, {"myFeedback"})}
        /\ SiteNav.saves = {}
    BY DEF AccountStandingBanner, MyBookings, SessionFeedbackPanel, SiteNav,
           Part, Private, Live
  <1>3. PageKeys("bookings") \subseteq
          {"me", "myStanding", "myReservations", "myFeedback"}
    BY <1>1 DEF PageKeys, AccountStandingBanner, MyBookings,
                SessionFeedbackPanel, SiteNav, Part, Private, Live
  <1>4. \A s \in Saves("bookings") : s \in
          {Save("cancelBooking", {"reservation"}, {"myReservations"}),
           Save("rate", SubmitFeedback, {"myFeedback"})}
    BY <1>1, <1>2 DEF Saves
  <1>5. QED
    BY <1>3, <1>4 DEF Covers, Lagging, Save, SubmitFeedback, Reads, Answers,
                      GetMe, Standing, MyReservations, ListRateable

LEMMA FavoritesTable == \A s \in Saves("favorites") : Covers(s, PageKeys("favorites"))
  <1>1. Parts("favorites") = {FavoritesList, SiteNav}
    BY DEF Parts, Pages
  <1>2. /\ FavoritesList.saves = {}
        /\ SiteNav.saves = {}
    BY DEF FavoritesList, SiteNav, Part, Private, Live
  <1>3. QED
    BY <1>1, <1>2 DEF Saves

LEMMA SessionsTable == \A s \in Saves("sessions") : Covers(s, PageKeys("sessions"))
  <1>1. Parts("sessions") = {GroupSessionsList, SiteNav}
    BY DEF Parts, Pages
  <1>2. /\ GroupSessionsList.saves = {Save("registerSession", {"registration"}, {"groupSessions"})}
        /\ SiteNav.saves = {}
    BY DEF GroupSessionsList, SiteNav, Part, Private, Live
  <1>3. PageKeys("sessions") \subseteq
          {"me", "groupSessions"}
    BY <1>1 DEF PageKeys, GroupSessionsList, SiteNav, Part, Private, Live
  <1>4. \A s \in Saves("sessions") : s \in
          {Save("registerSession", {"registration"}, {"groupSessions"})}
    BY <1>1, <1>2 DEF Saves
  <1>5. QED
    BY <1>3, <1>4 DEF Covers, Lagging, Save, Reads, Answers, GetMe,
                      ListSessions, SessionCard

LEMMA SearchTable == \A s \in Saves("search") : Covers(s, PageKeys("search"))
  <1>1. Parts("search") = {SearchClient, SiteNav}
    BY DEF Parts, Pages
  <1>2. /\ SearchClient.saves = {}
        /\ SiteNav.saves = {}
    BY DEF SearchClient, SiteNav, Part, Private, Live
  <1>3. QED
    BY <1>1, <1>2 DEF Saves

LEMMA CoachHubTable == \A s \in Saves("coachHub") : Covers(s, PageKeys("coachHub"))
  <1>1. Parts("coachHub") = {CoachHubClient, CoachProfileEditor,
                             GroupSessionManager, SiteNav}
    BY DEF Parts, Pages, CoachHubPage
  <1>2. /\ CoachHubClient.saves = {}
        /\ CoachProfileEditor.saves = {Save("coachProfile", UpdateCoachProfile, {"coachProfile"})}
        /\ GroupSessionManager.saves = {Save("createSession", {"session", "reservation"}, {"myGroupSessions", "groupSessions", "coachAvail"}),
                                        Save("cancelSession", {"session", "reservation"}, {"myGroupSessions", "groupSessions"})}
        /\ SiteNav.saves = {}
    BY DEF CoachHubClient, CoachProfileEditor, GroupSessionManager, SiteNav,
           Part, Private, Live
  <1>3. PageKeys("coachHub") \subseteq
          {"me", "coachProfile", "coachSelf", "coachAvail", "myGroupSessions"}
    BY <1>1 DEF PageKeys, CoachHubClient, CoachProfileEditor,
                GroupSessionManager, SiteNav, Part, Private, Live
  <1>4. \A s \in Saves("coachHub") : s \in
          {Save("coachProfile", UpdateCoachProfile, {"coachProfile"}),
           Save("createSession", {"session", "reservation"}, {"myGroupSessions", "groupSessions", "coachAvail"}),
           Save("cancelSession", {"session", "reservation"}, {"myGroupSessions", "groupSessions"})}
    BY <1>1, <1>2 DEF Saves
  <1>5. QED
    BY <1>3, <1>4 DEF Covers, Lagging, Save, UpdateCoachProfile, Reads,
                      Answers, GetMe, CoachProfile, GetCoach, CoachCard,
                      CoachAvailability, Occupied, MySessions, SessionCard

LEMMA ScheduleTable == \A s \in Saves("schedule") : Covers(s, PageKeys("schedule"))
  <1>1. Parts("schedule") = {CoachScheduleClient, CoachHoursEditor, SiteNav}
    BY DEF Parts, Pages, SchedulePage
  <1>2. /\ CoachScheduleClient.saves = {}
        /\ CoachHoursEditor.saves = {Save("coachHours", UpdateMyHours, {"coachHours", "coachSchedule"})}
        /\ SiteNav.saves = {}
    BY DEF CoachHoursEditor, CoachScheduleClient, SiteNav, Part, Private, Live
  <1>3. PageKeys("schedule") \subseteq
          {"me", "coachSchedule", "coachHours"}
    BY <1>1 DEF PageKeys, CoachHoursEditor, CoachScheduleClient, SiteNav,
                Part, Private, Live
  <1>4. \A s \in Saves("schedule") : s \in
          {Save("coachHours", UpdateMyHours, {"coachHours", "coachSchedule"})}
    BY <1>1, <1>2 DEF Saves
  <1>5. QED
    BY <1>3, <1>4 DEF Covers, Lagging, Save, UpdateMyHours, Reads, Answers,
                      GetMe, CoachSchedule, CoachHours

LEMMA ManagerTable == \A s \in Saves("manager") : Covers(s, PageKeys("manager"))
  <1>1. Parts("manager") = {ClubManager, ClubDetailsEditor, PriceRulesManager,
                            ClubFeedback, ClosuresManager, TeamManager,
                            MembershipManager, EventManager,
                            AdminStats("club"), SiteNav}
    BY DEF Parts, Pages, ClubManagerPage
  <1>2. /\ ClubManager.saves = {Save("settings", {"club"}, {"myClubs", "platformClub", "availability"}),
                                Save("court", {"court"}, {"courts"})}
        /\ ClubDetailsEditor.saves = {Save("details", {"club"}, {"myClubs", "platformClub"})}
        /\ PriceRulesManager.saves = {Save("priceRule", {"priceRule"}, {"priceRules", "pricePreview", "availability"})}
        /\ ClubFeedback.saves = {}
        /\ ClosuresManager.saves = {Save("closure", {"closure"}, {"closures", "availability"})}
        /\ TeamManager.saves = {Save("member", {"team", "user"}, {"clubTeam"})}
        /\ MembershipManager.saves = {Save("plan", {"plan"}, {"membershipPlans"}),
                                      Save("grant", {"membership"}, {})}
        /\ EventManager.saves = {Save("event", {"event"}, {"adminEvents", "events"})}
        /\ AdminStats("club").saves = {}
        /\ SiteNav.saves = {}
    BY DEF AdminStats, ClosuresManager, ClubDetailsEditor, ClubFeedback,
           ClubManager, EventManager, MembershipManager, PriceRulesManager,
           SiteNav, TeamManager, Part, Private, Live
  <1>3. PageKeys("manager") \subseteq
          {"me", "myClubs", "platformClub", "courts", "priceRules",
           "pricePreview", "clubFeedback", "closures", "clubTeam",
           "membershipPlans", "adminEvents", "adminStats"}
    BY <1>1 DEF PageKeys, AdminStats, ClosuresManager, ClubDetailsEditor,
                ClubFeedback, ClubManager, EventManager, MembershipManager,
                PriceRulesManager, SiteNav, TeamManager, Part, Private, Live
  <1>4. \A s \in Saves("manager") : s \in
          {Save("settings", {"club"}, {"myClubs", "platformClub", "availability"}),
           Save("court", {"court"}, {"courts"}),
           Save("details", {"club"}, {"myClubs", "platformClub"}),
           Save("priceRule", {"priceRule"}, {"priceRules", "pricePreview", "availability"}),
           Save("closure", {"closure"}, {"closures", "availability"}),
           Save("member", {"team", "user"}, {"clubTeam"}),
           Save("plan", {"plan"}, {"membershipPlans"}),
           Save("grant", {"membership"}, {}),
           Save("event", {"event"}, {"adminEvents", "events"})}
    BY <1>1, <1>2 DEF Saves
  <1>5. QED
    BY <1>3, <1>4 DEF Covers, Lagging, Save, Reads, Answers, GetMe, MyClubs,
                      GetForAdmin, ListCourts, ListRules, PricePreview,
                      ListFeedback, ListClosures, GetTeam, ListPlans,
                      ListEvents, EventCard, Summary, UserStats

LEMMA AdminTable == \A s \in Saves("admin") : Covers(s, PageKeys("admin"))
  <1>1. Parts("admin") = {AdminHome, AdminStats("platform"), PlatformConsole,
                          UsersModeration, SiteNav}
    BY DEF Parts, Pages, AdminPage
  <1>2. /\ AdminHome.saves = {}
        /\ AdminStats("platform").saves = {}
        /\ PlatformConsole.saves = {Save("club", {"club"}, {"platformClubs"}),
                                    Save("city", {"city"}, {"cities"}),
                                    Save("clubAdmin", {"team", "user"}, {"platformClubs"})}
        /\ UsersModeration.saves = {Save("moderate", {"user", "reservation"}, {"platformUsers"})}
        /\ SiteNav.saves = {}
    BY DEF AdminHome, AdminStats, PlatformConsole, SiteNav, UsersModeration,
           Part, Private, Live
  <1>3. PageKeys("admin") \subseteq
          {"me", "myClubs", "adminStats", "platformClubs", "cities",
           "platformUsers"}
    BY <1>1 DEF PageKeys, AdminHome, AdminStats, PlatformConsole, SiteNav,
                UsersModeration, Part, Private, Live
  <1>4. \A s \in Saves("admin") : s \in
          {Save("club", {"club"}, {"platformClubs"}),
           Save("city", {"city"}, {"cities"}),
           Save("clubAdmin", {"team", "user"}, {"platformClubs"}),
           Save("moderate", {"user", "reservation"}, {"platformUsers"})}
    BY <1>1, <1>2 DEF Saves
  <1>5. QED
    BY <1>3, <1>4 DEF Covers, Lagging, Save, Reads, Answers, GetMe, MyClubs,
                      Summary, UserStats, ListAllClubs, ListCities, ListUsers

LEMMA CalendarTable == \A s \in Saves("calendar") : Covers(s, PageKeys("calendar"))
  <1>1. Parts("calendar") = {ClubCalendar, CustomerPicker, SiteNav}
    BY DEF Parts, Pages, CalendarPage
  <1>2. /\ ClubCalendar.saves = {Save("calendar", {"reservation"}, {"calendar"})}
        /\ CustomerPicker.saves = {}
        /\ SiteNav.saves = {}
    BY DEF ClubCalendar, CustomerPicker, SiteNav, Part, Private, Live
  <1>3. PageKeys("calendar") \subseteq
          {"calendar", "clubCoaches", "clubCustomers", "me"}
    BY <1>1 DEF PageKeys, ClubCalendar, CustomerPicker, SiteNav, Part,
                Private, Live
  <1>4. \A s \in Saves("calendar") : s \in
          {Save("calendar", {"reservation"}, {"calendar"})}
    BY <1>1, <1>2 DEF Saves
  <1>5. QED
    BY <1>3, <1>4 DEF Covers, Lagging, Save, Reads, Answers, GetCalendar,
                      ListCoaches, CoachCard, ListCustomers, GetMe

LEMMA PageTable == \A p \in Page : \A s \in Saves(p) : Covers(s, PageKeys(p))
  <1>1. Saves("home") = {} /\ Saves("login") = {}
    <2>1. Parts("home") = {SiteNav} /\ Parts("login") = {SiteNav} /\ SiteNav.saves = {}
      BY DEF Parts, Pages, SiteNav, Part
    <2>2. QED
      BY <2>1 DEF Saves
  <1>2. Page = {"home", "login", "club", "account", "bookings", "favorites", "sessions",
                "search", "coachHub", "schedule", "manager", "calendar", "admin"}
    BY DEF Page, Pages
  <1>3. QED
    BY <1>1, <1>2, ClubTable, AccountTable, BookingsTable, FavoritesTable, SessionsTable,
       SearchTable, CoachHubTable, ScheduleTable, ManagerTable, AdminTable, CalendarTable

-----------------------------------------------------------------------------
(***************************************************************************)
(* Types.                                                                  *)
(***************************************************************************)

Who == Account \cup {"none"}

AnswerOf == [is: {"answer"}, by: Who, at: Nat]

Maybe == AnswerOf \cup {Nothing}

Cached == [status: {"pending", "success", "error"}, data: Maybe, fresh: BOOLEAN, fetch: Maybe]

Request == [save: UNION {Saves(p) : p \in Page}, by: Who, stage: {"sent", "written"}, at: Nat]

TypeOK ==
    /\ session \in Who
    /\ page \in Page
    /\ going \in Page \cup {"nowhere"}
    /\ watched \subseteq Key /\ "me" \in watched
    /\ entry \in [watched -> Cached]
    /\ clock \in Nat
    /\ written \in [watched -> Nat]
    /\ saving \in Request \cup {Nothing}
    /\ told \in [watched -> Nat]
    /\ missed \subseteq watched
    /\ switched \in BOOLEAN

LEMMA NoAnswer == \A x \in AnswerOf : x # Nothing
  BY DEF AnswerOf, Nothing

LEMMA AnswerType ==
    ASSUME NEW by \in Who, NEW at \in Nat
    PROVE  /\ Answer(by, at) \in AnswerOf /\ Answer(by, at) # Nothing
           /\ Answer(by, at).by = by /\ Answer(by, at).at = at
  BY DEF Answer, AnswerOf, Nothing

\* What is under way was sent before what was fetched is fresh, and what is shown
\* as a success is an answer.
Sane(x) ==
    /\ x.status = "success" => x.data # Nothing
    /\ x.fresh => x.data # Nothing /\ x.fetch = Nothing

\* Sent by a component that has just come, or after an invalidation.
LEMMA SentIs ==
    ASSUME NEW x \in Cached, NEW k \in watched, NEW who \in Who, written \in [watched -> Nat],
           x.status = "success" => x.data # Nothing
    PROVE  LET y == Sent(x, k, who)
           IN  /\ y \in Cached
               /\ y.data = x.data /\ y.fresh = x.fresh
               /\ y.fetch = Answer(who, written[k])
               /\ y.status = "success" <=> x.status = "success"
  <1>1. Answer(who, written[k]) \in Maybe
    BY AnswerType DEF Maybe
  <1>2. QED
    BY <1>1 DEF Sent, Cached

LEMMA ObservedIs ==
    ASSUME NEW e \in [watched -> Cached], NEW keys, NEW who \in Who,
           written \in [watched -> Nat], \A k \in watched : Sane(e[k])
    PROVE  LET o == Observed(e, keys, who)
           IN  /\ o \in [watched -> Cached]
               /\ \A k \in watched :
                    /\ Sane(o[k])
                    /\ o[k].status = "success" <=> e[k].status = "success"
                    /\ o[k].data = e[k].data
                    /\ \/ o[k] = e[k]
                       \/ o[k].fetch = Answer(who, written[k])
                    /\ k \in keys /\ e[k].fetch = Nothing /\ ~e[k].fresh =>
                         o[k].fetch = Answer(who, written[k])
  <1> DEFINE o == Observed(e, keys, who)
  <1>1. ASSUME NEW k \in watched
        PROVE  /\ o[k] \in Cached
               /\ Sane(o[k])
               /\ o[k].status = "success" <=> e[k].status = "success"
               /\ o[k].data = e[k].data
               /\ \/ o[k] = e[k]
                  \/ o[k].fetch = Answer(who, written[k])
               /\ k \in keys /\ e[k].fetch = Nothing /\ ~e[k].fresh =>
                    o[k].fetch = Answer(who, written[k])
    <2>1. CASE k \in keys /\ e[k].fetch = Nothing /\ (e[k].data = Nothing \/ ~e[k].fresh)
      <3>1. o[k] = Sent(e[k], k, who)
        BY <2>1 DEF Observed
      <3>2. ~ e[k].fresh
        BY <2>1 DEF Sane
      <3>3. QED
        BY <3>1, <3>2, SentIs DEF Sane
    <2>2. CASE ~ (k \in keys /\ e[k].fetch = Nothing /\ (e[k].data = Nothing \/ ~e[k].fresh))
      <3>1. o[k] = e[k]
        BY <2>2 DEF Observed
      <3>2. QED
        BY <2>2, <3>1
    <2>3. QED
      BY <2>1, <2>2
  <1>2. o \in [watched -> Cached]
    BY <1>1 DEF Observed
  <1>3. QED
    BY <1>1, <1>2

LEMMA InvalidatedIs ==
    ASSUME TypeOK, \A k \in watched : Sane(entry[k]), NEW keys, NEW who \in Who
    PROVE  LET i == Invalidated(keys, who)
           IN  /\ i \in [watched -> Cached]
               /\ \A k \in watched :
                    /\ Sane(i[k])
                    /\ i[k].status = "success" <=> entry[k].status = "success"
                    /\ i[k].data = entry[k].data
                    /\ k \notin keys => i[k] = entry[k]
                    /\ k \in keys /\ Refetched(k) => i[k].fetch = Answer(who, written[k])
                    /\ ~ (k \in keys /\ Refetched(k)) => i[k].fetch = entry[k].fetch
                    /\ k \in keys => ~ i[k].fresh
  <1> DEFINE i == Invalidated(keys, who)
  <1>1. ASSUME NEW k \in watched
        PROVE  /\ i[k] \in Cached
               /\ Sane(i[k])
               /\ i[k].status = "success" <=> entry[k].status = "success"
               /\ i[k].data = entry[k].data
               /\ k \notin keys => i[k] = entry[k]
               /\ k \in keys /\ Refetched(k) => i[k].fetch = Answer(who, written[k])
               /\ ~ (k \in keys /\ Refetched(k)) => i[k].fetch = entry[k].fetch
               /\ k \in keys => ~ i[k].fresh
    <2> DEFINE old == [entry[k] EXCEPT !.fresh = FALSE]
    <2>1. /\ old \in Cached /\ old.status = entry[k].status /\ old.data = entry[k].data
          /\ old.fetch = entry[k].fetch /\ old.fresh = FALSE
      BY DEF TypeOK, Cached
    <2>2. CASE k \notin keys
      BY <2>2 DEF Invalidated, TypeOK
    <2>3. CASE k \in keys /\ ~ Refetched(k)
      <3>1. i[k] = old
        BY <2>3 DEF Invalidated
      <3>2. QED
        BY <2>1, <2>3, <3>1 DEF Sane
    <2>4. CASE k \in keys /\ Refetched(k)
      <3>1. i[k] = Sent(old, k, who)
        BY <2>4 DEF Invalidated
      <3>2. old.status = "success" => old.data # Nothing
        BY <2>1 DEF Sane
      <3> HIDE DEF old
      <3>3. QED
        BY <2>1, <2>4, <3>1, <3>2, SentIs DEF Sane, TypeOK
    <2>5. QED
      BY <2>2, <2>3, <2>4
  <1>2. i \in [watched -> Cached]
    BY <1>1 DEF Invalidated
  <1>3. QED
    BY <1>1, <1>2

-----------------------------------------------------------------------------
(***************************************************************************)
(* The invariant.                                                          *)
(***************************************************************************)

\* What is held and what is under way is for who, or for a visitor.
OwnEntry(x, who) ==
    /\ x.data # Nothing => who # "none" /\ x.data.by = who
    /\ x.fetch # Nothing => x.fetch.by \in {who, "none"}

Own == ~switched => \A k \in watched \cap Guarded : OwnEntry(entry[k], session)

\* What is under way, fresh or shown is no older than t.
Fine(x, t, shown) ==
    /\ x.fetch # Nothing => x.fetch.at >= t
    /\ x.fetch = Nothing /\ x.status = "success" /\ (x.fresh \/ shown) => x.data.at >= t

Good == \A k \in watched \ missed : Fine(entry[k], told[k], k \in Active)

\* The user is told of what is written.
Told == \A k \in watched : told[k] <= written[k] /\ written[k] <= clock

Stored ==
    saving # Nothing /\ saving.stage = "written" =>
        \A k \in watched : Reads(k) \cap saving.save.writes # {} => saving.at <= written[k]

Sanity == \A k \in watched : Sane(entry[k])

IInv == TypeOK /\ Sanity /\ Own /\ Told /\ Stored /\ Good

-----------------------------------------------------------------------------
(***************************************************************************)
(* What steps do to the cache.                                             *)
(***************************************************************************)

LEMMA MeActive == TypeOK => "me" \in Active
  <1>1. SiteNav.always = {"me"}
    BY DEF SiteNav, Part
  <1>2. SiteNav \in Parts(page)
    BY DEF Parts
  <1>3. QED
    BY <1>1, <1>2 DEF TypeOK, Active, Mounted

\* Answers settle on a page, and the components that have just come observe.
LEMMA SettleIs ==
    ASSUME TypeOK, NEW e, Settle(e)
    PROVE  \E keys :
             /\ entry' = Observed(e, keys, session)
             /\ Mounted(e, page') \ keys \subseteq Active
             /\ page' \in Page
  <1> DEFINE p == Redirected(e, page)
  <1>1. p \in Page
    <2>1. "login" \in Page
      BY DEF Page, Pages
    <2>2. QED
      BY <2>1 DEF Redirected, TypeOK
  <1>2. CASE p # page
    <2>1. entry' = Observed(e, Mounted(e, p), session) /\ page' = p
      BY <1>2 DEF Settle, Shown
    <2>2. QED
      BY <1>1, <2>1
  <1>3. CASE p = page
    <2>1. entry' = Observed(e, Mounted(e, p) \ Active, session) /\ page' = p
      BY <1>3 DEF Settle
    <2>2. QED
      BY <1>1, <2>1
  <1>4. QED
    BY <1>2, <1>3

\* What was missed and is missed no longer is under way again.
LEMMA MadeUp ==
    ASSUME TypeOK, NEW k \in missed, k \notin StillMissed,
           \/ entry'[k].fetch \in {entry[k].fetch, Nothing}
           \/ \E who \in Who : entry'[k].fetch = Answer(who, written[k]),
           told'[k] <= written[k], NEW shown
    PROVE  Fine(entry'[k], told'[k], shown)
  <1>1. PICK who \in Who : entry'[k].fetch = Answer(who, written[k])
    BY DEF StillMissed
  <1>2. written[k] \in Nat
    BY DEF TypeOK
  <1>3. QED
    BY <1>1, <1>2, AnswerType DEF Fine

\* A cache e becomes the cache that the components of a page observe.
LEMMA GoodObserved ==
    ASSUME TypeOK, watched' = watched,
           NEW e \in [watched -> Cached], \A k \in watched : Sane(e[k]),
           NEW keys, NEW who \in Who, entry' = Observed(e, keys, who),
           missed' = StillMissed,
           \A k \in watched : told'[k] \in Nat /\ told'[k] <= written[k],
           \A k \in watched : e[k].fetch \in {entry[k].fetch, Nothing},
           \A k \in watched \ missed : Fine(e[k], told'[k], k \in Mounted(e, page') \ keys)
    PROVE  Good'
  <1>1. \A k \in watched :
           /\ entry'[k].status = "success" <=> e[k].status = "success"
           /\ entry'[k] = e[k] \/ entry'[k].fetch = Answer(who, written[k])
           /\ k \in keys /\ e[k].fetch = Nothing /\ ~e[k].fresh =>
                entry'[k].fetch = Answer(who, written[k])
    BY ObservedIs DEF TypeOK
  <1>2. Active' = Mounted(e, page')
    <2>1. entry'["me"].status = "success" <=> e["me"].status = "success"
      BY <1>1 DEF TypeOK
    <2>2. QED
      BY <2>1 DEF Active, Mounted
  <1>3. ASSUME NEW k \in watched, entry'[k].fetch = Answer(who, written[k])
        PROVE  Fine(entry'[k], told'[k], k \in Active')
    <2>1. written[k] \in Nat
      BY DEF TypeOK
    <2>2. QED
      BY <1>3, <2>1, AnswerType DEF Fine
  <1>4. ASSUME NEW k \in watched \ missed'
        PROVE  Fine(entry'[k], told'[k], k \in Active')
    <2>1. CASE k \in missed
      <3>1. \/ entry'[k].fetch \in {entry[k].fetch, Nothing}
            \/ entry'[k].fetch = Answer(who, written[k])
        BY <1>1
      <3>2. QED
        BY <1>4, <2>1, <3>1, MadeUp
    <2>2. CASE k \notin missed /\ entry'[k] = e[k] /\ entry'[k].fetch # Answer(who, written[k])
      <3>1. Fine(e[k], told'[k], k \in Mounted(e, page') \ keys)
        BY <1>4, <2>2
      <3>2. k \in keys => e[k].fetch # Nothing \/ e[k].fresh
        BY <1>1, <2>2
      <3>3. QED
        BY <1>2, <2>2, <3>1, <3>2 DEF Fine
    <2>3. QED
      BY <1>1, <1>3, <2>1, <2>2
  <1>5. QED
    BY <1>4 DEF Good

\* Keys are invalidated; what has become of the user's knowledge is refreshed.
LEMMA GoodInvalidated ==
    ASSUME TypeOK, Sanity, Good, watched' = watched, page' = page,
           NEW keys, NEW who \in Who, entry' = Invalidated(keys, who),
           missed' = StillMissed \cup Missed(keys),
           \A k \in watched : told'[k] \in Nat /\ told'[k] <= written[k],
           \A k \in watched \ keys : told'[k] = told[k],
           \A k \in watched : told'[k] = told[k] \/ k \in keys
    PROVE  Good'
  <1>1. \A k \in watched :
           /\ entry'[k].status = "success" <=> entry[k].status = "success"
           /\ k \notin keys => entry'[k] = entry[k]
           /\ k \in keys /\ Refetched(k) => entry'[k].fetch = Answer(who, written[k])
           /\ ~ (k \in keys /\ Refetched(k)) => entry'[k].fetch = entry[k].fetch
           /\ k \in keys => ~ entry'[k].fresh
    BY InvalidatedIs DEF Sanity
  <1>2. Active' = Active
    <2>1. entry'["me"].status = "success" <=> entry["me"].status = "success"
      BY <1>1 DEF TypeOK
    <2>2. QED
      BY <2>1 DEF Active, Mounted
  <1>3. ASSUME NEW k \in watched \ missed'
        PROVE  Fine(entry'[k], told'[k], k \in Active)
    <2>1. CASE k \in missed
      <3>1. \/ entry'[k].fetch \in {entry[k].fetch, Nothing}
            \/ entry'[k].fetch = Answer(who, written[k])
        BY <1>1
      <3>2. QED
        BY <1>3, <2>1, <3>1, MadeUp
    <2>2. CASE k \notin missed /\ k \notin keys
      BY <1>1, <1>3, <2>2 DEF Good
    <2>3. CASE k \in keys /\ Refetched(k)
      <3>1. entry'[k].fetch = Answer(who, written[k]) /\ written[k] \in Nat
        BY <1>1, <2>3 DEF TypeOK
      <3>2. QED
        BY <3>1, AnswerType DEF Fine
    <2>4. CASE k \notin missed /\ k \in keys /\ ~ Refetched(k)
      <3>1. ~ Loading(k)
        BY <1>3, <2>4 DEF Missed
      <3>2. k \notin Active
        BY <2>4, <3>1 DEF Refetched
      <3>3. entry'[k].fetch = Nothing /\ ~ entry'[k].fresh
        BY <1>1, <2>4, <3>1 DEF Loading
      <3>4. QED
        BY <3>2, <3>3 DEF Fine
    <2>5. QED
      BY <2>1, <2>2, <2>3, <2>4
  <1>4. QED
    BY <1>2, <1>3 DEF Good

\* Everything about the cache and who it is for.
CacheInv == TypeOK /\ Sanity /\ Own /\ Good

\* Own survives where keys are observed or invalidated for the account of the cookie.
LEMMA OwnSent ==
    ASSUME NEW x, NEW y, NEW who \in Who, NEW at \in Nat, OwnEntry(x, who),
           y.data = x.data, y.fetch = x.fetch \/ y.fetch = Answer(who, at)
    PROVE  OwnEntry(y, who)
  BY AnswerType DEF OwnEntry

-----------------------------------------------------------------------------
(***************************************************************************)
(* The steps that leave saves alone.                                       *)
(***************************************************************************)

\* Pages come and go and answers arrive, in one session.
LEMMA ObserveNext ==
    ASSUME CacheInv, Told, watched' = watched,
           NEW e \in [watched -> Cached], \A k \in watched : Sane(e[k]),
           NEW keys, entry' = Observed(e, keys, session),
           page' \in Page, going' \in Page \cup {"nowhere"}, missed' = StillMissed,
           UNCHANGED <<session, clock, written, saving, told, switched>>,
           \A k \in watched : e[k].fetch \in {entry[k].fetch, Nothing},
           ~ switched => \A k \in watched \cap Guarded : OwnEntry(e[k], session),
           \A k \in watched \ missed : Fine(e[k], told[k], k \in Mounted(e, page') \ keys)
    PROVE  CacheInv'
  <1> USE DEF CacheInv
  <1>1. session \in Who /\ written \in [watched -> Nat] /\ told \in [watched -> Nat]
    BY DEF TypeOK
  <1>2. /\ entry' \in [watched -> Cached]
        /\ \A k \in watched :
             /\ Sane(entry'[k])
             /\ entry'[k].data = e[k].data
             /\ entry'[k] = e[k] \/ entry'[k].fetch = Answer(session, written[k])
    BY <1>1, ObservedIs
  <1>3. TypeOK'
    BY <1>2 DEF TypeOK, StillMissed
  <1>4. Sanity'
    BY <1>2 DEF Sanity
  <1>5. Own'
    <2>1. ASSUME NEW k \in watched \cap Guarded, ~ switched
          PROVE  OwnEntry(entry'[k], session)
      BY <1>1, <1>2, <2>1, OwnSent
    <2>2. QED
      BY <2>1 DEF Own
  <1>6. Good'
    <2>1. \A k \in watched : told'[k] \in Nat /\ told'[k] <= written[k]
      BY <1>1 DEF Told
    <2>2. \A k \in watched \ missed : Fine(e[k], told'[k], k \in Mounted(e, page') \ keys)
      OBVIOUS
    <2>3. QED
      BY <1>1, <2>1, <2>2, GoodObserved
  <1>7. QED
    BY <1>3, <1>4, <1>5, <1>6

LEMMA ShownNext ==
    ASSUME CacheInv, Told, watched' = watched, NEW p \in Page, page' = p,
           entry' = Shown(entry, p, session),
           going' \in Page \cup {"nowhere"}, missed' = StillMissed,
           UNCHANGED <<session, clock, written, saving, told, switched>>
    PROVE  CacheInv'
  <1>1. entry' = Observed(entry, Mounted(entry, p), session)
    BY DEF Shown
  <1>2. \A k \in watched \ missed : Fine(entry[k], told[k], k \in Mounted(entry, p) \ Mounted(entry, p))
    BY DEF CacheInv, Good, Fine
  <1>3. /\ entry \in [watched -> Cached] /\ \A k \in watched : Sane(entry[k])
        /\ ~ switched => \A k \in watched \cap Guarded : OwnEntry(entry[k], session)
    BY DEF CacheInv, TypeOK, Sanity, Own
  <1>4. QED
    BY <1>1, <1>2, <1>3, ObserveNext

\* The fetch for k ends, with x for an entry.
LEMMA SettleNext ==
    ASSUME CacheInv, Told, watched' = watched, NEW k \in watched, NEW x \in Cached,
           Settle([entry EXCEPT ![k] = x]), x.fetch = Nothing, Sane(x),
           ~ switched /\ k \in Guarded => OwnEntry(x, session),
           k \notin missed => Fine(x, told[k], TRUE),
           UNCHANGED <<session, clock, written, saving, told, switched, going>>,
           missed' = StillMissed
    PROVE  CacheInv'
  <1> DEFINE e == [entry EXCEPT ![k] = x]
  <1>1. /\ e \in [watched -> Cached] /\ e[k] = x
        /\ \A o \in watched \ {k} : e[o] = entry[o]
    BY DEF CacheInv, TypeOK
  <1> HIDE DEF e
  <1>2. PICK keys : /\ entry' = Observed(e, keys, session)
                    /\ Mounted(e, page') \ keys \subseteq Active
                    /\ page' \in Page
    BY SettleIs DEF e, CacheInv
  <1>3. \A o \in watched : Sane(e[o])
    BY <1>1 DEF CacheInv, Sanity
  <1>4. \A o \in watched : e[o].fetch \in {entry[o].fetch, Nothing}
    BY <1>1
  <1>5. ~ switched => \A o \in watched \cap Guarded : OwnEntry(e[o], session)
    BY <1>1 DEF CacheInv, Own
  <1>6. ASSUME NEW o \in watched \ missed
        PROVE  Fine(e[o], told[o], o \in Mounted(e, page') \ keys)
    <2>1. CASE o = k
      BY <1>1, <1>6, <2>1 DEF Fine
    <2>2. CASE o # k
      <3>1. Fine(entry[o], told[o], o \in Active) /\ e[o] = entry[o]
        BY <1>1, <1>6, <2>2 DEF CacheInv, Good
      <3>2. QED
        BY <1>2, <3>1 DEF Fine
    <2>3. QED
      BY <2>1, <2>2
  <1>7. going' \in Page \cup {"nowhere"}
    BY DEF CacheInv, TypeOK
  <1>8. QED
    BY <1>1, <1>2, <1>3, <1>4, <1>5, <1>6, <1>7, ObserveNext

LEMMA ReceiveNext ==
    ASSUME CacheInv, Told, watched' = watched, NEW k \in watched, Receive(k),
           missed' = StillMissed, going' = going
    PROVE  CacheInv'
  <1>1. PICK at \in {entry[k].fetch.at, written[k]} :
           Settle([entry EXCEPT ![k] = [status |-> "success",
                                        data |-> Answer(entry[k].fetch.by, at),
                                        fresh |-> TRUE, fetch |-> Nothing]])
    BY DEF Receive
  <1> DEFINE x == [status |-> "success", data |-> Answer(entry[k].fetch.by, at),
                   fresh |-> TRUE, fetch |-> Nothing]
  <1>2. entry[k].fetch \in AnswerOf /\ entry[k].fetch # Nothing
    BY DEF Receive, Loading, CacheInv, TypeOK, Cached, Maybe
  <1>3. entry[k].fetch.by \in Who /\ at \in Nat
    BY <1>2 DEF AnswerOf, CacheInv, TypeOK
  <1>4. /\ x.data \in AnswerOf /\ x.data # Nothing
        /\ x.data.by = entry[k].fetch.by /\ x.data.at = at
    BY <1>3, AnswerType
  <1>5. x \in Cached /\ Sane(x) /\ x.fetch = Nothing
    BY <1>4 DEF Cached, Maybe, Sane
  <1>6. ~ switched /\ k \in Guarded => OwnEntry(x, session)
    <2>1. SUFFICES ASSUME ~ switched, k \in Guarded
                   PROVE  x.data.by = session /\ session # "none"
      BY <1>4, <1>5 DEF OwnEntry
    <2>2. entry[k].fetch.by # "none"
      BY <2>1 DEF Receive, Refused
    <2>3. entry[k].fetch.by \in {session, "none"}
      BY <1>2, <2>1 DEF CacheInv, Own, OwnEntry
    <2>4. QED
      BY <1>4, <2>2, <2>3
  <1>7. k \notin missed => Fine(x, told[k], TRUE)
    <2>1. SUFFICES ASSUME k \notin missed PROVE at >= told[k]
      BY <1>4, <1>5 DEF Fine
    <2>2. entry[k].fetch.at >= told[k]
      BY <1>2, <2>1 DEF CacheInv, Good, Fine
    <2>3. told[k] <= written[k] /\ told[k] \in Nat /\ written[k] \in Nat
      BY DEF Told, CacheInv, TypeOK
    <2>4. QED
      BY <2>2, <2>3
  <1>8. Settle([entry EXCEPT ![k] = x])
    BY <1>1
  <1> HIDE DEF x
  <1>9. QED
    BY <1>5, <1>6, <1>7, <1>8, SettleNext DEF Receive

LEMMA FailsNext ==
    ASSUME CacheInv, Told, watched' = watched, NEW k \in watched, FetchFails(k),
           missed' = StillMissed, going' = going
    PROVE  CacheInv'
  <1> DEFINE x == [entry[k] EXCEPT !.status = "error", !.fetch = Nothing]
  <1>1. Settle([entry EXCEPT ![k] = x])
    <2>1. [entry EXCEPT ![k].status = "error", ![k].fetch = Nothing] = [entry EXCEPT ![k] = x]
      BY DEF CacheInv, TypeOK, Cached
    <2>2. QED
      BY <2>1 DEF FetchFails
  <1>2. /\ x \in Cached /\ x.status = "error" /\ x.fetch = Nothing
        /\ x.data = entry[k].data /\ x.fresh = entry[k].fresh
    BY DEF CacheInv, TypeOK, Cached, Maybe
  <1> HIDE DEF x
  <1>3. Sane(x)
    BY <1>2 DEF CacheInv, Sanity, Sane
  <1>4. ~ switched /\ k \in Guarded => OwnEntry(x, session)
    BY <1>2 DEF CacheInv, Own, OwnEntry
  <1>5. Fine(x, told[k], TRUE)
    BY <1>2 DEF Fine
  <1>6. QED
    BY <1>1, <1>2, <1>3, <1>4, <1>5, SettleNext DEF FetchFails

\* An answer gets old, or is dropped.
LEMMA AgeNext ==
    ASSUME CacheInv, Told, watched' = watched, NEW k \in watched, Age(k) \/ Collect(k),
           missed' = StillMissed, going' = going
    PROVE  CacheInv'
  <1> USE DEF CacheInv
  <1>1. /\ entry' \in [watched -> Cached]
        /\ \A o \in watched \ {k} : entry'[o] = entry[o]
    <2>1. CASE Age(k)
      <3>1. entry' = [entry EXCEPT ![k] = [entry[k] EXCEPT !.fresh = FALSE]]
        BY <2>1 DEF Age, TypeOK
      <3>2. [entry[k] EXCEPT !.fresh = FALSE] \in Cached
        BY DEF TypeOK, Cached
      <3>3. QED
        BY <3>1, <3>2 DEF TypeOK
    <2>2. CASE Collect(k)
      <3>1. entry' = [entry EXCEPT ![k] = Empty]
        BY <2>2 DEF Collect
      <3>2. Empty \in Cached
        BY DEF Empty, Cached, Maybe
      <3>3. QED
        BY <3>1, <3>2 DEF TypeOK
    <2>3. QED
      BY <2>1, <2>2
  <1>2. CASE Age(k)
    <2>1. /\ entry'[k].data = entry[k].data /\ entry'[k].fetch = entry[k].fetch
          /\ entry'[k].status = entry[k].status /\ ~ entry'[k].fresh
      BY <1>2 DEF Age, TypeOK, Cached
    <2>2. missed' = missed /\ page' = page /\ Active' = Active
      <3>1. \A o \in watched : entry'[o].fetch = entry[o].fetch
        BY <1>1, <2>1
      <3>2. entry'["me"].status = entry["me"].status
        BY <1>1, <2>1 DEF TypeOK
      <3>3. QED
        BY <1>2, <3>1, <3>2 DEF Age, StillMissed, Active, Mounted, TypeOK
    <2>3. TypeOK'
      BY <1>1, <1>2, <2>2 DEF TypeOK, Age
    <2>4. Sanity'
      BY <1>1, <2>1 DEF Sanity, Sane
    <2>5. Own'
      BY <1>1, <1>2, <2>1 DEF Own, OwnEntry, Age
    <2>6. \A o \in watched \ missed : Fine(entry'[o], told[o], o \in Active)
      BY <1>1, <2>1 DEF Good, Fine
    <2>7. QED
      BY <1>2, <2>2, <2>3, <2>4, <2>5, <2>6 DEF Age, Good
  <1>3. CASE Collect(k)
    <2>1. entry'[k] = Empty /\ k # "me"
      BY <1>3, MeActive DEF Collect, TypeOK
    <2>2. missed' = missed /\ Active' = Active
      <3>1. \A o \in watched : entry'[o].fetch = entry[o].fetch
        BY <1>1, <1>3, <2>1 DEF Collect, Loading, Empty
      <3>2. entry'["me"].status = entry["me"].status
        BY <1>1, <2>1 DEF TypeOK
      <3>3. QED
        BY <1>3, <3>1, <3>2 DEF Collect, StillMissed, Active, Mounted, TypeOK
    <2>3. TypeOK'
      BY <1>1, <1>3, <2>2 DEF TypeOK, Collect
    <2>4. Sanity'
      BY <1>1, <2>1 DEF Sanity, Sane, Empty
    <2>5. Own'
      BY <1>1, <1>3, <2>1 DEF Own, OwnEntry, Collect, Empty
    <2>6. \A o \in watched \ missed : Fine(entry'[o], told[o], o \in Active)
      BY <1>1, <2>1 DEF Good, Fine, Empty
    <2>7. QED
      BY <1>3, <2>2, <2>3, <2>4, <2>5, <2>6 DEF Collect, Good
  <1>4. QED
    BY <1>2, <1>3

\* Keys are invalidated for who: the account that was signed in, or the first since.
LEMMA InvalidateNext ==
    ASSUME CacheInv, watched' = watched, page' = page, clock' = clock, written' = written,
           NEW keys, session' \in Who, entry' = Invalidated(keys, session'),
           missed' = StillMissed \cup Missed(keys),
           going' \in Page \cup {"nowhere"}, saving' \in Request \cup {Nothing},
           told' \in [watched -> Nat], \A k \in watched : told'[k] <= written[k],
           \A k \in watched : told'[k] = told[k] \/ k \in keys,
           switched' \in BOOLEAN, ~ switched' => ~ switched /\ session \in {"none", session'}
    PROVE  CacheInv'
  <1> USE DEF CacheInv
  <1>1. /\ entry' \in [watched -> Cached]
        /\ \A k \in watched :
             /\ Sane(entry'[k])
             /\ entry'[k].data = entry[k].data
             /\ entry'[k].fetch = entry[k].fetch \/ entry'[k].fetch = Answer(session', written[k])
    BY InvalidatedIs DEF Sanity
  <1>2. TypeOK'
    BY <1>1 DEF TypeOK, StillMissed, Missed
  <1>3. Sanity'
    BY <1>1 DEF Sanity
  <1>4. Own'
    <2>1. ASSUME NEW k \in watched \cap Guarded, ~ switched'
          PROVE  OwnEntry(entry'[k], session')
      <3>1. OwnEntry(entry[k], session')
        BY <2>1 DEF Own, OwnEntry
      <3>2. written[k] \in Nat
        BY DEF TypeOK
      <3>3. QED
        BY <1>1, <3>1, <3>2, OwnSent
    <2>2. QED
      BY <2>1 DEF Own
  <1>5. Good'
    BY GoodInvalidated
  <1>6. QED
    BY <1>2, <1>3, <1>4, <1>5

LEMMA SignOutNext ==
    ASSUME CacheInv, watched' = watched, SignOut, missed' = StillMissed, going' = going
    PROVE  CacheInv'
  <1> USE DEF CacheInv
  <1>1. entry' = Observed(Cleared, Mounted(Cleared, "home"), "none")
    BY DEF SignOut, Shown
  <1>2. /\ Cleared \in [watched -> Cached] /\ \A k \in watched : Cleared[k] = Empty
        /\ Sane(Empty) /\ Empty.fetch = Nothing /\ Empty.data = Nothing
        /\ Empty.status = "pending"
    BY DEF Cleared, Empty, Cached, Maybe, Sane
  <1>3. "none" \in Who /\ "home" \in Page
    BY DEF Who, Page, Pages
  <1>4. /\ entry' \in [watched -> Cached]
        /\ \A k \in watched :
             /\ Sane(entry'[k])
             /\ entry'[k].data = Nothing
             /\ entry'[k] = Empty \/ entry'[k].fetch = Answer("none", written[k])
    BY <1>1, <1>2, <1>3, ObservedIs DEF TypeOK
  <1>5. /\ told' = [k \in watched |-> 0] /\ session' = "none" /\ page' = "home"
        /\ ~ switched' /\ switched' \in BOOLEAN
    BY DEF SignOut
  <1>6. TypeOK'
    <2>1. told' \in [watched -> Nat]
      BY <1>5
    <2>2. missed' \subseteq watched
      BY DEF TypeOK, StillMissed
    <2>3. clock' = clock /\ written' = written /\ saving' = saving
      BY DEF SignOut
    <2>4. QED
      BY <1>3, <1>4, <1>5, <2>1, <2>2, <2>3 DEF TypeOK
  <1>7. Sanity'
    BY <1>4 DEF Sanity
  <1>8. Own'
    <2>1. ASSUME NEW k \in watched
          PROVE  OwnEntry(entry'[k], "none")
      <3>1. written[k] \in Nat
        BY DEF TypeOK
      <3>2. QED
        BY <1>2, <1>3, <1>4, <3>1, AnswerType DEF OwnEntry
    <2>2. QED
      BY <1>5, <2>1 DEF Own
  <1>9. Good'
    <2>1. \A k \in watched : told'[k] \in Nat /\ told'[k] <= written[k]
      BY <1>5 DEF TypeOK
    <2>2. \A k \in watched : Fine(Cleared[k], told'[k], k \in Mounted(Cleared, page') \ Mounted(Cleared, "home"))
      BY <1>2 DEF Fine
    <2>3. \A k \in watched : Sane(Cleared[k]) /\ Cleared[k].fetch \in {entry[k].fetch, Nothing}
      BY <1>2
    <2>4. QED
      BY <1>1, <1>2, <1>3, <2>1, <2>2, <2>3, GoodObserved
  <1>10. QED
    BY <1>6, <1>7, <1>8, <1>9

\* The cache and the page are left alone.
LEMMA StillNext ==
    ASSUME CacheInv, watched' = watched, UNCHANGED <<page, entry, told, going, session>>,
           missed' = StillMissed, clock' \in Nat, written' \in [watched -> Nat],
           saving' \in Request \cup {Nothing}, switched' \in BOOLEAN, switched => switched'
    PROVE  CacheInv'
  <1> USE DEF CacheInv
  <1>1. missed' = missed /\ Active' = Active
    BY DEF StillMissed, Active, Mounted, TypeOK
  <1>2. QED
    BY <1>1 DEF TypeOK, Sanity, Own, Good

-----------------------------------------------------------------------------
(***************************************************************************)
(* Saves.                                                                  *)
(***************************************************************************)

\* A save of another user, or of this one, is later than all before it.
LEMMA WritesIs ==
    ASSUME TypeOK, Told, watched' = watched, NEW tables, Writes(tables)
    PROVE  /\ clock' \in Nat /\ written' \in [watched -> Nat]
           /\ \A k \in watched : written[k] <= written'[k] /\ written'[k] <= clock'
           /\ \A k \in watched : Reads(k) \cap tables # {} => written'[k] = clock'
  BY DEF Writes, TypeOK, Told

LEMMA WritesTold ==
    ASSUME TypeOK, Told, watched' = watched, told' = told, NEW tables, Writes(tables)
    PROVE  Told'
  <1>1. \A k \in watched : told[k] \in Nat /\ written[k] \in Nat /\ written'[k] \in Nat
    BY WritesIs DEF TypeOK
  <1>2. \A k \in watched : told[k] <= written[k] /\ written[k] <= written'[k] /\ written'[k] <= clock'
    BY WritesIs DEF Told
  <1>3. QED
    BY <1>1, <1>2 DEF Told

LEMMA SubmitNext ==
    ASSUME IInv, watched' = watched, NEW s \in Saves(page), Submit(s),
           missed' = StillMissed, going' = going
    PROVE  IInv'
  <1>1. saving' \in Request /\ saving'.stage = "sent"
    BY DEF Submit, Request, IInv, TypeOK
  <1>2. CacheInv'
    BY <1>1, StillNext DEF Submit, CacheInv, IInv, TypeOK
  <1>3. Told' /\ Stored'
    BY <1>1 DEF Submit, IInv, Told, Stored
  <1>4. QED
    BY <1>2, <1>3 DEF IInv, CacheInv

LEMMA ApplyNext ==
    ASSUME IInv, watched' = watched, Apply, missed' = StillMissed, going' = going
    PROVE  IInv'
  <1>1. /\ clock' \in Nat /\ written' \in [watched -> Nat]
        /\ \A k \in watched : Reads(k) \cap saving.save.writes # {} => written'[k] = clock'
    BY WritesIs DEF Apply, IInv
  <1>2. saving \in Request
    BY DEF IInv, TypeOK, Apply
  <1>3. /\ saving' \in Request /\ saving'.at = clock' /\ saving'.save = saving.save
    BY <1>1, <1>2 DEF Apply, Request
  <1>4. CacheInv'
    BY <1>1, <1>3, StillNext DEF Apply, CacheInv, IInv, TypeOK
  <1>5. Told'
    BY WritesTold DEF Apply, IInv
  <1>6. Stored'
    BY <1>1, <1>3 DEF Stored
  <1>7. QED
    BY <1>4, <1>5, <1>6 DEF IInv, CacheInv

LEMMA SaveFailsNext ==
    ASSUME IInv, watched' = watched, SaveFails, missed' = StillMissed, going' = going
    PROVE  IInv'
  <1>1. CacheInv'
    BY StillNext DEF SaveFails, CacheInv, IInv, TypeOK
  <1>2. Told' /\ Stored'
    BY DEF SaveFails, IInv, Told, Stored
  <1>3. QED
    BY <1>1, <1>2 DEF IInv, CacheInv

LEMMA OthersNext ==
    ASSUME IInv, watched' = watched, NEW t, OthersWrite(t), missed' = StillMissed, going' = going
    PROVE  IInv'
  <1>1. /\ clock' \in Nat /\ written' \in [watched -> Nat]
        /\ \A k \in watched : written[k] <= written'[k]
    BY WritesIs DEF OthersWrite, IInv
  <1>2. CacheInv'
    BY <1>1, StillNext DEF OthersWrite, CacheInv, IInv, TypeOK
  <1>3. Told'
    BY WritesTold DEF OthersWrite, IInv
  <1>4. Stored'
    <2>1. ASSUME saving # Nothing, saving.stage = "written",
                 NEW k \in watched, Reads(k) \cap saving.save.writes # {}
          PROVE  saving.at <= written'[k]
      <3>1. saving.at <= written[k]
        BY <2>1 DEF IInv, Stored
      <3>2. saving.at \in Nat /\ written[k] \in Nat /\ written'[k] \in Nat
        BY <1>1, <2>1 DEF IInv, TypeOK, Request
      <3>3. QED
        BY <1>1, <3>1, <3>2
    <2>2. QED
      BY <2>1 DEF Stored, OthersWrite
  <1>5. QED
    BY <1>2, <1>3, <1>4 DEF IInv, CacheInv

\* What a page mounts, for some session.
LEMMA ActiveKeys == Active \subseteq PageKeys(page) \cap watched
  BY DEF Active, Mounted, PageKeys

\* The user is told of a save; PageTable is why what the page shows of it is refreshed.
LEMMA ConfirmedNext ==
    ASSUME IInv, watched' = watched, Confirmed, going' = going
    PROVE  IInv'
  <1> DEFINE s == saving.save
  <1>1. saving \in Request /\ saving.stage = "written"
    BY DEF Confirmed, IInv, TypeOK
  <1>2. saving.at \in Nat
    BY <1>1 DEF Request
  <1>3. told' \in [watched -> Nat]
    BY <1>2 DEF Confirmed, IInv, TypeOK
  <1>4. ASSUME NEW k \in watched, told'[k] # told[k]
        PROVE  Reads(k) \cap s.writes # {} /\ told'[k] = saving.at /\ k \in s.refresh
    <2>1. /\ Reads(k) \cap s.writes # {} /\ told'[k] = saving.at
          /\ k \in s.refresh \cup (IF s \in Saves(page) THEN Active \ Lagging(s) ELSE {})
      BY <1>4 DEF Confirmed
    <2>2. CASE k \notin s.refresh
      <3>1. s \in Saves(page) /\ k \in Active /\ k \notin Lagging(s)
        BY <2>1, <2>2
      <3>2. page \in Page /\ k \in PageKeys(page)
        BY <3>1, ActiveKeys DEF IInv, TypeOK
      <3>3. QED
        BY <2>1, <3>1, <3>2, PageTable DEF Covers
    <2>3. QED
      BY <2>1, <2>2
  <1>5. \A k \in watched : told'[k] <= written[k]
    <2>1. ASSUME NEW k \in watched PROVE told'[k] <= written[k]
      BY <1>1, <1>4 DEF IInv, Told, Stored, Confirmed
    <2>2. QED
      BY <2>1
  <1>6. CacheInv'
    <2>1. /\ page' = page /\ clock' = clock /\ written' = written /\ session' = session
          /\ saving' = Nothing /\ switched' = switched
          /\ entry' = Invalidated(s.refresh, session') /\ missed' = StillMissed \cup Missed(s.refresh)
      BY DEF Confirmed
    <2>2. session' \in Who /\ going' \in Page \cup {"nowhere"} /\ switched' \in BOOLEAN
      BY <2>1 DEF IInv, TypeOK
    <2>3. CacheInv
      BY DEF IInv, CacheInv
    <2>4. \A k \in watched : told'[k] = told[k] \/ k \in s.refresh
      BY <1>4
    <2> HIDE DEF s
    <2>5. QED
      BY <1>3, <1>5, <2>1, <2>2, <2>3, <2>4, InvalidateNext
  <1>7. Told' /\ Stored'
    BY <1>5 DEF Confirmed, IInv, Told, Stored
  <1>8. QED
    BY <1>6, <1>7 DEF IInv, CacheInv

-----------------------------------------------------------------------------
(***************************************************************************)
(* The specification.                                                      *)
(***************************************************************************)

LEMMA InitInv == Init => IInv
  <1> SUFFICES ASSUME Init PROVE IInv
    OBVIOUS
  <1>1. "home" \in Page /\ watched \subseteq Key /\ "me" \in watched /\ missed = {}
    BY DEF Init, Page, Pages, Key, Answers
  <1>2. session \in Who /\ 0 \in Nat
    BY DEF Init, Who
  <1> DEFINE own == [Empty EXCEPT !.status = "success", !.data = Answer(session, 0), !.fresh = TRUE]
  <1> DEFINE visitor == [Empty EXCEPT !.status = "error"]
  <1>3. /\ own \in Cached /\ Sane(own) /\ own.data # Nothing /\ own.fetch = Nothing
        /\ own.data.by = session /\ own.data.at = 0
    BY <1>2, AnswerType DEF Empty, Cached, Maybe, Sane
  <1>4. /\ visitor \in Cached /\ Sane(visitor) /\ visitor.data = Nothing /\ visitor.fetch = Nothing
        /\ visitor.status = "error"
        /\ Empty \in Cached /\ Sane(Empty) /\ Empty.data = Nothing /\ Empty.fetch = Nothing
        /\ Empty.status = "pending"
    BY DEF Empty, Cached, Maybe, Sane
  <1>5. \A k \in watched :
           entry[k] = IF k = "me" /\ session # "none" THEN own
                      ELSE IF k = "me" THEN visitor ELSE Empty
    BY DEF Init
  <1>6. entry = [k \in watched |-> entry[k]]
    BY DEF Init
  <1> HIDE DEF own, visitor
  <1>7. entry \in [watched -> Cached]
    BY <1>3, <1>4, <1>5, <1>6
  <1>8. TypeOK
    BY <1>1, <1>2, <1>7 DEF Init, TypeOK
  <1>9. Sanity /\ Own
    BY <1>3, <1>4, <1>5 DEF Sanity, Own, OwnEntry
  <1>10. Told /\ Stored
    BY DEF Init, Told, Stored
  <1>11. Good
    <2>1. \A k \in watched : Fine(entry[k], 0, TRUE)
      BY <1>3, <1>4, <1>5 DEF Fine
    <2>2. QED
      BY <2>1 DEF Good, Fine, Init
  <1>12. QED
    BY <1>8, <1>9, <1>10, <1>11 DEF IInv

LEMMA NextInv == IInv /\ [Next]_vars => IInv'
  <1> SUFFICES ASSUME IInv, [Next]_vars PROVE IInv'
    OBVIOUS
  <1>1. CASE UNCHANGED vars
    BY <1>1 DEF vars, IInv, TypeOK, Sanity, Own, Told, Stored, Good, Active, Mounted
  <1>2. ASSUME Next PROVE IInv'
    <2>1. watched' = watched /\ CacheInv /\ Told /\ Stored
      BY <1>2 DEF Next, IInv, CacheInv
    <2>2. /\ session \in Who /\ told \in [watched -> Nat] /\ going \in Page \cup {"nowhere"}
          /\ saving \in Request \cup {Nothing} /\ switched \in BOOLEAN
          /\ \A k \in watched : told[k] <= written[k]
      BY <2>1 DEF IInv, TypeOK, Told
    <2>3. ASSUME CacheInv', UNCHANGED <<clock, written, saving, told>> PROVE IInv'
      BY <2>1, <2>3 DEF IInv, CacheInv, Told, Stored
    <2>4. CASE LiveUpdate /\ going' = going
      <3> DEFINE keys == UNION {c.live : c \in Parts(page)}
      <3>1. /\ entry' = Invalidated(keys, session') /\ missed' = StillMissed \cup Missed(keys)
            /\ UNCHANGED <<session, page, clock, written, saving, told, switched>>
        BY <2>4 DEF LiveUpdate
      <3> HIDE DEF keys
      <3>2. CacheInv'
        BY <2>1, <2>2, <2>4, <3>1, InvalidateNext
      <3>3. QED
        BY <2>3, <3>1, <3>2
    <2>5. CASE Confirmed /\ going' = going
      BY <2>1, <2>5, ConfirmedNext
    <2>6. ASSUME NEW u \in Account, NEW p \in Page, SignIn(u, p) PROVE IInv'
      <3>1. /\ entry' = Invalidated({"me"}, session') /\ missed' = StillMissed \cup Missed({"me"})
            /\ session' = u /\ going' = p /\ u \in Who
            /\ switched' = (switched \/ session \notin {"none", u})
            /\ UNCHANGED <<page, clock, written, saving, told>>
        BY <2>6 DEF SignIn, Who
      <3>2. CacheInv'
        BY <2>1, <2>2, <3>1, InvalidateNext
      <3>3. QED
        BY <2>3, <3>1, <3>2
    <2>7. CASE SentOn /\ missed' = StillMissed
      <3>1. /\ going \in Page /\ page' = going /\ entry' = Shown(entry, going, session)
            /\ going' = "nowhere"
            /\ UNCHANGED <<session, clock, written, saving, told, switched>>
        BY <2>2, <2>7 DEF SentOn
      <3>2. CacheInv'
        BY <2>1, <2>7, <3>1, ShownNext
      <3>3. QED
        BY <2>3, <3>1, <3>2
    <2>8. ASSUME NEW p \in Page, GoTo(p), missed' = StillMissed, going' = going PROVE IInv'
      <3>1. CacheInv'
        BY <2>1, <2>2, <2>8, ShownNext DEF GoTo
      <3>2. QED
        BY <2>3, <2>8, <3>1 DEF GoTo
    <2>9. ASSUME NEW k \in watched, Receive(k) \/ FetchFails(k) \/ Age(k) \/ Collect(k),
                 missed' = StillMissed, going' = going
          PROVE  IInv'
      <3>1. CacheInv'
        BY <2>1, <2>9, ReceiveNext, FailsNext, AgeNext
      <3>2. QED
        BY <2>3, <2>9, <3>1 DEF Receive, FetchFails, Age, Collect
    <2>10. CASE SignOut /\ missed' = StillMissed /\ going' = going
      <3>1. CacheInv'
        BY <2>1, <2>10, SignOutNext
      <3>2. /\ clock' = clock /\ written' = written /\ saving' = saving
            /\ told' = [k \in watched |-> 0]
        BY <2>10 DEF SignOut
      <3>3. Told' /\ Stored'
        BY <2>1, <3>2 DEF Told, Stored, IInv, TypeOK
      <3>4. QED
        BY <3>1, <3>3 DEF IInv, CacheInv
    <2>11. CASE Expire /\ missed' = StillMissed /\ going' = going
      <3>1. /\ session' = "none" /\ switched' = TRUE
            /\ UNCHANGED <<page, entry, clock, written, saving, told>>
        BY <2>11 DEF Expire
      <3>2. missed' = missed /\ Active' = Active
        BY <2>1, <2>11, <3>1 DEF StillMissed, Active, Mounted, IInv, TypeOK
      <3>3. CacheInv'
        BY <2>1, <2>11, <3>1, <3>2 DEF CacheInv, TypeOK, Who, Sanity, Own, Good
      <3>4. QED
        BY <2>3, <3>1, <3>3
    <2>12. ASSUME NEW s \in Saves(page), Submit(s), missed' = StillMissed, going' = going PROVE IInv'
      BY <2>1, <2>12, SubmitNext
    <2>13. CASE Apply /\ missed' = StillMissed /\ going' = going
      BY <2>1, <2>13, ApplyNext
    <2>14. CASE SaveFails /\ missed' = StillMissed /\ going' = going
      BY <2>1, <2>14, SaveFailsNext
    <2>15. ASSUME NEW t \in Tables, OthersWrite(t), missed' = StillMissed, going' = going PROVE IInv'
      BY <2>1, <2>15, OthersNext
    <2>16. QED
      BY <1>2, <2>4, <2>5, <2>6, <2>7, <2>8, <2>9, <2>10, <2>11, <2>12, <2>13, <2>14, <2>15 DEF Next
  <1>3. QED
    BY <1>1, <1>2

LEMMA Invariance == Spec => []IInv
  BY InitInv, NextInv, PTL DEF Spec

\* The session, the cache and the request of a save always have their types, and
\* what is under way was asked before what is held was fresh.
THEOREM TypeCorrect == Spec => []TypeOK
  <1>1. IInv => TypeOK
    BY DEF IInv
  <1>2. QED
    BY <1>1, Invariance, PTL

\* Nobody is shown what was fetched for another account on any page, as long as
\* accounts are left by signing out, which clears the cache: logout in SiteNav and
\* AccountClient.
THEOREM OwnDataShown == Spec => []OwnDataOnly
  <1>1. IInv => OwnDataOnly
    <2>1. SUFFICES ASSUME IInv, NEW k \in Active \cap Guarded, entry[k].data # Nothing, ~ switched
                   PROVE  entry[k].data.by = session
      BY DEF OwnDataOnly
    <2>2. k \in watched
      BY DEF Active, Mounted
    <2>3. QED
      BY <2>1, <2>2 DEF IInv, Own, OwnEntry
  <1>2. QED
    BY <1>1, Invariance, PTL

\* What a page shows once no fetch is under way is no older than the last save the
\* user was told of, on every page and after every save: the onSuccess of each
\* mutation invalidates all that its page reads of what it wrote.
THEOREM SavesAreShown == Spec => []SavedIsShown
  <1>1. IInv => SavedIsShown
    <2>1. SUFFICES ASSUME IInv, NEW k \in Active \ missed,
                          entry[k].status = "success", ~ Loading(k)
                   PROVE  entry[k].data.at >= told[k]
      BY DEF SavedIsShown
    <2>2. k \in watched
      BY DEF Active, Mounted
    <2>3. Fine(entry[k], told[k], TRUE)
      BY <2>1, <2>2 DEF IInv, Good
    <2>4. QED
      BY <2>1, <2>3 DEF Fine, Loading
  <1>2. QED
    BY <1>1, Invariance, PTL

=============================================================================
