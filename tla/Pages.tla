---------------------------------- MODULE Pages ----------------------------------
(***************************************************************************)
(* The pages of the web application and their components: the queries a    *)
(* component keeps mounted, and what it may save.  A query is named by its *)
(* key (of the one club, day and coach looked at), and what the API stores *)
(* is a set of tables; "self" is what there is of the account signed in    *)
(* and "user" of the others.                                               *)
(***************************************************************************)
EXTENDS FiniteSets, TLC

(***************************************************************************)
(* What the API reads to answer a query, but for what no save changes (the *)
(* time zone and the currency of a club) and the names of people and clubs *)
(* that an answer shows beside what it is about.                           *)
(***************************************************************************)

GetMe == {"self"}
UserProfile == {"self"}
Standing == {"self"}
PushConfig == {"push"}

ListUsers == {"user", "reservation"}

MyReservations == {"reservation"}
GetCalendar == {"reservation", "court", "closure", "session", "registration"}
ListCustomers == {"reservation", "user"}

\* The free time of the coaches of a club, for the offer of lessons.
CoachTimes == {"team", "hours", "reservation"}

Slots == {"club", "court", "closure", "reservation", "priceRule"} \cup CoachTimes
GetAvailability == Slots \cup {"membership", "plan"}

\* Availability at every club, for nobody in particular.
SearchClubs == Slots \cup {"city"}

CoachCard == {"coach", "team", "club", "feedback"}
ListCoaches == CoachCard
GetCoach == CoachCard \cup {"hours"}

\* Reservations that occupy a coach or a court.
Occupied == {"reservation"}
CoachAvailability == Occupied \cup {"club", "team", "hours", "court", "closure"}

CoachSchedule == {"reservation"}
CoachHours == {"hours"}
CoachProfile == {"coach"}

SessionCard == {"session", "registration"}
ListSessions == SessionCard
MySessions == SessionCard

EventCard == {"event", "registration"}
ListEvents == EventCard

ListPlans == {"plan"}
MyMemberships == {"membership", "plan"}

ListRules == {"priceRule", "court"}
PricePreview == {"priceRule"}

ListFavorites == {"favorite"}
ListReviews == {"review"}

ListRateable == {"feedback", "reservation", "session", "registration"}
ListFeedback == {"feedback"}

MyClubs == {"team", "club"}
GetForAdmin == {"club", "court"}
ListAllClubs == {"club", "team"}
GetTeam == {"team", "user"}
ListClosures == {"closure"}
ListCities == {"city", "club"}

ListCourts == {"court"}

\* New accounts are counted on the platform, first bookings in a club.
UserStats == {"user", "reservation"}
Summary == UserStats \cup {"session", "registration"}

Answers ==
    [me |-> GetMe, userProfile |-> UserProfile, myStanding |-> Standing,
     pushConfig |-> PushConfig, platformUsers |-> ListUsers,
     myReservations |-> MyReservations, calendar |-> GetCalendar,
     clubCustomers |-> ListCustomers, availability |-> GetAvailability,
     search |-> SearchClubs, clubCoaches |-> ListCoaches, coachSelf |-> GetCoach,
     coachAvail |-> CoachAvailability, coachSchedule |-> CoachSchedule,
     coachHours |-> CoachHours, coachProfile |-> CoachProfile,
     groupSessions |-> ListSessions, myGroupSessions |-> MySessions,
     events |-> ListEvents, adminEvents |-> ListEvents,
     membershipPlans |-> ListPlans, myMemberships |-> MyMemberships,
     priceRules |-> ListRules, pricePreview |-> PricePreview,
     favorites |-> ListFavorites, reviews |-> ListReviews,
     myFeedback |-> ListRateable, clubFeedback |-> ListFeedback,
     myClubs |-> MyClubs, platformClub |-> GetForAdmin, platformClubs |-> ListAllClubs,
     clubTeam |-> GetTeam, closures |-> ListClosures, cities |-> ListCities,
     courts |-> ListCourts, adminStats |-> Summary]

Key == DOMAIN Answers

Reads(k) == Answers[k]

\* Answered to anybody.
Public ==
    {"availability", "search", "clubCoaches", "coachSelf", "coachAvail", "groupSessions",
     "events", "membershipPlans", "reviews", "cities"}

\* Answered to a session only.
Guarded == Key \ Public

-----------------------------------------------------------------------------
(***************************************************************************)
(* A component shows some queries always and some, enabled by              *)
(* me.isSuccess, to a signed-in account only; refetches the live ones on a *)
(* message of the club's event stream; may leave for the login page when   *)
(* nobody is signed in; and saves.                                         *)
(***************************************************************************)

\* What the players' and the coaches' own saves write.
UpdateUserProfile == {"self"}
Subscribe == {"push"}
SubmitFeedback == {"feedback"}
ToggleFavorite == {"favorite"}
UpsertReview == {"review"}
UpdateCoachProfile == {"coach"}
UpdateMyHours == {"hours"}

Save(name, writes, refresh) == [save |-> name, writes |-> writes, refresh |-> refresh]

Part(always, signedIn, saves) ==
    [always |-> always, signedIn |-> signedIn, saves |-> saves, live |-> {}, private |-> FALSE]

Private(part) == [part EXCEPT !.private = TRUE]

Live(part, keys) == [part EXCEPT !.live = keys]

\* Players.

SiteNav == Part({"me"}, {}, {})

AccountClient == Private(Part({"me"}, {"myMemberships"}, {}))

AccountProfileEditor ==
    Part({"userProfile"}, {}, {Save("profile", UpdateUserProfile, {"userProfile", "me"})})

PushNotificationToggle ==
    Part({"pushConfig"}, {}, {Save("push", Subscribe, {"pushConfig"})})

AccountStandingBanner == Part({"me"}, {"myStanding"}, {})

MyBookings ==
    Private(Part({"me"}, {"myReservations"},
                 {Save("cancelBooking", {"reservation"}, {"myReservations"})}))

SessionFeedbackPanel ==
    Part({"me"}, {"myFeedback"}, {Save("rate", SubmitFeedback, {"myFeedback"})})

FavoritesList == Private(Part({"me"}, {"favorites"}, {}))

FavoriteButton ==
    Part({"me"}, {"favorites"}, {Save("favorite", ToggleFavorite, {"favorites"})})

AvailabilityGrid ==
    Live(Part({"me", "availability", "clubCoaches"}, {},
              {Save("book", {"reservation"}, {"availability"})}),
         {"availability"})

EventsSection ==
    Part({"me", "events"}, {}, {Save("registerEvent", {"registration"}, {"events"})})

MembershipPlansSection == Part({"me", "membershipPlans"}, {"myMemberships"}, {})

ReviewsSection ==
    Part({"me", "reviews"}, {}, {Save("review", UpsertReview, {"reviews"})})

GroupSessionsList ==
    Part({"me", "groupSessions"}, {},
         {Save("registerSession", {"registration"}, {"groupSessions"})})

SearchClient == Part({"cities", "search"}, {}, {})

\* Coaches.

CoachHubClient == Private(Part({"me"}, {"coachProfile"}, {}))

CoachProfileEditor ==
    Part({"coachProfile"}, {}, {Save("coachProfile", UpdateCoachProfile, {"coachProfile"})})

GroupSessionManager ==
    Part({}, {"coachSelf", "coachAvail", "myGroupSessions"},
         {Save("createSession", {"session", "reservation"},
               {"myGroupSessions", "groupSessions", "coachAvail"}),
          Save("cancelSession", {"session", "reservation"},
               {"myGroupSessions", "groupSessions"})})

CoachScheduleClient == Private(Part({"me"}, {"coachSchedule"}, {}))

CoachHoursEditor ==
    Part({"coachHours"}, {}, {Save("coachHours", UpdateMyHours, {"coachHours", "coachSchedule"})})

\* Club staff.

\* Mutant: the preview is forgotten.
PriceRulesManager_NoPreview ==
    Part({"priceRules", "courts", "pricePreview"}, {},
         {Save("priceRule", {"priceRule"}, {"priceRules", "availability"})})

PriceRulesManager ==
    Part({"priceRules", "courts", "pricePreview"}, {},
         {Save("priceRule", {"priceRule"}, {"priceRules", "pricePreview", "availability"})})

ClosuresManager ==
    Part({"closures"}, {}, {Save("closure", {"closure"}, {"closures", "availability"})})

TeamManager ==
    Part({"clubTeam"}, {}, {Save("member", {"team", "user"}, {"clubTeam"})})

MembershipManager ==
    Part({"membershipPlans"}, {},
         {Save("plan", {"plan"}, {"membershipPlans"}),
          Save("grant", {"membership"}, {})})

EventManager ==
    Part({"adminEvents"}, {}, {Save("event", {"event"}, {"adminEvents", "events"})})

ClubFeedback == Part({"clubFeedback"}, {}, {})

ClubDetailsEditor ==
    Part({}, {}, {Save("details", {"club"}, {"myClubs", "platformClub"})})

ClubManager ==
    Private(Part({"me"}, {"myClubs", "platformClub", "courts"},
                 {Save("settings", {"club"}, {"myClubs", "platformClub", "availability"}),
                  Save("court", {"court"}, {"courts"})}))

ClubCalendar ==
    Live(Part({"calendar", "clubCoaches"}, {},
              {Save("calendar", {"reservation"}, {"calendar"})}),
         {"calendar"})

CustomerPicker == Part({"clubCustomers"}, {}, {})

\* The platform's own.

AdminHome == Private(Part({"me"}, {"myClubs"}, {}))

AdminStats(scope) ==
    Part({}, {"adminStats"} \cup (IF scope = "platform" THEN {"platformClubs"} ELSE {}), {})

PlatformConsole ==
    Part({}, {"platformClubs", "cities"},
         {Save("club", {"club"}, {"platformClubs"}),
          Save("city", {"city"}, {"cities"}),
          Save("clubAdmin", {"team", "user"}, {"platformClubs"})})

UsersModeration ==
    Part({}, {"platformUsers"},
         {Save("moderate", {"user", "reservation"}, {"platformUsers"})})

-----------------------------------------------------------------------------

ClubPage == {FavoriteButton, AvailabilityGrid, EventsSection, MembershipPlansSection, ReviewsSection}

ClubManagerPage ==
    {ClubManager, ClubDetailsEditor, PriceRulesManager, ClubFeedback, ClosuresManager,
     TeamManager, MembershipManager, EventManager, AdminStats("club")}

AccountPage == {AccountClient, AccountProfileEditor, PushNotificationToggle}

BookingsPage == {AccountStandingBanner, MyBookings, SessionFeedbackPanel}

CoachHubPage == {CoachHubClient, CoachProfileEditor, GroupSessionManager}

SchedulePage == {CoachScheduleClient, CoachHoursEditor}

AdminPage == {AdminHome, AdminStats("platform"), PlatformConsole, UsersModeration}

CalendarPage == {ClubCalendar, CustomerPicker}

Pages ==
    [home |-> {}, login |-> {}, club |-> ClubPage, account |-> AccountPage,
     bookings |-> BookingsPage, favorites |-> {FavoritesList},
     sessions |-> {GroupSessionsList}, search |-> {SearchClient},
     coachHub |-> CoachHubPage, schedule |-> SchedulePage,
     manager |-> ClubManagerPage, calendar |-> CalendarPage, admin |-> AdminPage]

Page == DOMAIN Pages

Parts(p) == Pages[p] \cup {SiteNav}

Saves(p) == UNION {c.saves : c \in Parts(p)}
===============================================================================
