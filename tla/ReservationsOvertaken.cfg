SPECIFICATION WatchedSpec
CONSTANTS
  Reservation = {r1}
  Court = {c1}
  Coach = {k}
  CourtSets = {{c1}}
  Period <- TwoPeriods
  Kind = {"COURT", "SESSION"}
  Method = {"ONLINE", "APPROVAL", "ONSITE"}
  Api = {a1, a2}
  Worker = {w}
  Faults = {"crash", "job", "psp"}
  HoldTTL = 1
  MaxTime = 2
  MaxMoves = 1
SYMMETRY Symmetry
INVARIANTS RowsFollowUnlessOvertaken RefundedOnceUnlessOvertaken
PROPERTIES LegalUnlessOvertaken UnpaidUnlessOvertaken
CHECK_DEADLOCK FALSE
