SPECIFICATION MCSpec
CONSTANTS
  c1 = c1
  c2 = c2
  b1 = b1
  b2 = b2
  b3 = b3
  Booking = {b1, b2, b3}
  Court = {c1, c2}
  Coach = {k}
  CourtSets = {{c1}, {c2}, {c1, c2}}
  CoachSets = {{}, {k}}
  Period <- ThreePeriods
  Scans <- OneScan
  MaxMoves = 1
  Cancels = TRUE
  Crashes = TRUE
INVARIANTS TypeOK CheckedCourtsStayFree OnlyCoachesDeadlock LosersHaveWinner
PROPERTIES ImplementsInventory EveryRequestAnswered
CHECK_DEADLOCK FALSE
