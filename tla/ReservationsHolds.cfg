SPECIFICATION FairSpec
CONSTANTS
  Reservation = {r1}
  Court = {c1}
  Coach = {}
  CourtSets = {{c1}}
  Period <- TwoPeriods
  Kind = {"COURT"}
  Method = {"ONLINE"}
  Api = {a1, a2}
  Worker = {w}
  Faults = {}
  HoldTTL = 1
  MaxTime = 2
  MaxMoves = 1
PROPERTY HoldsReleased
CHECK_DEADLOCK FALSE
