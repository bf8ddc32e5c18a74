SPECIFICATION Spec
CONSTANTS
  Reservation = {r1}
  Court = {c1}
  Coach = {}
  CourtSets = {{c1}}
  Period <- TwoPeriods
  Kind = {"COURT"}
  Method = {"ONLINE"}
  Api = {a1}
  Worker = {w}
  Faults = {}
  HoldTTL = 1
  MaxTime = 2
  MaxMoves = 0
PROPERTY ExpiryTouchesOnlyUnpaid
CHECK_DEADLOCK FALSE
