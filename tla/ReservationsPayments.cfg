SPECIFICATION Spec
CONSTANTS
  Reservation = {r1, r2}
  Court = {c1}
  Coach = {}
  CourtSets = {{c1}}
  Period <- OnePeriod
  Kind = {"COURT"}
  Method = {"ONLINE", "APPROVAL"}
  Api = {a1, a2}
  Worker = {w}
  Faults = {"crash", "job", "psp"}
  HoldTTL = 1
  MaxTime = 1
  MaxMoves = 0
SYMMETRY Symmetry
INVARIANT NoDoubleBooking
PROPERTY HoldHonoured
CHECK_DEADLOCK FALSE
