SPECIFICATION Spec
CONSTANTS
  Reservation = {r1, r2}
  Court = {c1, c2}
  Coach = {k}
  CourtSets = {{c1}, {c2}}
  Period <- OverlappingPeriods
  Kind = {"SESSION", "BLOCK"}
  Method = {"APPROVAL"}
  Api = {a1, a2}
  Worker = {}
  Faults = {}
  HoldTTL = 1
  MaxTime = 1
  MaxMoves = 1
SYMMETRY Symmetry
INVARIANTS TypeOK LiveHoldsInventory
PROPERTY ImplementsInventory
CHECK_DEADLOCK FALSE
