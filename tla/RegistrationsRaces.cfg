SPECIFICATION MCSpec
CONSTANTS
  Event = {e1}
  Session = {s1}
  User = {u1, u2, u3}
  Capacities = {1, 2}
  Api = {a1, a2}
  Crashes = TRUE
SYMMETRY Symmetry
INVARIANTS TypeOK CancelledHoldsNothing OversoldByRacersOnly UndisturbedTold
PROPERTY UndisturbedInGoodStanding
CHECK_DEADLOCK FALSE
