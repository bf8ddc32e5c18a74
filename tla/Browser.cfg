SPECIFICATION MCSpec
SYMMETRY Symmetry
CONSTANTS
  Account = {u1, u2}
  MaxWrites = 1
  Failures = TRUE
INVARIANTS SavedIsShown OwnDataOnly
CHECK_DEADLOCK FALSE
