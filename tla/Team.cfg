SPECIFICATION MCSpec
CONSTANTS
  Club = {k1, k2}
  Person = {e1}
  Api = {a1, a2}
  Crashes = TRUE
SYMMETRY Symmetry
INVARIANTS OneFeatured OneResourcePerCoach NobodyIsLockedOut
CHECK_DEADLOCK FALSE
