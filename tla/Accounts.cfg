SPECIFICATION MCSpec
CONSTANTS
  Account = {u1, u2}
  Email = {e1}
  MaxTokens = 3
  Api = {a1, a2}
  Crashes = TRUE
SYMMETRY Symmetry
INVARIANTS TypeOK LinkedIsVerified RemovedStaysShut
PROPERTIES WelcomedOnce ResetIsSingleUse NewestLinkOnly
CHECK_DEADLOCK FALSE
