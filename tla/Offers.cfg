SPECIFICATION MCSpec
CONSTANTS
  c1 = c1
  p1 = p1
  Court = {c1, c2}
  DayLength = 6
  Zone <- SomeZones
  MaxAdvance = 8
  ClosureInput <- SomeClosures
  RuleInput <- SomeRules
  HoursInput <- SomeHours
  LengthsInput <- SomeLengths
  Least = {1, 2}
  Plan = {p1}
  Percent = {0, 50}
  Tiers <- SomeTiers
  MaxRules = 2
INVARIANTS OfferIsBookable PreviewAgrees
PROPERTIES ShownIsCharged RefundOnlyShrinks
CHECK_DEADLOCK FALSE
