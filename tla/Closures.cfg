SPECIFICATION MCSpec
CONSTANTS
  a1 = a1
  c1 = c1
  m1 = m1
  Court = {c1, c2}
  Coach = {k}
  Booking = {b1}
  Days = 3
  DayLength = 3
  GapFrom = 8
  GapTo = 9
  Timed <- SomeTimed
  Slot <- SomeSlots
  Kind = {"COURT", "EVENT", "BLOCK"}
  Reason = {m1, m2}
  DefaultHours <- OpenHours
  Hours <- SavedHours
  Api = {a1, a2}
  MaxClosures = 2
  MaxSaves = 2
INVARIANT ListingFaithful
PROPERTIES NothingBuriedUnlessRaced HoursReplacedUnlessRaced EnteredIsListed
CHECK_DEADLOCK FALSE
