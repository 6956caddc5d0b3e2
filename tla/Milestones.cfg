SPECIFICATION FairSpec
CHECK_DEADLOCK FALSE
CONSTANTS
  p1 = p1  p2 = p2  s1 = s1  s2 = s2  NoOne = NoOne
  Providers = {p1, p2}
  Slots = {s1, s2}
  JobHours = {4, 12}
  MaxHours = 16
  Dropped = {p1, p2}
  Failing = {p2}
  Lossy = {p2}
INVARIANTS
  RewardsContiguous PaidWhenEarned RecordedIsPaid
PROPERTIES
  EarnedIsPaid
