\* One vetting, two searches with one retry each.
SPECIFICATION QuerySpec
CONSTANTS
  Allowed = {h1}
  None = None
  Vettings = {v1}
  Searches = {s1, s2}
  Interval = 2
  MaxRetries = 1
  Delays = {0, 3}
CHECK_DEADLOCK FALSE
INVARIANTS
  VerifiedAsPublished
  RevocationTold
PROPERTIES
  SpacedOut
  EverySearchEnds
