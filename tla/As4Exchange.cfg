\* Two tool calls, two SMPs, one move of the participant.
SPECIFICATION FairSpec
CONSTANTS
  Calls = {c1, c2}
  Hosts = {h1, h2}
  Allowed = {h1, h2}
  None = None
  MaxRetries = 1
  MaxMoves = 1
CHECK_DEADLOCK FALSE
INVARIANTS
  EndpointCurrentAndPaired
  RepostsExcused
  VerifiedArrivesWhole
  DeliveredUnlessMisled
PROPERTY EveryTransmissionEnds
