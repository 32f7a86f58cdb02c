\* Two overlapping calls, three tokens, a clock that outlives two of them.
SPECIFICATION FairSpec
CONSTANTS
  Handlers = {h1, h2}
  Tokens = {t1, t2, t3}
  NoToken = NoToken
  Nobody = Nobody
  TTL = 1
  MaxTime = 2
CHECK_DEADLOCK FALSE
INVARIANTS
  LiveTokenKept
  RetiredStaysOut
PROPERTIES
  RunsOnlyLiveTokens
  EveryCallAnswered
  KeepsPromise
