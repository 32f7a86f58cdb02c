\* Two calls and two tokens, each given anew or again: a margin that just covers the
\* latency, a lifetime that ends before the clock does, and a cached token that goes
\* idle when a tick passes without its use.
\* Fair scheduling, and servers that answer; no symmetry, for the sake of liveness.
SPECIFICATION FairSpec
CONSTANTS
  Calls = {c1, c2}
  Tokens = {t1, t2}
  Static = Static
  NoToken = NoToken
  Margin = 1
  IdleTimeout = 0
  MaxRetries = 1
  Lifetimes = {3}
  MaxLatency = 1
  MaxTime = 4
CHECK_DEADLOCK FALSE
INVARIANTS
  RetryRenewed
  CachedTokenAlive
  SendsBounded
PROPERTIES
  EveryCallEnds
