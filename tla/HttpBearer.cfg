\* Two calls of one client, configured with a static bearer token among others:
\* one 401 is all that the sentence is about.
SPECIFICATION Spec
CONSTANTS
  Calls = {c1, c2}
  Tokens = {t1, t2}
  Static = Static
  NoToken = NoToken
  Margin = 1
  IdleTimeout = 1
  MaxRetries = 1
  Lifetimes = {1}
  MaxLatency = 1
  MaxTime = 2
SYMMETRY Symmetry
CHECK_DEADLOCK FALSE
INVARIANT BearerRetriedOnce
