\* Two overlapping calls with one confirmed token.
SPECIFICATION Spec
CONSTANTS
  Handlers = {h1, h2}
  Tokens = {t1, t2, t3}
  NoToken = NoToken
  Nobody = Nobody
  TTL = 1
  MaxTime = 2
CHECK_DEADLOCK FALSE
INVARIANT SingleUse
