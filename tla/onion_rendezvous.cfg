CONSTANTS
  p1 = p1
  d1 = d1
  d2 = d2
  Publishers = {p1}
  HSDirs = {d1, d2}
  Spread = 2
  NumIntroPoints = 1
  MaxClock = 1
  MaxPoints = 1
  MaxRetries = 2
  MaxInbox = 1
SPECIFICATION MCSpec
INVARIANT ConnectedMeansMet
CHECK_DEADLOCK FALSE
