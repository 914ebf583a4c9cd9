CONSTANTS
  b1 = b1
  b2 = b2
  w1 = w1
  c1 = c1
  c2 = c2
  c3 = c3
  NoCircuit = NoCircuit
  p1 = p1
  p2 = p2
  d1 = d1
  Builders = {b1, b2}
  Creators = {w1}
  Circuits = {c1, c2, c3}
  IdLimit = 3
  Publishers = {p1, p2}
  HSDirs = {d1}
  Spread = 1
  NumIntroPoints = 1
  MaxClock = 2
  MaxPoints = 2
SPECIFICATION MCSpec
INVARIANTS
  IdNamesItsCircuit
  LiveUnlessClosedLate
  PublishedPointsKnown
PROPERTIES
  EntryNeverOverwritten
  BuildSettles
CHECK_DEADLOCK FALSE
