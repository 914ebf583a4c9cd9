CONSTANTS
  fwd = fwd
  c1 = c1
  c2 = c2
  c3 = c3
  c4 = c4
  b1 = b1
  b2 = b2
  r1 = r1
  r2 = r2
  r3 = r3
  NoRelay = NoRelay
  Directions = {fwd}
  Digests = {c1, c2, c3, c4}
  WindowSize = 2
  MaxSeq = 7
  MaxCells = 5
  Relays = {r1, r2, r3}
  MalformedRate = 25
  Builders = {b1, b2}
  Documents <- MCDocuments
  Authorities = 2
  MaxGuards = 1
  MaxEpoch = 1
SPECIFICATION MCSpec
INVARIANTS
  SequenceAcceptedOnce
  ReplayOnlyPastWindow
  MemoryBounded
  SavedGuardSurvives
PROPERTIES
  ImplementsRecentCells
  PathOfOneConsensus
  ConfirmedGuardKept
SYMMETRY BuilderSym
CHECK_DEADLOCK FALSE
