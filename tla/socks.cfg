CONSTANTS
  h1 = h1
  h2 = h2
  c1 = c1
  None = None
  Handlers = {h1, h2}
  Circuits = {c1}
  IdLimit = 3
  MaxConns = 2
  QueueCap = 2
  MaxData = 2
SPECIFICATION MCSpec
INVARIANTS
  NothingLeaks
  OwnDataInOrder
PROPERTIES
  ShutdownDrains
  EndReachesClient
CHECK_DEADLOCK FALSE
