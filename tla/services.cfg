CONSTANTS
  s1 = s1
  s2 = s2
  w = w
  m1 = m1
  c1 = c1
  ea = ea
  eb = eb
  b1 = b1
  b2 = b2
  b3 = b3
  Senders = {s1, s2}
  InitWindow = 3
  Increment = 2
  QueueCap = 1
  MaxOut = 5
  MaxIn = 7
  Watcher = w
  Manual = {m1}
  Files <- MCFiles
  Running <- MCRunning
  NumCallbacks = 2
  MaxWrites = 2
  Clients = {c1}
  Events = {ea, eb}
  MaxEvents = 2
  MaxCommands = 3
  Callers = {b1, b2, b3}
  MaxFailures = 3
  MinRequests = 2
  Errors = 2
  OutOf = 3
  HalfOpenMaxRequests = 1
  MaxAttempts = 1
  MaxRequests = 4
SPECIFICATION MCSpec
INVARIANTS
  NoConformingCellRefused
  NoStall
  CreditFloor
  PackageCreditsConserved
  NeverOverrunsPeer
  NoChangeMissed
  CallbacksAgree
  EventsAsSubscribed
  HalfOpenIsTried
PROPERTIES
  PeerNotStarved
  PackageWindowReopens
  ControlStops
CHECK_DEADLOCK FALSE
