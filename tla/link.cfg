CONSTANTS
  u1 = u1
  u2 = u2
  k1 = k1
  k2 = k2
  k3 = k3
  s1 = s1
  s2 = s2
  Users = {u1, u2}
  Conns = {k1, k2, k3}
  Nobody = Nobody
  Client = u1
  Senders = {s1}
  MaxAttempts = 1
  PoolSize = 1
  MaxHandshakes = 2
  MaxRequests = 2
  MaxCells = 1
SPECIFICATION MCSpec
INVARIANT
  ConnectionsAccountedFor
PROPERTY
  KeysAgree
SYMMETRY LinkSym
CHECK_DEADLOCK FALSE
