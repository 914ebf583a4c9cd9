CONSTANTS
  u1 = u1
  u2 = u2
  c1 = c1
  c2 = c2
  ada = ada
  site = site
  local = local
  NoKey = NoKey
  Blank = Blank
  NoCircuit = NoCircuit
  Users = {u1, u2}
  ApiUsers = {u2}
  Requests <- MCRequests
  Isolation <- MCIsolation
  Circuits = {c1, c2}
  MinCircuits = 1
  MaxCircuits = 1
SPECIFICATION FairSpec
INVARIANTS
  OnePlace
  OpenIsListed
  IsolatedCircuitPrivate
PROPERTIES
  UserAnswered
  StopFinishes
CHECK_DEADLOCK FALSE
