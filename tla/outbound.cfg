SPECIFICATION MCSpec
CONSTANTS
  Conns = {c1, c2}
  DraftIDs = {d1}
  Refs = {n1, n2}
  Tasks = {t1, t2}
  MaxRows = 2
  PerDay = 1
  TenantPerDay = 1
  DraftsPending = 1
  MaxRefusals = 1
  MaxFaults = 1
  Calls = {m1, m2}
  Owners = {o1, o2}
  Peers = {q1, q2}
  None = none
  Limit = 2
  MaxDevices = 2
  MaxRosters = 1
  MaxOdd = 5
SYMMETRY Symmetry
CONSTRAINT Few
CHECK_DEADLOCK FALSE
INVARIANTS OutboundSafe CallsSafe
PROPERTIES OutboundSteps CallSteps
