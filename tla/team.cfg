SPECIFICATION MCSpec
CONSTANTS
  People = {p1, p2}
  Service = svc
  Founder = p1
  Nobody = nobody
  MaxMade = 2
  Tasks = {t1, t2}
  Keys = {k1, k2}
  Numbers = {n1}
  Messages = {m1}
  Features = {transcribe}
  Providers = {provider}
  Once = {}
  None = none
  MaxAuths = 1
  MaxKeys = 2
  MaxUses = 2
  MaxTroubles = 1
  MaxOdd = 2
  Leaders = {l1, l2}
  MaxContent = 1
  MaxSeq = 3
  MaxFaults = 1
  MaxTurns = 1
SYMMETRY Symmetry
CONSTRAINT Few
CHECK_DEADLOCK FALSE
INVARIANTS TeamSafe AIAndSnapshotsSafe
PROPERTIES AIAndSnapshotSteps
