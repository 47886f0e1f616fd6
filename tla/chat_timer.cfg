SPECIFICATION Spec
CONSTANTS
  People = {"x"}
  Groups = {"g"}
  MaxTime = 2
  Windows = {}
  PageLimit = 1
  ListLimit = 3
  MaxRows = 2
  MaxSettings = 1
  MaxTrouble = 0
CHECK_DEADLOCK FALSE
INVARIANT ChatTimerKeepsPromise
