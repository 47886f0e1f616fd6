SPECIFICATION MCSpec
CONSTANTS
  Tasks = {t1, t2}
  KeyIDs = {k1, k2}
  Flows = {f1}
  MaxSessions = 2
  MaxChanges = 2
  MaxStarts = 2
  KeyMax = 1
  Subs = {k1, k2}
  Locals = {l1}
  Emails = {e1, e2}
  Tabs = {t1, t2}
  MaxEpoch = 2
  MaxTickets = 2
  MaxAttempts = 1
  MaxTrouble = 1
SYMMETRY Symmetry
CONSTRAINT Few
CHECK_DEADLOCK FALSE
INVARIANTS SessionsSafe SignInSafe
PROPERTIES SessionSteps SignInSteps
