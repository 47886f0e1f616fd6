SPECIFICATION MCSpec
CONSTANTS
  Conns = {1, 2}
  Services = {s1, s2}
  Kinds = {"assistant", "ai"}
  Tasks = {t1, t2}
  MaxLive = 1
  MaxTroubles = 1
SYMMETRY Symmetry
CONSTRAINT Few
CHECK_DEADLOCK FALSE
INVARIANTS AssistantsSafe ReadersSafe
PROPERTIES AssistantSteps
