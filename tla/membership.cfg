SPECIFICATION MCSpec
CONSTANTS
    Subs = {s1}
    Leaders = {l1, l2}
    Tasks = {t1, t2}
    None = none
    MaxVersion = 2
    MaxGeneration = 2
    MaxPage = 1
    MaxBad = 1
    MaxLost = 1
    MaxStops = 1
    MaxSwitches = 1
    Subjects = {s1}
    Limit = 2
    Hour = 2
    MaxRows = 3
    MaxClock = 2
    MaxFaults = 1
    MaxTurns = 1
SYMMETRY Symmetry
CONSTRAINT Few
CHECK_DEADLOCK FALSE
INVARIANTS ContractSafe
PROPERTIES ContractSteps
