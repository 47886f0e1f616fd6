SPECIFICATION MCSpec
CONSTANTS
    Procs = {p1, p2}
    Supervisors = {p1}
    Deleters = {p1, p2}
    Janitors = {p2}
    Operators = {p1}
    Movers = {p1}
    MaxUnlinkAttempts = 2
    Batches = 1
    MaxDeletes = 1
    MaxRegs = 2
    MaxTroubles = 1
    Numbers = {1, 2}
    Skips = {10, 20}
    Window = 8
    EventAge = 8
    BackupAge = 15
    LedgerKeep = 16
    MaxEvents = 3
    MaxTurns = 1
    MaxRestores = 1
CHECK_DEADLOCK FALSE
INVARIANTS DeletionSafe LedgerSafe
PROPERTIES DeletionSteps CleanupSettles KeepsItsPromise ReplayRepeats
