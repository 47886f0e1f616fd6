SPECIFICATION MCSpec
CONSTANTS
    Procs = {p1, p2}
    PerProc = 2
    MaxRequests = 2
    MaxExits = 1
    MaxFaults = 1
    MaxUnlinks = 1
    MaxDenials = 1
    MaxDrops = 1
    MaxLost = 1
    NoClient = noclient
INVARIANTS RegisteredUnderLock LockHasOwner
PROPERTIES SlotNeverStolen CalmSomeoneHolds CalmPausedLetsGo
