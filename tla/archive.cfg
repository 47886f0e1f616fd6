SPECIFICATION MCSpec
CONSTANTS
    Chats = {"a"}
    Incoming <- MCIncoming
    Outgoing <- MCOutgoing
    Chunks <- MCChunks
    Receipts <- MCReceipts
    ReadTimes = {0, 2}
    QueueDepth = 1
    MaxStarts = 3
    MaxCrashes = 1
    Rows = {"r1", "r2"}
    Workspaces = {"t1", "t2"}
    Moving = {"r1"}
    Target = "t2"
    Workers = {w1, w2}
    MaxPending = 1
    Patience = 1
    MaxTrouble = 1
    ReplayPageSize = 3
    ReplayLength = 5
    AckIds = {1, 2}
    NoDevice = nodev
    MaxSecrets = 3
    MaxSeals = 3
    MaxStops = 1
    MaxRestores = 1
SYMMETRY Symmetry
CHECK_DEADLOCK FALSE
INVARIANTS ArchiveSafe MediaAndReplaySafe RotationSafe
PROPERTIES StorageSteps
