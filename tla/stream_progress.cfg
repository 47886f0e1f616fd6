SPECIFICATION MCSpec
CONSTANTS
    Devices = {d1}
    NoDevice = nodev
    Workers = {w1, w2}
    Depth = 1
    StreamDepth = 1
    Page = 2
    MaxSeq = 2
    MaxSubs = 2
    Classes = {"msg", "none"}
    Chatty = {d1}
    Deletable = {d1}
CHECK_DEADLOCK FALSE
INVARIANTS NoDeletedFrame
PROPERTIES EveryEntrySettles RequestsSettle
