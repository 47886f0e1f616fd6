SPECIFICATION MCSpec
CONSTANTS
    Devices = {d1}
    NoDevice = nodev
    Workers = {w1, w2}
    Depth = 1
    StreamDepth = 1
    Page = 2
    MaxSeq = 2
    MaxSubs = 2
    Classes = {"msg", "ack", "none"}
    Chatty = {d1}
    Deletable = {}
CHECK_DEADLOCK FALSE
SYMMETRY Symmetry
INVARIANTS TypeOK NoSilentLoss MissedWillBeTold LagNamesAnEntry ConversationsSafe
PROPERTIES HandoverFits
