SPECIFICATION MCSpec
CONSTANTS
    BufferSize = 2
    BUFSIZE = 7
    NOREQUESTS = 2
    MESG = 3
    Room = 3
    Connections = {c1, c2, c3}
    INT_MAX = 3
    MaxRequests = 3
    MaxCounter = 5
    Clients = {c1, c2}
    Senders = {s1, s2}
    MaxPackets = 2
INVARIANTS
    ResetWhileQuiet
    NoReorder
    NothingLost
    StatisticsAddUp
    OneReplyNoLeak
    HashIsCell
    InorderIsSorted
PROPERTIES
    Finishes
    EveryoneServed
CHECK_DEADLOCK FALSE
