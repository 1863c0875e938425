SPECIFICATION MCFairSpec
CONSTANTS
    Objects = {"mutex", "handover", "buffer", "nesting", "fails", "cleared"}
    Threads = {t1, t2, t3}
    NestingWorkers = {w1, w2}
    NestingTasks = 3
    PipeThreads = {p1, p2}
    max_locks = 2
    MaxCalls = 2
    a = a
    b = b
    c = c
    main = main
    other = other
    w1 = w1
    w2 = w2
    NoThread = NoThread
    NoConnection = NoConnection
    starter = starter
    Off = Off
PROPERTIES
    IsReadersWriters
    LockObtained
    WaitingEnds
    ClearEnds
CHECK_DEADLOCK FALSE
