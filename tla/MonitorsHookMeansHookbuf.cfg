SPECIFICATION MCSpec
CONSTANTS
    Objects = {"set"}
    Threads = {t1, t2, t3}
    NestingWorkers = {w1, w2}
    NestingTasks = 5
    PipeThreads = {p1, p2, p3}
    max_locks = 2
    MaxCalls = 2
    a = a
    b = b
    c = c
    main = main
    other = other
    w1 = w1
    w2 = w2
    NoThread = NoThread
    NoConnection = NoConnection
    starter = starter
    Off = Off
INVARIANTS
    HookMeansHookbuf
CHECK_DEADLOCK FALSE
