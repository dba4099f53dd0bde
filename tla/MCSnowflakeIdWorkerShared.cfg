SPECIFICATION Spec
CONSTANTS
    w1 = w1
    w2 = w2
    t1 = t1
    t2 = t2
    t3 = t3
    Workers <- MCWorkers
    Field <- SharedField
    Threads <- MCThreads
    WorkerOf <- MCWorkerOf
    Steps = {2}
    SeqMask = 3
    Wrap = 32
    FieldMax = 3
    TsBits = 2
    Sec = 3
    ClockKept = TRUE
    MaxClock = 3
    MaxBacks = 0
    MaxCrash = 0
INVARIANT
    NoDuplicateIds
