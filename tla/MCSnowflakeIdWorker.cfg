CHECK_DEADLOCK FALSE
SPECIFICATION Spec
CONSTANTS
    w1 = w1
    w2 = w2
    t1 = t1
    t2 = t2
    t3 = t3
    Workers <- OneWorker
    Field <- OneField
    Threads <- TwoThreads
    WorkerOf <- OneWorkerOf
    Steps = {2, 3, 5}
    SeqMask = 3
    Wrap = 32
    FieldMax = 3
    TsBits = 2
    Sec = 2
    ClockKept = TRUE
    MaxClock = 3
    MaxBacks = 1
    MaxCrash = 1
SYMMETRY MCSymmetry
INVARIANTS
    TypeOK
    NoDuplicateIds
    Ordered
    RangeFits
PROPERTY
    GrantsUniqueRanges
