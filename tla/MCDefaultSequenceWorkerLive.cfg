SPECIFICATION LiveSpec
CONSTANTS
    s1 = s1
    s2 = s2
    t1 = t1
    t2 = t2
    t3 = t3
    Services <- LiveServices
    Threads <- LiveThreads
    ServiceOf <- LiveServiceOf
    Steps <- LiveSteps
    Inc = 2
    DbStart = 1
    DbTries = 1
    RetryTimes = 1
    Limit = 5
    DbMax = 7
    Datacenter = 2
    Datacenters = {0, 1, 2, 3}
    SequenceRange = 8
    MaxOrphans = 0
    MaxNegative = 1
INVARIANT
    NoGaps
PROPERTY
    CallsComplete
