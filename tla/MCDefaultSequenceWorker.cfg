SPECIFICATION Spec
CONSTANTS
    s1 = s1
    s2 = s2
    t1 = t1
    t2 = t2
    t3 = t3
    Services <- MCServices
    Threads <- MCThreads
    ServiceOf <- MCServiceOf
    Steps = {2}
    Inc = 3
    DbStart = 4
    DbTries = 2
    RetryTimes = 1
    Limit = 10
    DbMax = 13
    Datacenter = 2
    Datacenters = {0, 1, 2, 3}
    SequenceRange = 8
    MaxOrphans = 1
    MaxNegative = 0
SYMMETRY MCSymmetry
INVARIANTS
    TypeOK
    NoDuplicateIds
    Ordered
    NoGaps
    DistinctForClients
PROPERTY
    GrantsUniqueRanges
