SPECIFICATION Spec
CONSTANTS
    p1 = p1
    p2 = p2
    Proc <- MCProc
    Faulty <- MCFaulty
    MaxSessions = 3
    MaxHandles = 2
    MaxNodes = 7
    MaxFaults = 1
    MaxLate = 1
PROPERTY ReconnectKeepsRunning
