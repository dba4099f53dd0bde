CHECK_DEADLOCK FALSE
SPECIFICATION Spec
CONSTANTS
    c1 = c1
    c2 = c2
    c3 = c3
    c4 = c4
    u1 = u1
    u2 = u2
    u3 = u3
    Conns <- MCConns
    Users <- MCUsers
    MinSize = 1
    MaxSize = 1
    MaxChecks = 2
INVARIANT
    MaxRespected
