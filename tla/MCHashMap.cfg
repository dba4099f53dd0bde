SPECIFICATION Spec
CONSTANTS
    k1 = k1
    k2 = k2
    k3 = k3
    k4 = k4
    v1 = v1
    v2 = v2
    Key <- MCKey
    Value <- MCValue
    HashValues <- MCHashValues
    InitialSize = 4
    ChainLength = 2
    MaxTable = 32
SYMMETRY MCSymmetry
INVARIANTS
    TypeOK
    Agrees
PROPERTY
    CopiesComplete
