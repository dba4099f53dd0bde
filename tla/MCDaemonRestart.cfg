\* A daemon whose master died unnoticed waits for it for ever.
CHECK_DEADLOCK FALSE
SPECIFICATION Spec
CONSTANTS
    c1 = c1
    c2 = c2
    Cmd <- MCOneCmd
    MaxPid = 4
PROPERTY RestartComesUp
