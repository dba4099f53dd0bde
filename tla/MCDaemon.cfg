\* A daemon whose master died unnoticed waits for it for ever.
CHECK_DEADLOCK FALSE
SPECIFICATION Spec
CONSTANTS
    c1 = c1
    c2 = c2
    Cmd <- MCCmd
    MaxPid = 4
INVARIANTS
    TypeOK
    OneWorker
    OneMaster
PROPERTIES
    WorkerReplaced
    StopCompletes
