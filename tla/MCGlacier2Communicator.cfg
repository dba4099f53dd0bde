\* The client rests once its destructor has run and the thread has ended.
CHECK_DEADLOCK FALSE
SPECIFICATION Spec
CONSTANTS
    c1 = c1
    c2 = c2
    Caller <- MCCaller
    MaxFaults = 3
INVARIANT TypeOK
PROPERTIES
    ProxyOverPingedSession
    CallsReturn
    SessionRestored
    ThreadEnds
