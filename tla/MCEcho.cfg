SPECIFICATION FairSpec
CONSTANTS
    c1 = c1
    c2 = c2
    Clients = {c1, c2}
    NoClient = NoClient
    Fds = {5, 6}
    LISTEN = 3
    MaxBytes = 2
    Window = 2
    SndBuf = 2
    MaxEvents = 3
    BUFFLEN = 3
    Stride = 2
    Faults = FALSE
INVARIANTS
    TypeOK
    NoLostWakeup
    StaysUp
PROPERTIES
    ServiceProgress
CHECK_DEADLOCK FALSE
