SPECIFICATION FairSpec
CONSTANTS
    c1 = c1
    c2 = c2
    Clients = {c1, c2}
    NoClient = NoClient
    Fds = {5, 6}
    LISTEN = 3
    MaxBytes = 2
    Window = 2
    SndBuf = 1
    MaxEvents = 3
    BUFLEN = 1
    Addresses = 2
    Faults = TRUE
INVARIANTS
    TypeOK
    NoLostWakeup
    PrintedInOrder
PROPERTIES
    ClosesOnlyRead
    EverythingPrinted
    EveryEndNoticed
CHECK_DEADLOCK FALSE
