SPECIFICATION FairSpecWithReaders
CONSTANTS
    c1 = c1
    c2 = c2
    Clients = {c1, c2}
    NoClient = NoClient
    Fds = {5}
    LISTEN = 3
    MaxBytes = 3
    Window = 2
    SndBuf = 1
    MaxEvents = 1
    BUFFLEN = 2
    Stride = 2
    Faults = TRUE
INVARIANTS
    BufferHoldsRequest
    IInv
PROPERTIES
    ClosesOnlyEnded
    EveryEndNoticed
CHECK_DEADLOCK FALSE
