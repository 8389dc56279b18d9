SPECIFICATION RestSpec
CONSTANTS
    c1 = c1
    c2 = c2
    Clients = {c1, c2}
    NoClient = NoClient
    Fds = {5, 6}
    LISTEN = 3
    MaxBytes = 3
    Window = 2
    SndBuf = 3
    MaxEvents = 3
    BUFFLEN = 3
    Stride = 1
    Faults = FALSE
    DbFails = FALSE
INVARIANTS
    StaysUp
CHECK_DEADLOCK FALSE
