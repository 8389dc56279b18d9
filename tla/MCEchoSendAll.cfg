SPECIFICATION Spec
CONSTANTS
    c1 = c1
    c2 = c2
    Clients = {c1}
    NoClient = NoClient
    Fds = {5}
    LISTEN = 3
    MaxBytes = 2
    Window = 2
    SndBuf = 1
    MaxEvents = 3
    BUFFLEN = 3
    Stride = 2
    Faults = FALSE
INVARIANTS
    AllDataSend
CHECK_DEADLOCK FALSE
