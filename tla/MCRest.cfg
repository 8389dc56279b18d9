SPECIFICATION RestFairSpec
CONSTANTS
    c1 = c1
    c2 = c2
    Clients = {c1, c2}
    NoClient = NoClient
    Fds = {5, 6}
    LISTEN = 3
    MaxBytes = 2
    Window = 2
    SndBuf = 2
    MaxEvents = 3
    BUFFLEN = 3
    Stride = 1
    Faults = FALSE
    DbFails = TRUE
INVARIANTS
    RestTypeOK
    NoIdleHandler
PROPERTIES
    ServiceSafety
    WatchedIsServed
CHECK_DEADLOCK FALSE
