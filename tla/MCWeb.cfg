SPECIFICATION WebSpec
CONSTANTS
    c1 = c1
    c2 = c2
    Clients = {c1, c2}
    NoClient = NoClient
    Fds = {5, 6}
    LISTEN = 3
    MaxBytes = 2
    Window = 2
    SndBuf = 1
    MaxEvents = 3
    BUFFLEN = 2
    BuffBehindData = TRUE
    Reach = 1
    ZeroWriters = {}
    CutInName <- MCCutInName
    Faults = TRUE
INVARIANTS
    WebTypeOK
    NoLostWakeup
    BuffIsOneRequest
    
SYMMETRY Symmetry
CHECK_DEADLOCK FALSE
