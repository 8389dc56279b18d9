SPECIFICATION WebSpec
CONSTANTS
    c1 = c1
    c2 = c2
    Clients = {c1, c2}
    NoClient = NoClient
    Fds = {5, 6}
    LISTEN = 3
    MaxBytes = 5
    Window = 5
    SndBuf = 4
    MaxEvents = 3
    BUFFLEN = 6
    BuffBehindData = FALSE
    Reach = 0
    ZeroWriters = {}
    CutInName <- MCCutInName
    Faults = FALSE
PROPERTIES
    ClosesOnlyEnded
CHECK_DEADLOCK FALSE
