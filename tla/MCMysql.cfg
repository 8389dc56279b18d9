SPECIFICATION FairSpec
CONSTANTS
    Waiters = {0, 1}
    MaxRows = 2
    AddEpoll = {TRUE, FALSE}
    LOOPS = 1
    Interrupts = TRUE
INVARIANTS
    MysqlTypeOK
    ContinuesPending
    PendingIsWatched
    CrashOnlyAfterError
    ResultFreedOnce
PROPERTIES
    EveryOperationEnds
CHECK_DEADLOCK FALSE
