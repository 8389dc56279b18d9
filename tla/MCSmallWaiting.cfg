SPECIFICATION FairSpec
CONSTANTS
    Programs = {"server-1"}
    Guests = {g1, g2}
    Interactive = {g1, g2}
    Nobody = nobody
    BuffLen = 2
    Reach = 2
    MaxSent = 3
    Contents <- MCContents
    Counts = {0, 1, 2}
    MaxAppends = 7
    Producers = {p1, p2}
    Consumers = {c1, c2}
    iterations = 2
PROPERTIES
    EveryRecvReturns
CHECK_DEADLOCK FALSE
