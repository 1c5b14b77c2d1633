SPECIFICATION FairSpec
CONSTANTS
    c1 = c1
    c2 = c2
    Clients <- MCClients
    MaxConnections = 2
    MaxRecordings = 2
    Free = Free
    Waker = Waker
INVARIANTS
    CountIsKept
    DoorIsAccountedFor
    WhatRanIsFinished
PROPERTIES
    StopEnds
CHECK_DEADLOCK FALSE
