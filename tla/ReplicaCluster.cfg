SPECIFICATION FairSpec
CONSTANTS
    b1 = b1
    b2 = b2
    b3 = b3
    Brokers = {b1, b2, b3}
    ReplicaIDs = {b1, b2, b3}
    LeaderID = b1
    MaxLag = 0
    MaxLEO = 2
    MaxTime = 1
    MaxFetch = 1
    MaxFaults = 2
CHECK_DEADLOCK FALSE
INVARIANTS
    
    
    VisibleWithinLog
    VisibleIsCommitted
PROPERTIES
    ReadmittedOnlyWhenCaughtUp
    CatchesUp
