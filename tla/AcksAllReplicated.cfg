SPECIFICATION Spec
CONSTANTS
    b1 = b1
    b2 = b2
    p1 = p1
    h1 = h1
    Brokers = {b1, b2}
    ReplicaIDs = {b1, b2}
    LeaderID = b1
    MaxLag = 0
    MaxLEO = 1
    MaxTime = 1
    Producers = {p1}
    FetchHandlers = {h1}
    MinISR = 2
    MaxBatch = 1
    MaxFailures = 1
    NoHandler = NoHandler
INVARIANTS
    AckedHeldByISR
