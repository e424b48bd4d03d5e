SPECIFICATION FairSpec
CONSTANTS
    h1 = h1
    h2 = h2
    t1 = t1
    t2 = t2
    Handlers = {h1, h2}
    Partitions = {1}
    Names = {t1, t2}
    QueueCap = 1
    AutoCreates = {TRUE, FALSE}
    MaxOffset = 1
    MaxRequests = 3
    MaxFailures = 1
    MaxAppendErrors = 1
    MaxRestarts = 1
CHECK_DEADLOCK FALSE
INVARIANTS
    
    ServedIsSaved
    QueuedBeforeCloseDrained
    
    
PROPERTY
    ShutdownCompletes
