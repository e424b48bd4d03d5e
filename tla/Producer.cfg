SPECIFICATION FairSpec
CONSTANTS
    Callers = {s1, s2, s3}
    Closers = {c1}
    Partitions = {p1}
    BatchSize = 2
    Linger = TRUE
    MaxFailures = 1
CHECK_DEADLOCK FALSE
INVARIANTS
    SentOnce
    OffsetsAreTheirs
PROPERTY
    EverySendReturns
