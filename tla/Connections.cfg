SPECIFICATION FairSpec
CONSTANTS
    MaxConns = 2
    Connections = 3
    f1 = f1
    f2 = f2
    Callers = {f1, f2}
    Nobody = Nobody
    MaxEvents = 3
CHECK_DEADLOCK FALSE
INVARIANTS
    ConnectionLimit
    
    AnswersMatch
PROPERTY
    EveryFetchReturns
