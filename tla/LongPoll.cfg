SPECIFICATION Spec
CONSTANTS
    Partitions = {p1, p2}
    Fetches = {f1, f2}
    Producers = {h1}
    TargetSets = {{p1, p2}}
    Replicated = TRUE
    MaxLEO = 1
    MaxFetches = 1
    Nil = Nil
SYMMETRY Symmetry
CHECK_DEADLOCK FALSE
INVARIANTS
    ListenersExact
    AloneIsWoken
