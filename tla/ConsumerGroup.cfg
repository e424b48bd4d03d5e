SPECIFICATION Spec
CONSTANTS
    MemberIDs = {1, 2, 3}
    Partitions = {0, 1}
    NoLeader = NoLeader
    NoAnswer = NoAnswer
    Threads = {t1}
    MaxGeneration = 2
    MaxExpiries = 1
    MaxLosses = 1
CHECK_DEADLOCK FALSE
INVARIANTS
    LeaderIsMember
    
    
