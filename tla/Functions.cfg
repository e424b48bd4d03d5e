SPECIFICATION Spec
CONSTANTS
    Nil = Nil
    Err = Err
    MaxStringLength = 2
    MaxBytesLength = 1000
    MaxElements = 2
    MaxFrameSize = 1000
    MaxRecordSize = 100
    MaxMembers = 5
    MaxTopics = 3
    MaxPartitions = 6
INVARIANTS
    AssignmentsAreFair
    
    CutIsNoticed
    
CHECK_DEADLOCK FALSE
