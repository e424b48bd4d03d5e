SPECIFICATION Spec
CONSTANTS
    Sizes = {1, 2}
    SegmentBytes = 4
    IndexIntervalBytes = 2
    IndexMaxEntries = 2
    FlushMessages = 0
    RetentionBytes = 0
    MaxBatch = 1
    MaxRecords = 4
    MaxCrashes = 0
    MaxRemoveFailures = 0
INVARIANT
    ReadFromContiguous
