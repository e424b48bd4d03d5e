SPECIFICATION Spec
CONSTANTS
    Sizes = {1, 2}
    SegmentBytes = 4
    IndexIntervalBytes = 2
    IndexMaxEntries = 2
    FlushMessages = 2
    RetentionBytes = 4
    MaxBatch = 2
    MaxRecords = 4
    MaxCrashes = 2
    MaxRemoveFailures = 1
INVARIANTS
    OffsetsDense
    ReadFindsRecord
    ReadFromProgress
PROPERTY
    ImplementsLog
