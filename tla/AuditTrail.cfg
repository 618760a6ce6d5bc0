SPECIFICATION FairSpec
CONSTANTS
    QueueMax = 2
    FileMax = 1
    EntriesMax = 2
    Rotations = 2
    Flushers = {f1, f2}
    MaxRecords = 4
    MaxFailures = 1
CHECK_DEADLOCK FALSE
INVARIANTS
    EntriesKept
    TrailInOrder
    CleanFlushIsWritten
PROPERTIES
    LogProceeds
