SPECIFICATION Spec
CONSTANTS
    QueueMax = 2
    FileMax = 2
    EntriesMax = 2
    Rotations = 1
    Flushers = {f1}
    MaxRecords = 2
    MaxFailures = 0
CHECK_DEADLOCK FALSE
INVARIANTS
    NothingLostSilently
