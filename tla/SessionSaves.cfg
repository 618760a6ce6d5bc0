SPECIFICATION FairSpec
CONSTANTS
    Flushers = {f1, f2}
    MaxRevision = 3
    MaxFailures = 1
    MaxFlushes = 2
CHECK_DEADLOCK FALSE
INVARIANTS
    SavesTold
PROPERTIES
    DiskNeverGoesBack
    StoreProceeds
