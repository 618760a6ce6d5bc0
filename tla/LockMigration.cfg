SPECIFICATION FairSpec
CONSTANTS
    NoFile = NoFile
    Callers = {c1, c2, c3}
    TakeoverOnCorrupt = FALSE
    TakeoverOnDeadOwner = TRUE
    Heartbeats = TRUE
    MaxFaults = 2
CHECK_DEADLOCK FALSE
INVARIANTS
    Exclusion
    TakeoverOnlyOfAbandoned
PROPERTIES
    LockIsRecovered
