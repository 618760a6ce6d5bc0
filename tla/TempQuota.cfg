SPECIFICATION FairQuotaSpec
CONSTANTS
    p1 = p1
    p2 = p2
    r1 = r1
    r2 = r2
    Procs <- Served
    Stagings <- Staged
    Makers <- Made
    None = None
    MaxTotal = 2
    MaxWrites = 2
    MaxFaults = 1
CHECK_DEADLOCK FALSE
INVARIANTS
    CapacityKept
    LedgerConservative
PROPERTIES
    CapacityReturned
