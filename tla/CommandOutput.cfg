SPECIFICATION FairOutputSpec
CONSTANTS
    Tiers = {"off", "write", "cache"}
    MemoryMax = 2
    Cap = 2
    FallbackMax = 1
    MaxChunks = 3
    MaxFaults = 1
CHECK_DEADLOCK FALSE
INVARIANTS
    OutputFaithful
    ScannedOrGone
PROPERTIES
    RunReturns
