SPECIFICATION FairSpec
CONSTANTS
    Children = {c1, c2}
    MaxActive = 1
    Windows = TRUE
    Protected = {c2}
INVARIANTS
    OutcomeTruthful
PROPERTIES
    ChildrenSettle
    ShutdownReports
CHECK_DEADLOCK FALSE
