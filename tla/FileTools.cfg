SPECIFICATION Spec
CONSTANTS
    c1 = c1
    c2 = c2
    c3 = c3
    f = f
    g = g
    a = a
    Calls = {c1, c2, c3}
    Names = {f, g, a}
    Archive = a
    Target = f
    Source = g
    Plans <- MCPlans
    MaxEntries = 1
    MaxBytes = 1
    SsrfMode = "deny-private"
    MaxExpanded = 2
    MaxRedirects = 1
    MaxRetries = 1
    MaxStamp = 3
INVARIANTS
    CachedTruth
    TransfersWhole
    NoStagingLeft
    BudgetShared
