SPECIFICATION Spec
CONSTANTS
    Children = {c1, c2, c3}
    MaxActive = 2
    Windows = FALSE
    Protected = {c3}
SYMMETRY Interchangeable
INVARIANTS
    RegistryCoversLive
    ReportTruthful
    AttributionExclusive
PROPERTIES
    FirstRequestWins
CHECK_DEADLOCK FALSE
