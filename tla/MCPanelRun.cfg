SPECIFICATION FairSpec
CONSTANTS
    Arms = {m1}
    Cases = {k1, k2}
    Workers = 2
    Configs = {c1, c2}
    TurnLimit = 2
    Budget = 4
    PerTurn = 3
    Least = 2
    Reports <- MCReports
    Attempts = 2
    Failures = {"provider_error", "invalid_json"}
    MaxLosses = 1
INVARIANTS
    Replayable
    RecordsAreReplays
    ReportIsWhole
    SamplesAreBounded
PROPERTIES
    SavedIsFinal
    Settles
CHECK_DEADLOCK FALSE
