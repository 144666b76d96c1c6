SPECIFICATION FairSpec
CONSTANTS
    N = 3
    MaxJobs = 2
    MaxLosses = 4
INVARIANTS
    SendsAreBounded
    ReportedIsDurable
PROPERTIES
    Settles
    AttestationStands
    ImplementsLedger
CHECK_DEADLOCK FALSE
