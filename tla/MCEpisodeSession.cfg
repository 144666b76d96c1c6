SPECIFICATION Spec
CONSTANTS
    Modes = {"free", "replay"}
    Candidates <- MCCandidates
    AllSurfaces = {"communications", "controls", "ledger", "cases", "reference"}
    RequestIds <- MCIds
    Requests <- MCRequests
INVARIANTS
    ContractHeld
    NoDeadEnd
PROPERTIES
    OutcomeStands
    ImplementsContract
CHECK_DEADLOCK FALSE
