SPECIFICATION FairRunSpec
CONSTANTS
    Modes = {"free"}
    AllSurfaces = {"communications", "ledger", "cases"}
    RequestIds <- MCIds
    Candidates <- MCCandidates
    Requests <- MCRequests
    Policies = {"scripted", "chat", "refuse"}
    TurnLimit <- MCTurnLimit
    MaxRetries = 2
    Episodes = 2
INVARIANTS
    VerdictsAgree
    PoliciesDeliver
PROPERTIES
    RunEnds
CHECK_DEADLOCK FALSE
