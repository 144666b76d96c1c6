SPECIFICATION FairSpec
CONSTANTS
    N = 2
    Task <- MCTask
    Calls <- MCCalls
    Refused <- MCRefused
    Minimum = 50
    Workers <- MCWorkers
    MaxLosses = 1
INVARIANTS
    RepeatsAreBounded
    OneConfiguration
    SealedIsWhole
    PassIsEarned
    CitedExactly
PROPERTY Settles
CHECK_DEADLOCK FALSE
