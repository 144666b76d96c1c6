SPECIFICATION Spec
CONSTANTS
    Workers = 2
    Interval = 2
    MaxCalls = 7
    MaxTime = 12
INVARIANTS
    RateHeld
CHECK_DEADLOCK FALSE
