SPECIFICATION OperatorSpec
CONSTANTS
    MaxCommands = 2
    MaxChanges = 2
    m1 = m1
    m2 = m2
    e1 = e1
    e2 = e2
    Results <- MCResults
    EpisodeSets <- MCEpisodeSets
    Machines <- MCMachines
SYMMETRY MCSymmetry
INVARIANTS
    OnlyWholePlansRun
    
    ReleasesAreAudited
CHECK_DEADLOCK FALSE
