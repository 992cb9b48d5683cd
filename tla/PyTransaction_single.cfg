CONSTANTS
    Task = {t1}
    Candidates = 3
    ModeEndpoint = 2
    MaxNest = 3
    MaxBlocks = 3
    MaxWrites = 2
    MaxFaults = 2
    MaxCancels = 0
    MaxExpiries = 0
SPECIFICATION Spec

INVARIANTS
    TypeOK
    CleanExitCommits
    RaisedRollsBack
    ModeSpansBodies
PROPERTIES
    AtomicBlocks
