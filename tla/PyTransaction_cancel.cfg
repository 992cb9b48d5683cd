CONSTANTS
    Task = {t1}
    Candidates = 2
    ModeEndpoint = 2
    MaxNest = 1
    MaxBlocks = 2
    MaxWrites = 1
    MaxFaults = 0
    MaxCancels = 1
    MaxExpiries = 0
SPECIFICATION Spec

INVARIANTS
    CleanExitCommits
