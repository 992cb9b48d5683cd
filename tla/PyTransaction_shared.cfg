CONSTANTS
    Task = {t1, t2}
    Candidates = 2
    ModeEndpoint = 2
    MaxNest = 2
    MaxBlocks = 2
    MaxWrites = 1
    MaxFaults = 1
    MaxCancels = 1
    MaxExpiries = 1
SPECIFICATION Spec
SYMMETRY Tasks
INVARIANTS
    DepthCountsBlocks
    LastOutResolvesAll
