SPECIFICATION Spec
CONSTANTS
    Task = {t1, t2, t3}
    NoTask = none
    MaxCalls = 3
    MaxNest = 2
    MaxDrops = 1
    MaxFaults = 1
    MaxDisconnects = 1
SYMMETRY Symmetric
INVARIANTS
    TypeOK
    SessionsPerDrop
    OneDropHidden
    CommittedUnlessOverlapped
    ThrownLeavesNothing
    WaitersHaveALogin
CHECK_DEADLOCK FALSE
