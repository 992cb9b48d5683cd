SPECIFICATION Spec
CONSTANTS
    Thread = {t1, t2, t3}
    NoThread = none
    MaxCalls = 3
    MaxDrops = 1
    MaxFaults = 1
    MaxDisconnects = 1
SYMMETRY Symmetric
INVARIANTS
    LockIsReleased
    SessionsPerLoss
    OneDropHidden
    CommittedUnlessOverlapped
    PendingOnlyAfter
CHECK_DEADLOCK FALSE
