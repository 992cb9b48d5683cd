CONSTANTS
    Task = {t1, t2, t3, t4}
    NoTask = NoTask
    Calls <- RequestsOnly
    Scoped <- ConnectFirst
    SessionLimit = 3
    MaxCalls = 4
    MaxDrops = 1
    MaxFaults = 0
SPECIFICATION Spec
SYMMETRY Tasks
INVARIANTS
    ExpiryTransparent
