CONSTANTS
    Task = {t1, t2}
    NoTask = NoTask
    Calls <- AllCalls
    Scoped <- Unstructured
    SessionLimit = 2
    MaxCalls = 3
    MaxDrops = 1
    MaxFaults = 1
SPECIFICATION FairSpec
INVARIANTS
    SessionInv
PROPERTIES
    EveryCallReturns
