CONSTANTS
    Task = {t1, t2, t3}
    NoTask = NoTask
    Calls <- AllCalls
    Scoped <- ConnectFirst
    SessionLimit = 10
    MaxCalls = 5
    MaxDrops = 2
    MaxFaults = 1
SPECIFICATION Spec
SYMMETRY Tasks
INVARIANTS
    TypeOK
    LockExcludes
    RequestsCarryFreshToken
    NeverFallsBack
    ExactlyOnce
    SessionsBounded
    ExpiryTransparent
