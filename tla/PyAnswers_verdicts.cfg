SPECIFICATION Spec
CONSTANTS
    Item = {i1, i2}
    Paths = 4
SYMMETRY Symmetric
INVARIANTS
    ExpiryIsRetriedFirst
    VerdictsAreTheDevices
    LimitationsRecognised
    LeasesOfFirstPath
CHECK_DEADLOCK FALSE
