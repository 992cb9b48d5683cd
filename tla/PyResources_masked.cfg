CONSTANTS
    Actor = {a1, a2}
    Name = {n1, n2, n3}
    Device = Device
    MaxCalls = 2
    MaxFaults = 0
SPECIFICATION Spec
SYMMETRY Symmetric
INVARIANT CreateReportsConflict
