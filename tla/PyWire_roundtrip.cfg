SPECIFICATION Spec
CONSTANTS
    Value = {v1, v2}
    MaxWrites = 2
SYMMETRY Symmetric
INVARIANTS
    AddressKept
    RuleKept
    NatKept
    ServiceKept
CHECK_DEADLOCK FALSE
