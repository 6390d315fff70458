CONSTANTS
    Producers = {p1, p2}
    Consumers = {c1}
    Removers = {r1}
    Size = 5
    MaxPush = 5
    MaxRemove = 1
    MaxCalls = 5
SPECIFICATION Spec
CHECK_DEADLOCK FALSE
SYMMETRY Symmetry
INVARIANTS
    DereferencesNodes
    Conserved
    MissesOnlyEmpty
PROPERTIES
    FifoOrder
