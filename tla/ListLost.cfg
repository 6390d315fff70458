CONSTANTS
    Producers = {p1, p2}
    Consumers = {}
    Removers = {r1}
    Size = 5
    MaxPush = 2
    MaxRemove = 1
    MaxCalls = 5
SPECIFICATION Spec
CHECK_DEADLOCK FALSE
SYMMETRY Symmetry
INVARIANTS
    NothingLost
