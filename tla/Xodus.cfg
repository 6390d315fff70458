CONSTANTS
    Calls = {c1, c2}
    Root = Root
    Ops = {c1, c2}
    Kinds = {"msa"}
    Cap = 2
    MaxFaults = 1
SPECIFICATION Spec
CHECK_DEADLOCK FALSE
SYMMETRY Symmetry
INVARIANTS
    InvokedOnce
    ListIntact
    StrayExplained
    ResponseNotReplayed
    FramesInOrder
    NothingStuck
PROPERTIES
    OverStaysOver
