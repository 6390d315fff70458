CONSTANTS
    Contexts = {"Work", "Completion"}
    Suspenders = {s1, s2}
    Oom = TRUE
    MaxItems = 2
    MaxTerms = 2
    MaxHandles = 2
    MaxCalls = 3
SYMMETRY Symmetry
SPECIFICATION Spec
CHECK_DEADLOCK FALSE
INVARIANTS
    NoUseAfterRundown
    CompletionOpen
    TerminatedMeansOver
    NothingStuck
