CONSTANTS
    Contexts = {c1}
    Apps = {a1, a2}
    Suspenders = {a1, a2}
    Pool = {p1, p2}
    Dispatchers = {}
    Timers = {}
    DispatchModes = {"ThreadPool", "Serialized"}
    Delays = {0}
    Oom = FALSE
    MaxItems = 2
    MaxTerms = 1
    Horizon = 0
SPECIFICATION Spec
CHECK_DEADLOCK FALSE
SYMMETRY Symmetry
INVARIANTS
    TypeOK
    SuspendHoldsTermination
    NothingLeftBehind
    TerminationAfterCallbacks
    SerializedOneAtATime
