CONSTANTS
    Contexts = {c1}
    Apps = {a1, a2}
    Suspenders = {a1}
    Pool = {p1}
    Dispatchers = {}
    Timers = {m1}
    DispatchModes = {"ThreadPool", "Immediate"}
    Delays = {0, 1}
    Oom = TRUE
    MaxItems = 1
    MaxTerms = 1
    Horizon = 1
SPECIFICATION FairSpec
CHECK_DEADLOCK FALSE
INVARIANTS
    ExactlyOnce
PROPERTIES
    EveryCallbackRuns
    TerminationCompletes
