CONSTANTS
    Contexts = {c1}
    Apps = {a1, a2}
    Suspenders = {}
    Pool = {}
    Dispatchers = {d1}
    Timers = {}
    DispatchModes = {"Manual"}
    Delays = {0}
    Oom = TRUE
    MaxItems = 1
    MaxTerms = 2
    Horizon = 0
SPECIFICATION FairSpec
CHECK_DEADLOCK FALSE
PROPERTIES
    NoResurrection
    EveryCallbackRuns
    KeepsPromise
