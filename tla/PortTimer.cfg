CONSTANTS
    Contexts = {c1}
    Apps = {a1}
    Suspenders = {}
    Pool = {}
    Dispatchers = {}
    Timers = {m1, m2}
    DispatchModes = {"Manual"}
    Delays = {1, 2}
    Oom = FALSE
    MaxItems = 3
    MaxTerms = 1
    Horizon = 3
SPECIFICATION Spec
CHECK_DEADLOCK FALSE
SYMMETRY Symmetry
INVARIANTS
    ExactlyOnce
    NotEarly
    NoStrandedDelay
