SPECIFICATION Spec
CONSTANTS
    Starter = s
    Workers = {w1, w2}
    Completers = {k1}
    Cancelers = {c1, c2}
    Waiters = {}
    Getters = {g1}
    Callbacks = {FALSE}
    Reschedules = 1
    Oom = FALSE
    MayTerminate = TRUE
    Shared = FALSE
    c1 = c1
    c2 = c2
    g1 = g1
    k1 = k1
    s = s
    w1 = w1
    w2 = w2
SYMMETRY Symmetry
INVARIANTS
    CleanupAlone
PROPERTIES
    Settled
