SPECIFICATION FairSpec
CONSTANTS
    Starter = s
    Workers = {w1}
    Completers = {k1}
    Cancelers = {}
    Waiters = {v1}
    Getters = {g1}
    Callbacks = {TRUE}
    Reschedules = 0
    Oom = TRUE
    MayTerminate = TRUE
    Shared = FALSE
    g1 = g1
    k1 = k1
    s = s
    v1 = v1
    w1 = w1
PROPERTIES
    WaitersReturn
    StateFreed
    QueueTerminationCompletes
