SPECIFICATION Spec
CONSTANTS
    Starter = s
    Workers = {w1}
    Completers = {k1}
    Cancelers = {c1}
    Waiters = {}
    Getters = {g1}
    Callbacks = {TRUE, FALSE}
    Reschedules = 0
    Oom = TRUE
    MayTerminate = TRUE
    Shared = TRUE
    c1 = c1
    g1 = g1
    k1 = k1
    s = s
    w1 = w1
INVARIANTS
    TypeOK
    RefsExact
    CompletionAccepted
    CallbackBeforeWaiters
    CompletesOnce
CHECK_DEADLOCK FALSE
