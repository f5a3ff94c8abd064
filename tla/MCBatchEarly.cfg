\* SQLite: a worker overtakes Create.
SPECIFICATION Spec
CONSTANTS
    N = 2
    Workers = {w1, w2}
    Canceller = canceller
    Nobody = nobody
    ReadCommitted = FALSE
    Durable = FALSE
    MaxRequeue = 1
    MaxCrash = 1
    MaxTimeout = 1
INVARIANT
    CompletedMeansAll
