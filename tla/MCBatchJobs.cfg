\* SQLite: one transaction at a time, under fairness.  Postgres: statements of
\* concurrent transactions interleave.
SPECIFICATION BatchSpec
CONSTANTS
    N = 2
    Workers = {w1, w2}
    Canceller = canceller
    Nobody = nobody
    ReadCommitted = FALSE
    Durable = FALSE
    MaxRequeue = 1
    MaxCrash = 1
    MaxTimeout = 1
INVARIANTS
    TypeOK
    TokensCountedOnce
    CountersNeverAhead
    SerialSettled
PROPERTIES
    ResultIsFinal
    SerialFinalStatusKept
    SerialCancelCompletes
