\* Two requests and a flusher on a ledger that does not exist yet.  Either one
\* Redis call may fail and the flusher may die, or an administrator changes the
\* budget and invalidates the ledger.
SPECIFICATION LedgerSpec
CONSTANTS
    Requests = {r1, r2}
    Flushers = {f1}
    Admins = {a1}
    NoOne = none
    Reserver = r1
    MaxDisturbed = 1
    Cost <- Costs
    Budget = 2
    MaxFaults = 1
    MaxCrash = 1
INVARIANTS
    LedgerSound
    Accounted
PROPERTIES
    SpentReachesRow
    ImplementsAccount
