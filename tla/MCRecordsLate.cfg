\* The details of a response are stored after its answer.
SPECIFICATION RecSpec
CONSTANTS
    Responses = {"r1", "r2"}
    RecDrivers = {"postgres", "sqlite"}
    MaxRecFaults = 1
    MaxAgain = 2
CHECK_DEADLOCK FALSE
INVARIANT AnswerKept
