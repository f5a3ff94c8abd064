\* Two streams share the loads of two providers, without retries and under
\* fairness; one stream with two candidates, retries and lost writes.
SPECIFICATION StreamSpec
CONSTANTS
    p1 = p1
    p2 = p2
    Retried = s1
    Streams = {s1, s2}
    Providers = {p1, p2}
    Candidates <- TwoCandidates
    Cached = cached
    Retry = FALSE
    Disconnects = TRUE
    WritesFail = FALSE
    DrainSlots = 1
    MaxEvents = 1
CHECK_DEADLOCK FALSE
INVARIANTS
    StreamSettled
    OneSource
    PlainLoadExact
PROPERTIES
    PlainStreamEnds
