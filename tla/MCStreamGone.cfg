\* A goroutine that sends to a handler that has left.
SPECIFICATION FairSpec
CONSTANTS
    p1 = p1
    Streams = {s1}
    Providers = {p1}
    Candidates <- OneCandidate
    Cached = cached
    Retry = FALSE
    Disconnects = TRUE
    WritesFail = FALSE
    DrainSlots = 1
    MaxEvents = 1
CHECK_DEADLOCK FALSE
PROPERTIES
    DisconnectSettles
