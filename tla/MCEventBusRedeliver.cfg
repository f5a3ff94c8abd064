\* Kafka: a failed message followed by a successful one.
SPECIFICATION Spec
CONSTANTS
    Events = {e1, e2, e3}
    Handled = {e1, e2}
    Workers = {w1, w2}
    Idle = idle
    Gone = gone
    Buffer = 1
    Kafka = TRUE
    SlowHandlers = FALSE
    MaxCrash = 1
INVARIANT
    FailedIsNotCommitted
