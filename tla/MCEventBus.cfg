\* The channel alone: a buffer of one, two workers, four publishers, Close and
\* a crash, one event without a handler.  With Kafka: two publishers.
SPECIFICATION BusSpec
CONSTANTS
    Events = {e1, e2, e3, e4}
    Handled = {e1, e2, e3}
    Workers = {w1, w2}
    Idle = idle
    Gone = gone
    Buffer = 1
    Kafka = FALSE
    SlowHandlers = TRUE
    MaxCrash = 1
    KafkaEvents = {e2, e3, e4}
    MaxKafkaEvents = 2
INVARIANTS
    DeliverySound
PROPERTIES
    ChannelDelivers
