----------------------------- MODULE MCEventBus -----------------------------
(***************************************************************************)
(* Small instances of EventBus: the channel alone, and the channel behind   *)
(* Kafka with fewer callers.  A behaviour is one of the one or the other.   *)
(***************************************************************************)
EXTENDS EventBus, FiniteSets

CONSTANTS
    KafkaEvents,      \* with Kafka, the events that may be published,
    MaxKafkaEvents    \*  and how many of them are

VARIABLE part         \* "channel" or "kafka"

Topic == INSTANCE EventBus WITH Kafka <- TRUE, SlowHandlers <- FALSE

BusInit ==
    \/ part = "channel" /\ Init
    \/ part = "kafka" /\ Topic!Init

FewCallers ==
    LET published == {e \in Events : pub'[e] # "ready"}
    IN  published \subseteq KafkaEvents /\ Cardinality(published) <= MaxKafkaEvents

BusNext ==
    /\ \/ part = "channel" /\ Next
       \/ part = "kafka" /\ Topic!Next /\ FewCallers
    /\ UNCHANGED part

\* The fairness of EventBus, for the channel.
ChannelFairness ==
    /\ \A e \in Events : WF_vars(part = "channel" /\ pub[e] # "ready" /\ Publisher(e))
    /\ \A w \in Workers : WF_vars(part = "channel" /\ WorkerStep(w))
    /\ WF_vars(part = "channel" /\ ReaderStep)
    /\ WF_vars(part = "channel" /\ CloseStep)

BusSpec == BusInit /\ [][BusNext]_<<vars, part>> /\ ChannelFairness

-----------------------------------------------------------------------------
\* The channel alone, without Kafka: once PublishEvent has taken the in-memory path its event
\* is handled, also while the bus closes, unless the send panics or the process dies, and
\* Close comes to an end.
ChannelDelivers == part = "channel" => DispatchedIsHandled /\ CloseEnds
=============================================================================
