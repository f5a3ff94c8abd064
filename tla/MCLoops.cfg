\* Two replicas with two requests each share a breaker's snapshot; the operator
\* with two edits, one failing call or one change behind its back, or an endpoint
\* made, deleted and made anew; a gateway
\* that is told to stop while three requests are served.
SPECIFICATION LoopsSpec
CONSTANTS
    \* CircuitBreaker
    Replicas = {r1, r2}
    Slots = {s1, s2}
    FailureThreshold = 2
    HalfOpenMaxRequests = 1
    MaxRestart = 1
    Busy = r1
    OnlySlot = s1
    \* OperatorReconcile
    SpecsOf <- Resources
    MaxObjEdits = 3
    MaxMixed = 2
    MaxOpFaults = 1
    MaxMeddling = 1
    MaxTroubles = 1
    \* GatewayLifecycle
    Requests = {"r1", "r2", "r3"}
    BusRoom = 1
    LooseRoom = 1
CHECK_DEADLOCK FALSE
INVARIANTS
    BreakerSound
    OperatorSound
    LifeSound
PROPERTIES
    OpenEnds
    EventuallySynced
    EventuallyExits
