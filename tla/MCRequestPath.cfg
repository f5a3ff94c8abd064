\* The limiter, Create, the caches, the router, the policies of a service, the
\* conversion of streams, the orchestrator, the records and the WASM hosts: each
\* module alone, one after the other.
SPECIFICATION PathSpec
CONSTANTS
    i1 = i1
    \* RateLimiter
    Callers = {r1, r2}
    Nobody = nobody
    Confs <- TheLimits
    FirstConf <- Limits1
    TokenCost = 1
    DisabledBurst = 2
    UserQPS = 0
    QueueSize = 1
    MaxGen = 2
    MaxEvents = 1
    \* SyncResponses
    Reqs = {q1, q2}
    Nobody2 = nobody2
    NCand = 2
    MaxRetries = 1
    MaxLoopRounds = 1
    BusSize = 1
    PersistSlots = 1
    MaxSrFault = 1
    Troubled = q1
    \* ResponseCache
    Questions <- Asked
    Drivers = {"sqlite"}
    TTLs = {1}
    SemTTL = 1
    Capacity = 1
    MaxCandidates = 1
    MaxAsks = 3
    MaxOpen = 1
    MaxPending = 1
    MaxClock = 2
    MaxCacheFaults = 1
    \* CandidateRouting
    ProvSeq <- RouteProviders
    Weight <- RouteWeight
    ModelOf <- RouteModel
    UnitCost <- RouteCost
    LatencyOf <- RouteLatency
    AliasOf <- RouteAlias
    HashOf <- RouteHash
    Worlds <- RouteWorlds
    SessionTTL = 1
    PrefixTTL = 1
    MaxOpenRoutes = 1
    \* ServicePolicy
    Models <- PolicyModels
    RuleSets <- PolicyRules
    Deltas <- PolicyDeltas
    MaxPolicyEdits = 2
    MaxDeltas = 2
    \* StreamEncoding
    Upstreams = {"anthropic", "chat", "responses"}
    EncSurfaces = {"chat", "messages", "responses"}
    MaxUpEvents = 7
    MaxCallsStreamed = 2
    \* InferenceOrchestrator
    MaxOrcCandidates = 2
    MaxAttempts = 2
    MaxOrcEvents = 3
    \* ResponseRecords
    Responses = {"r1", "r2"}
    RecDrivers = {"postgres", "sqlite"}
    MaxRecFaults = 1
    MaxAgain = 2
    \* WasmPool
    WasmCalls = {w1, w2}
    Instances = {i1, i2}
    WasmHosts = {"filter", "guardrail", "gateway"}
    PoolSize = 1
CHECK_DEADLOCK FALSE
INVARIANTS
    LimiterSound
    CreateSound
    CacheSound
    RoutingSound
    PolicySound
    EncodingSound
    OrchestratorSound
    RecordsSound
    PoolSound
PROPERTIES
    PathSteps
