\* Two calls of a guardrail whose pool has room for two instances.
SPECIFICATION PoolSpec
CONSTANTS
    WasmCalls = {w1, w2}
    Instances = {i1, i2, i3}
    WasmHosts = {"guardrail"}
    PoolSize = 2
CHECK_DEADLOCK FALSE
INVARIANT OneCallAnInstance
