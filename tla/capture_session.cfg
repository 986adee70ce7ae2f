\* Two buffers, two calls of up to two requests, a flush and a close.
SPECIFICATION Spec
CHECK_DEADLOCK FALSE
CONSTANTS
    Buffers = {b1, b2}
    Batches <- MCBatches
    Flushers = {f1}
    MaxCalls = 2
    MaxConfigs = 2
    MaxFlushes = 1
INVARIANTS
    NoEarlyWrite
    ConsumersGuarded
    KnownIsCached
    NothingKept
    CloseDrains
PROPERTIES
    CallsReturn
