\* Two cameras compete for one slot over two HAL processes; no sessions.
SPECIFICATION ServiceSpec
CONSTANTS
    NumSlots = 1
    Cameras = {c1, c2}
    Valid = {c1, c2}
    Clients = {c1, c2, recovery}
    Recovery = recovery
    MaxLives = 2
    MaxTokens = 0
    MaxCalls = 0
    MaxAttempts = 1
    None = None
SYMMETRY Interchangeable
INVARIANTS
    ServiceTypeOK
    HalProducerIsOwner
PROPERTIES
    CallsRelayInTurn
CHECK_DEADLOCK FALSE
