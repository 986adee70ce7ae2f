\* One camera: callbacks and surfaces of a HAL that dies, and of the one that takes over.
SPECIFICATION ServiceSpec
CONSTANTS
    NumSlots = 1
    Cameras = {c1}
    Valid = {c1}
    Clients = {c1, recovery}
    Recovery = recovery
    MaxLives = 2
    MaxTokens = 1
    MaxCalls = 2
    MaxAttempts = 1
    None = None
INVARIANTS
    ProducerFollowsConfiguration
CHECK_DEADLOCK FALSE
