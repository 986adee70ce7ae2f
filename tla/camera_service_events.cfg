\* One camera and one HAL process: callbacks of two configurations overtake each other.
SPECIFICATION ServiceSpec
CONSTANTS
    NumSlots = 1
    Cameras = {c1}
    Valid = {c1}
    Clients = {c1, recovery}
    Recovery = recovery
    MaxLives = 1
    MaxTokens = 2
    MaxCalls = 2
    MaxAttempts = 1
    None = None
INVARIANTS
    ProducerFollowsConfiguration
PROPERTIES
    DeliveriesAdvance
CHECK_DEADLOCK FALSE
