\* One camera that the HAL accepts; the HAL may die and come back.
SPECIFICATION ServiceSpec
CONSTANTS
    NumSlots = 1
    Cameras = {c1}
    Valid = {c1}
    Clients = {c1, recovery}
    Recovery = recovery
    MaxLives = 2
    MaxTokens = 0
    MaxCalls = 0
    MaxAttempts = 1
    None = None
INVARIANT
    ValidRegistrationStays
CHECK_DEADLOCK FALSE
