\* One slot and its thread, one client thread, two HAL processes; liveness, and so
\* no symmetry.
SPECIFICATION FairSpec
CONSTANTS
    NumSlots = 1
    Cameras = {c1}
    Valid = {c1}
    Clients = {t1}
    MaxLives = 2
    MaxTokens = 1
    MaxCalls = 1
    None = None
PROPERTIES
    NativeReturns
INVARIANTS
    QueueOfConnection
    RegistrationAgrees
    ConnectionOwned
