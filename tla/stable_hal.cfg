\* Two relays and two sessions of one slot, two threads that queue frames of two
\* buffers, and a GPU job, up to the saturation of the identity counter.
SPECIFICATION Spec
CONSTANTS
    NumSlots = 1
    Platforms = {p1, p2}
    Registrations = {r1}
    Sessions = {n1, n2}
    Callers = {c1, c2}
    Ahbs = {a1, a2}
    Jobs = {j1}
    MaxIdentity = 3
    MaxFrames = 2
    MaxPendingReads = 2
    None = None
SYMMETRY Interchangeable
INVARIANTS
    TypeOK
    ConfiguredByCurrentRegistration
    ConfigurationHasOwner
    PresenceAgrees
    FrameReadIsKept
    EveryReadTracked
    FrameOfConfiguration
PROPERTIES
    OwnersOnlyAdvance
