\* Two pools, one replaced by the other, two buffers each and four frames in all.
\* The process can die of a stale pointer: that is the end of a behaviour.
SPECIFICATION Spec
CHECK_DEADLOCK FALSE
CONSTANTS
    NumBuffers = 2
    RingSize = 4
    IndexSpan = 8
    MaxConnections = 2
    MaxFrames = 4
INVARIANTS
    InUseIsMarked
    RingsHaveRoom
    AcknowledgedPoolIsUsed
PROPERTIES
    SubmittedComesBack
    FirstPoolExchanges
