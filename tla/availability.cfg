\* Two cameras for one slot, two service threads, two lives of each process.  The
\* last life of either has nothing left to do: that is the end of a behaviour.
SPECIFICATION Spec
CONSTANTS
    Cameras = {1, 2}
    Threads = {t1, t2}
    None = None
    NumSlots = 1
    MaxManagers = 2
    MaxHals = 2
INVARIANTS
    ConnectedIsListened
    SettledViewAgrees
PROPERTY Reconnects
CHECK_DEADLOCK FALSE
