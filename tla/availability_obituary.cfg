\* The manager dies under setHalListener and does not come back.
SPECIFICATION Spec
CONSTANTS
    Cameras = {1}
    Threads = {t1}
    None = None
    NumSlots = 1
    MaxManagers = 2
    MaxHals = 1
PROPERTY DeathIsReported
CHECK_DEADLOCK FALSE
