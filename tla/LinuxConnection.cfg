SPECIFICATION Spec
CONSTANTS
    Clients = {t1, t2}
    MaxStreams = 2
    MaxTasks = 2
    MaxCallbacks = 1
    MaxData = 2
INVARIANTS
    InOrder
    CallbackOnce
PROPERTIES
    HealthyKept
SYMMETRY MCSymmetry
CHECK_DEADLOCK FALSE
