SPECIFICATION Spec
CONSTANTS
    Clients = {t1, t2}
    MaxStreams = 2
    MaxTasks = 1
    MaxCallbacks = 0
    MaxData = 0
INVARIANTS
    NoCompletedReader
SYMMETRY MCSymmetry
CHECK_DEADLOCK FALSE
