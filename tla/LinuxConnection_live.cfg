SPECIFICATION FairSpec
CONSTANTS
    Clients = {t1, t2}
    MaxStreams = 2
    MaxTasks = 2
    MaxCallbacks = 0
    MaxData = 0
PROPERTIES
    DeadConnectionEnds
    CallsReturn
    DroppedCloses
CHECK_DEADLOCK FALSE
