SPECIFICATION FairSpec
CONSTANTS
    Clients = {t1, t2}
    Devices = {d1}
    MaxScans = 3
    MaxStops = 1
INVARIANTS
    OrphanOnlyByRace
PROPERTIES
    StoppedEnds
CHECK_DEADLOCK FALSE
