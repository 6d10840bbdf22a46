SPECIFICATION FairSpec
CONSTANTS
    Clients = {t1, t2}
    MaxGen = 4
INVARIANTS
    StaleScanSilent
    ScanningIsHonest
    StopsAreTold
PROPERTIES
    CallsReturn
CHECK_DEADLOCK FALSE
