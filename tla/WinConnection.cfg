SPECIFICATION FairSpec
CONSTANTS
    Clients = {t1, t2}
    NoAgent = NoAgent
    MaxSockets = 2
    HandleReuse = TRUE
    MaxConns = 2
    MaxReaders = 2
    MaxDrops = 1
    MaxSends = 1
    MaxListeners = 1
INVARIANTS
    SendOnOwnSocket
    SocketsOwned
    InstalledReaderSafe
    NobodyWaitsInVain
PROPERTIES
    CallsReturn
    DeadConnectionEnds
CHECK_DEADLOCK FALSE
