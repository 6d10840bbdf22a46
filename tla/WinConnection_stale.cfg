SPECIFICATION Spec
CONSTANTS
    Clients = {t1, t2}
    NoAgent = NoAgent
    MaxSockets = 2
    HandleReuse = TRUE
    MaxConns = 2
    MaxReaders = 1
    MaxDrops = 1
    MaxSends = 0
    MaxListeners = 1
INVARIANTS
    StaleReaderSilent
CHECK_DEADLOCK FALSE
