SPECIFICATION Spec
CONSTANTS
    a1 = a1
    a2 = a2
    c1 = c1
    c2 = c2
    Addr = {a1}
    NoAddr = NoAddr
    ListenerFails = TRUE
    Fallbacks <- MCFallbacks
    SdpChannel = c1
    Paired = {}
    PollAttempts = 2
    MaxConnects = 2
    MaxEnds = 2
    MaxSends = 2
INVARIANTS
    TypeOK
    InfoMatchesSessions
    RetiringEnds
PROPERTIES
    StaleBlocksInert
CHECK_DEADLOCK FALSE
