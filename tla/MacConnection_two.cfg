SPECIFICATION FairSpec
CONSTANTS
    a1 = a1
    a2 = a2
    c1 = c1
    c2 = c2
    Addr <- MCAddr
    NoAddr = NoAddr
    ListenerFails = FALSE
    Fallbacks <- MCFallbacks
    SdpChannel = c1
    Paired = {a2}
    PollAttempts = 2
    MaxConnects = 2
    MaxEnds = 1
    MaxSends = 0
INVARIANTS
    OneAttempt
    ConnectionsServed
    GuardFollowsConnections
PROPERTIES
    ImplementsSlot
    ConnectionsResolve
CHECK_DEADLOCK FALSE
