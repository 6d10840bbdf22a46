SPECIFICATION Spec
CONSTANTS
    Threads = {t1, t2}
    Sizes = {1, 3}
    MaxInFlight = 2
    WritesPerTurn = 2
    MaxSends = 2
    MaxSessions = 2
INVARIANTS
    InFlightExact
    BuffersKept
    PumpNotLost
PROPERTIES
    ImplementsStream
SYMMETRY MCSymmetry
CHECK_DEADLOCK FALSE
