SPECIFICATION Spec
CONSTANTS
    MaxSessions = 2
    MaxData = 2
    MaxListeners = 2
INVARIANTS
    ListenerLives
PROPERTIES
    InOrder
    EndIsTold
CHECK_DEADLOCK FALSE
