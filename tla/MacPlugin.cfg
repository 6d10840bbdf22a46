SPECIFICATION FairSpec
CONSTANTS
    w1 = w1
    w2 = w2
    Watch = {w1, w2}
    Speaker = {s1}
    NoOutput = NoOutput
    LooksLike <- MCLooksLike
    ListenerFails = TRUE
    MaxSwitches = 1
    MaxScans = 2
    MaxInquiries = 2
INVARIANTS
    NoInquiryWhileConnecting
    ScanGoesOn
    ListIsOfThisScan
    TargetsAreGuarded
    NoPingPong
PROPERTIES
    OutputRestored
CHECK_DEADLOCK FALSE
