SPECIFICATION MCSpec
CONSTANTS
    None = None
    Garbled = Garbled
    Calls = {c1, c2, c3}
    Closers = {k1}
    Peers = {p1}
    Server = p1
    IdCount = 2
    Limit = 1
    Code = "ACCESS_REQUEST"
    ReplyCodes = {"ACCESS_ACCEPT", "ACCOUNTING_RESPONSE"}
    Parts = {"radsec", "frames", "passwords", "inner", "tls"}
CHECK_DEADLOCK FALSE
INVARIANTS
    LeasesSound
    EndedTellsAll
    FramesExact
    StreamExact
    OnlyEarnedSuccess
PROPERTIES
    HonestEnds
