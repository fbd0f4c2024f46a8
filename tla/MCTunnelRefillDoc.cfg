\* Do the fragments of a flight of EAP-TTLS or PEAP go out once and in order?
SPECIFICATION RefillSpec
CONSTANTS
    None = None
    Garbled = Garbled
    Calls = {c1, c2, c3}
    Closers = {k1}
    Peers = {p1}
    Server = p1
    IdCount = 2
    Limit = 1
    Code = "ACCESS_REQUEST"
    ReplyCodes = {"ACCESS_ACCEPT", "ACCOUNTING_RESPONSE"}
    Parts = {"refill"}
CHECK_DEADLOCK FALSE
INVARIANTS
    StreamExact
