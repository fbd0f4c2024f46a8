SPECIFICATION MCSpec
CONSTANTS
    c1 = c1  c2 = c2  c3 = c3
    k1 = k1  k2 = k2  p1 = p1
    Parts = {"udp", "radsec"}
    Calls = {c1, c2, c3}
    Peers = {p1}
    IdCount = 2
    Limit = 2
    Codes = {"ACCESS_REQUEST"}
    MaxRetries = 1
    MaxSends = 3
    ReplyCodes = {"ACCESS_ACCEPT", "ACCOUNTING_RESPONSE"}
    None = None
CHECK_DEADLOCK FALSE
INVARIANTS
    IdsExact
    CallsToldRight
PROPERTIES
    ClientsEnd
