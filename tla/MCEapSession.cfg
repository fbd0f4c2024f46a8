SPECIFICATION Spec
CONSTANTS
    Rounds = {r1, r2}
    Types = {"PEAP", "TLS", "TTLS", "MD5"}
    Registered = {"PEAP", "TLS"}
    Preferred = "PEAP"
    Names = {alice}
    Wants <- MCWants
    IdCount = 3
    Capacity = 2
    IdleTimeout = 1
    EvictBatch = 1
    MaxTime = 1
    MaxTokens = 3
    MaxConvs = 3
    None = None
SYMMETRY Symmetry
CHECK_DEADLOCK FALSE
INVARIANTS
    SessionsExact
    NegotiationSound
PROPERTY OnlyEarliestEvicted
