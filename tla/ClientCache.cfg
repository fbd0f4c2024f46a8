SPECIFICATION FairSpec
CONSTANTS
    Lookups = {l1, l2}
    Addrs = {a1, a2}
    Capacity = 1
    PositiveTTL = 2
    NegativeTTL = 1
    EvictBudget = 1
    MaxTime = 2
    MaxVersion = 1
    None = None
INVARIANTS
    SingleFlight
    EvictionSound
    FreshAfterInvalidate
PROPERTY EveryLookupEnds
