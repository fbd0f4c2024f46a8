SPECIFICATION MCSpec
CONSTANTS
    t1 = t1  t2 = t2  t3 = t3
    k1 = k1  k2 = k2
    g1 = g1  g2 = g2  g3 = g3
    r1 = r1  r2 = r2
    Parts = {"pair", "queue"}
    Tasks = {t1, t2}
    Keys = {k1, k2}
    Shards = {1}
    ShardOf <- OneShard
    Gates = {g1, g2}
    Replies = {r1, r2}
    TTL = 1
    EvictBudget = 1
    MaxTime = 2
    None = None
INVARIANTS
    HandlerExclusion
    NoGateLeak
PROPERTIES
    LiveReplyKept
    ImplementsReplyOnce
    QueueEnds
