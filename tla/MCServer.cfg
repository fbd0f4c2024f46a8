SPECIFICATION MCFairSpec
CONSTANTS
    u1 = u1  r1 = r1
    j1 = j1  j2 = j2  c1 = c1  a1 = a1
    BindOrder <- Mixed
    Udp = {u1}
    Jobs = {j1, j2}
    Conns = {c1}
    ClientIds = {a1}
    None = None
    Hello = Hello  Notify = Notify  Rekey = Rekey
    Parts = {"server", "stream"}
CHECK_DEADLOCK FALSE
INVARIANTS
    RegistryExact
    AtMostOneLateFrame
    UdpDrained
    ErrorReported
    StreamIntact
PROPERTIES
    ServerEnds
    Served
