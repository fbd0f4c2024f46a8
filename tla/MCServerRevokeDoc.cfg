SPECIFICATION MCSpec
CONSTANTS
    u1 = u1  r1 = r1
    j1 = j1  j2 = j2  c1 = c1  a1 = a1
    BindOrder <- RadsecOnly
    Udp = {}
    Jobs = {}
    Conns = {c1}
    ClientIds = {a1}
    None = None
    Hello = Hello  Notify = Notify  Rekey = Rekey
    Parts = {"server"}
CHECK_DEADLOCK FALSE
INVARIANT RevokedSignalled
