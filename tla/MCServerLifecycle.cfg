SPECIFICATION FairSpec
CONSTANTS
    c1 = c1
    c2 = c2
    c3 = c3
    p1 = p1
    p2 = p2
    k1 = k1
    k2 = k2
    Conns = {c1, c2, c3}
    Servers = {p1, p2}
    Closers = {k1, k2}
    NoConn = NoConn
INVARIANTS
    NoneSlipsPastSnapshot
    ShutdownOrdered
PROPERTIES
    CloseReturns
