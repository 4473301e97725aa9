SPECIFICATION FairLive
CONSTANTS
    t1 = t1
    s1 = s1
    s2 = s2
    w1 = w1
    w2 = w2
    r1 = r1
    p1 = p1
    c1 = c1
    a = a
    b = b
    e1 = e1
    e2 = e2
    Streams = {t1}
    MaxChunks = 1
    Conns = {s1, s2}
    NoConn = NoConn
    IDMod = 5
    ChanSize = 1
    MaxAnswers = 2
    Writers = {w1, w2}
    Readers = {r1}
    MaxDeadlines = 1
    HopPorts = {1}
    MaxHops = 1
    QueueSize = 1
    MaxHopReads = 2
    MaxSessions = 2
    RealmAddrs = {1}
    Responders = {p1}
    Inbound = {c1}
    Senders = {a, b}
    ErrChanCap = 2
    MaxOut = 1
    Entries = {e1, e2}
    NoEntry = NoEntry
PROPERTIES
    ServerGoroutinesEnd
    ClientWaitsEnd
    RealmStops
    InboundsUnwind
CHECK_DEADLOCK FALSE
