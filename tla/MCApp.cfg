INIT InitAll
NEXT NextAll
CONSTANTS
    w1 = w1
    w2 = w2
    r1 = r1
    u1 = u1
    c1 = c1
    c2 = c2
    h1 = h1
    h2 = h2
    a = a
    b = b
    MaxMux = 2
    MaxSubs = 2
    LocalConns = {c1}
    Writers = {w1, w2}
    Readers = {r1}
    MaxDeadlines = 3
    Users = {u1}
    StatConns = {c1, c2}
    UserOf <- MCUserOf
    Sizes = {1, 3}
    DatagramLimit = 2
    MaxKicks = 1
    MaxBytes = 4
    ObModes = {"auto", "64", "4"}
    Names = {"a", "b"}
    HostName = "a"
    RetryTimes = 2
    MaxCNAMEDepth = 1
    TextRules <- MCTextRules
    MaxRules = 2
    Outs <- MCOuts
    AclRequests <- MCAclRequests
    CacheSize = 2
    MaxStream = 8
    TLSBody = 2
    MaxHeader = 6
    HelloLen = 4
    MaxFrames = 3
    Handshakes = {h1, h2}
    Renewals = 2
    MaxRuns = 3
    Inbound = {c1}
    Senders = {a, b}
    ErrChanCap = 2
    MaxOut = 2
    Sources = {a, b}
    MaxTunnel = 2
    Binaries <- MCBinaries
    Redirects <- MCRedirects
    MaxStarts = 2
    Modes = {"socks5", "http", "tcpForwarding", "udpForwarding", "tcpTProxy", "udpTProxy", "tcpRedirect", "tun"}
    MaxModes = 1
    MaxEntries = 1
    MaxAttempts = 2
INVARIANTS
    NoOrphanListener
    FastOpenSafe
    BilledOnce
    OnlyGivenStayOpen
    FirstRuleWins
    SniffingIsHarmless
    ReloadsAreSafe
    InboundServesItsClient
    TunnelClosesSessions
    SetupRollsBack
    AttemptsLeaveNothing
CHECK_DEADLOCK FALSE
