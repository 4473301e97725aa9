INIT InitTransport
NEXT NextTransport
CONSTANTS
    t1 = t1
    s1 = s1
    s2 = s2
    p1 = p1
    p2 = p2
    a1 = a1
    a2 = a2
    c1 = c1
    c2 = c2
    c3 = c3
    Streams = {t1}
    MaxChunks = 2
    Lens = {3, 4}
    CountSpace = 4
    Limits = {0, 1, 2}
    PacketIDs = {1, 2}
    MaxMessages = 2
    Conns = {s1, s2}
    NoConn = NoConn
    IDMod = 5
    ChanSize = 1
    MaxAnswers = 2
    HopPorts = {1, 2}
    MaxHops = 2
    QueueSize = 1
    MaxHopReads = 3
    Peers = {p1, p2}
    PacketLens = {1, 3}
    ChunkCounts = {2}
    IDSpace = 2
    MaxPerSource = 1
    MaxReassembly = 1
    MaxPackets = 2
    MaxTicks = 3
    MaxSessions = 2
    RealmAddrs = {1, 2}
    Responders = {}
    Attempts = {a1, a2}
    RespondCalls = {c1, c2, c3}
    AttemptOf <- MCAttemptOf
    EventBuffer = 1
    MaxPunches = 3
    Samples = {0, 1, 2, 3}
    WindowLength = 4
    MaxTime = 12
    MaxPacket = 4
    MaxNow = 2
    HeightWindow = 10
    TargetPackets = 2
    PacketThreshold = 3
    InitialPackets = 3
    MinPackets = 2
    MaxWindowPackets = 4
    DatagramSizes = {2, 3}
    Rates = {2, 4}
    HighGain = 12
    HighCwndGain = 8
    CwndGain = 8
    NumStartupRtts = 2
    DrainToTarget = TRUE
    AckAggregationStartup = TRUE
    FullLossCount = 2
    MaxSent = 3
    AckSizes = {0, 2}
    CycleStarts = {0}
    SlotCount = 2
    MinSampleCount = 3
    Bps = 2
    OneSecond = 1
    MinPacingDelay = 1
    BurstPackets = 2
    BurstDelays = 2
    BrutalSizes = {3, 4}
    BrutalAcks = {0, 3}
    MaxPerSecond = 5
    MaxUnits = 4
INVARIANTS
    RelaySafe
    DefragsExactly
    MappedIsOpen
    SessionsReachable
    HopSockets
    GeckoReassembly
    OneLiveSession
    RegisteredWhileWaiting
    FilterFresh
    SampledAtSend
    WindowWithinLimits
    BrutalPaces
CHECK_DEADLOCK FALSE
