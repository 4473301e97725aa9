SPECIFICATION FairSpec
CONSTANTS
    r1 = r1
    r2 = r2
    t1 = t1
    t2 = t2
    Requests = {r1, r2}
    Streams = {t1, t2}
    HasTracker = TRUE
    Limit = 2
    MaxChunk = 2
INVARIANTS
    PreAuthContained
    TrackedWhileProxying
    NothingLeftBehind
PROPERTIES
    HandlerEnds
