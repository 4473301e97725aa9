SPECIFICATION FairMux
CONSTANTS
    MaxMux = 1
    MaxSubs = 2
    LocalConns = {c1}
PROPERTY ReleasedWhenClosed
CHECK_DEADLOCK FALSE
