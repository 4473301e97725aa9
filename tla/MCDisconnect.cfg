SPECIFICATION FairCopy
CONSTANTS
    t1 = t1
    Streams = {t1}
    MaxChunks = 1
PROPERTY DisconnectHonoured
