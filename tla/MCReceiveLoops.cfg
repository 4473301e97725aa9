SPECIFICATION Spec
CONSTANTS
    s1 = s1
    s2 = s2
    e1 = e1
    e2 = e2
    e3 = e3
    SessionIDs = {s1, s2}
    Entries = {e1, e2, e3}
    NoEntry = NoEntry
    NoID = NoID
    MaxSessions = 1
SYMMETRY MCSymmetry
INVARIANT ReceiveLoopsBounded
