SPECIFICATION Spec
CONSTANTS
    r1 = r1
    r2 = r2
    q1 = q1
    q2 = q2
    Callers = {r1}
    Clients = {q1, q2}
    NoClient = NoClient
PROPERTY NilOnlyIfClosed
