SPECIFICATION Spec
CONSTANTS
    Conn = {c1, c2, c3}
    Authorized = {c1, c2}
    HostKey = {k1, k2}
    MaxConns = 2
    Absent = Absent
    Partial = Partial
INVARIANTS
    IdentityKept
    SlotPerConn
PROPERTIES
    StrangersGo
    StopsClean
    QueueServed
CHECK_DEADLOCK FALSE
