SPECIFICATION SilentSpec
CONSTANTS
    Host = {h1}
    Viewer = {v1, v2}
    ID = {i1}
    PIN = {p1, p2}
    Session = {s1}
    Unattended = {}
    Window = 1
    MaxPINAttempts = 2
    None = None
PROPERTIES
    ConnectEnds
    GoneUnregistered
    StreamsEnd
CHECK_DEADLOCK FALSE
