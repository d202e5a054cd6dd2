SPECIFICATION FairSpec
CONSTANTS
    Password = {"", "p", "q"}
    Format = {"builtin", "rgb565big", "bgr233"}
    Area = 6
    NameLen = 10
    TextLen = 3
    MaxSent = 2
INVARIANTS
    Framed
    Authenticated
    PixelsArrive
PROPERTY
    HandshakeEnds
CHECK_DEADLOCK FALSE
