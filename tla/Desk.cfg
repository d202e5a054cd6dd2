SPECIFICATION Spec
CONSTANTS
    Host = {h1, h2}
    Viewer = {v1, v2}
    ID = {i1}
    PIN = {p1, p2}
    Session = {s1, s2}
    Unattended = {h2}
    Window = 1
    MaxPINAttempts = 1
    None = None
SYMMETRY MCSymmetry
INVARIANTS
    RegistryOwned
    ScreenByConsent
    AlertPerLockout
    OneViewerPerAccept
    PendingLive
PROPERTY
    KeepsPromise
CHECK_DEADLOCK FALSE
