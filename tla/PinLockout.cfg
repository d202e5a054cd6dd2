SPECIFICATION PinSpec
CONSTANTS
    Attempt = {a1, a2, a3}
    MaxPINAttempts = 3
    Lockout = 3
    Horizon = 8
    Nobody = Nobody
INVARIANTS
    RateBound
    CompareAlone
PROPERTIES
    LockoutEarned
    IsGate
CHECK_DEADLOCK FALSE
