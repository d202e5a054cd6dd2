SPECIFICATION Spec
CONSTANTS
    Sess = {s1, s2}
    Button = {"left", "right"}
    Key = {"a", "shiftLeft", "shiftRight", "capsLock"}
    MaxOpen = 1
    MaxNotches = 2
INVARIANTS
    PressedAsHeld
    OneScrollPerTurn
CHECK_DEADLOCK FALSE
