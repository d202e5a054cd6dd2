SPECIFICATION Spec
CONSTANTS
    Sess = {s1, s2}
    Button = {"left"}
    Key = {"a"}
    MaxOpen = 2
    MaxNotches = 1
INVARIANT
    SingleGoroutine
CHECK_DEADLOCK FALSE
