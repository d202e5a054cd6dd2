SPECIFICATION Spec
CONSTANTS
    Room = 1
    MaxBreaks = 1
INVARIANTS
    QuietGetsAll
PROPERTIES
    IsStream
    TeardownSpreads
CHECK_DEADLOCK FALSE
