SPECIFICATION FairSpec
CONSTANTS
    N = 2
    Room = 2
    MaxChanges = 2
    None = None
INVARIANTS
    InSync
    NoLostFrame
    OneOutstanding
PROPERTIES
    CatchesUp
    WindowResponds
