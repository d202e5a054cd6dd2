SPECIFICATION Spec
CONSTANTS
    W = 5
    H = 3
    T = 2
INVARIANTS
    Covers
    Disjoint
    Tight
CHECK_DEADLOCK FALSE
