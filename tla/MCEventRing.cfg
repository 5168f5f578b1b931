SPECIFICATION Spec
CONSTANTS
    Cap = 3
    BufSize = 2
    Sub = {s1, s2}
    MaxPush = 7
SYMMETRY SubSymmetry
INVARIANTS
    TypeOK
    RecentExact
    NoPanic
    Complete
PROPERTIES
    Implements
CHECK_DEADLOCK FALSE
