SPECIFICATION Spec
CONSTANTS
    MaxN = 8
    MaxK = 8
    SeedsFor <- MCSeedsFor
INVARIANTS
    NoRematch
    EqualLoad
CHECK_DEADLOCK FALSE
