SPECIFICATION Spec
CONSTANTS
    Tasks = {t1, t2}
    PageSize = 2
    SyncSize = 2
    Rounds = 2
    MaxSeq = 6
    StoreMayFail = TRUE
SYMMETRY Symmetry
INVARIANTS
    SyncFillsHoles
    SyncReachesTop
PROPERTIES
    WorkEnds
CHECK_DEADLOCK FALSE
