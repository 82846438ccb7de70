SPECIFICATION Spec
CONSTANTS
    Tasks = {t1, t2}
    PageSize = 1
    MaxSeq = 2
    MaxRequest = 2
SYMMETRY Symmetry
INVARIANTS
    NoFutureRead
    LoadingHasAnswer
PROPERTY ReadNeverRecedes
CHECK_DEADLOCK FALSE
