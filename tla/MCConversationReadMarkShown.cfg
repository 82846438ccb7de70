SPECIFICATION Spec
CONSTANTS
    Tasks = {t1, t2}
    PageSize = 2
    MaxSeq = 2
    MaxRequest = 2
SYMMETRY Symmetry
INVARIANT ReadMarkShown
