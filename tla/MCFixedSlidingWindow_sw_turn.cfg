SPECIFICATION Spec
CONSTANTS
    Thread = {t1, t2, t3}
    t1 = t1
    t2 = t2
    t3 = t3
    Size = 2
    FirstId = 1
    MaxId = 3
    NoOne = NoOne
SYMMETRY MCSymmetry
CHECK_DEADLOCK FALSE
INVARIANT ReclaimedHasSlid
