SPECIFICATION Spec
CONSTANTS
    Thread = {t1, t2, t3}
    t1 = t1
    t2 = t2
    t3 = t3
    Size = 2
    FirstId = 1
    MaxId = 5
    NoOne = NoOne
CONSTRAINT MCNotTurned
SYMMETRY MCSymmetry
CHECK_DEADLOCK FALSE
INVARIANT WindowIntact
INVARIANT HeldSlotIsOwn
INVARIANT NoSlotLost
INVARIANT SomeoneMoves
