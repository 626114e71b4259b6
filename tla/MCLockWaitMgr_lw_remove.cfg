SPECIFICATION Spec
CONSTANTS
    Req = {1, 2, 3}
    Row = {k1}
    k1 = k1
    Checker = Checker
    Remover = Remover
    NoOne = NoOne
    OneBucket = FALSE
    Removals = TRUE
    Timeouts = TRUE
    Detected = {1}
INVARIANT OnlyStaleHolderLost
INVARIANT NodeHasOneOwner
INVARIANT NobodyLeftAtStop
INVARIANT WaitBooksSound
