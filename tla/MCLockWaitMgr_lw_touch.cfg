SPECIFICATION Spec
CONSTANTS
    Req = {1, 2, 3}
    Row = {k1}
    k1 = k1
    Checker = Checker
    Remover = Remover
    NoOne = NoOne
    OneBucket = FALSE
    Removals = TRUE
    Timeouts = FALSE
    Detected = {}
INVARIANT NoVisitorAfterRepost
