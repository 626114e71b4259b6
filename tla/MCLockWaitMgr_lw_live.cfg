SPECIFICATION FairSpec
CONSTANTS
    Req = {1, 2, 3}
    Row = {k1}
    k1 = k1
    Checker = Checker
    Remover = Remover
    NoOne = NoOne
    OneBucket = TRUE
    Removals = FALSE
    Timeouts = FALSE
    Detected = {}
PROPERTY EveryRequestEnds
