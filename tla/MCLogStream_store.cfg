CONSTANTS
    w1 = w1
    NoWorker = NoWorker
    Worker = {w1}
    ServiceType = "TransIDService"
    PreAllocatedRange = 2
    PreAllocFactor = 1
    Ranges = {2}
    Bases = {0}
    MaxGrants = 2
    MaxScn = 2
    SCN_MAX = 100
    MaxCrash = 1
    MaxRevoke = 1
    MaxSlogFail = 1
    UpdateCheckpointEnabled = TRUE
SPECIFICATION FairSpec
CHECK_DEADLOCK FALSE
CONSTRAINT TwoFaults
INVARIANT GrantsDurable
INVARIANT ReplayStartUnlessWriteFailed
PROPERTY LimitRecovers
