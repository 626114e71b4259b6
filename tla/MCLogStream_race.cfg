CONSTANTS
    w1 = w1
    w2 = w2
    NoWorker = NoWorker
    Worker = {w1, w2}
    ServiceType = "TimestampService"
    PreAllocatedRange = 2
    PreAllocFactor = 1
    Ranges = {1, 2}
    Bases = {0, 3}
    MaxGrants = 2
    MaxScn = 3
    SCN_MAX = 100
    MaxCrash = 1
    MaxRevoke = 1
    MaxSlogFail = 0
    UpdateCheckpointEnabled = FALSE
SPECIFICATION Spec
SYMMETRY Symmetry
CHECK_DEADLOCK FALSE
PROPERTY ImplementsOracle
PROPERTY RestartCoversLog
INVARIANT CommittedLimitApplied
INVARIANT CallbackOwnsCb
