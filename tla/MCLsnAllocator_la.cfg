SPECIFICATION FairSpec
CONSTANTS
    Thread = {t1, t2}
    t1 = t1
    t2 = t2
    PALF_BLOCK_SIZE = 9
    LOG_CUT_TRIGGER = 3
    PADDING_TRIGGER = 2
    GROUP_HEADER = 1
    MaxSize = 3
    EntrySize = {1, 3}
    IdBits = 2
    TsBits = 3
    Slack = 1
    IdUpper = 6
    LsnUpper = 14
    RefScn = {1, 9}
    FollowLsn = {4, 9}
    NoAnswer = NoAnswer
INVARIANT PaddingFits
INVARIANT GroupStaysInWindow
PROPERTY FrozenGetsNoEntry
PROPERTY ImplementsOracle
PROPERTY CallReturns
