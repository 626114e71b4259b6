SPECIFICATION FairSpec
CONSTANTS
    NQ = 2
    MaxLog = 2
    Entries <- MixedEntries
    Env = {"alloc", "fail", "query", "role", "disable", "block"}
CONSTRAINT Apart
INVARIANT AnswerSound
INVARIANT NoUnexpectedBranch
INVARIANT NoLostWakeup
INVARIANT LeaderReplaysNothing
INVARIANT TakesEffectOnce
PROPERTY OrderSpec
PROPERTY CatchesUp
PROPERTY ServesInTheEnd
