SPECIFICATION Spec
CONSTANTS
    Write = {d1, d2}
    d1 = d1
    d2 = d2
    LogCbs = 2
    MaxSwl = 2
SYMMETRY Symmetry
CHECK_DEADLOCK FALSE
INVARIANT AnswerMatchesOutcome
INVARIANT OneDecision
INVARIANT CommitHasAllData
INVARIANT NothingUnexpected
