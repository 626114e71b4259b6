SPECIFICATION FairSpec
CONSTANTS
    MaxLog = 1
    MaxTerm = 3
    Queue = {q1}
    SubmitTask = submit
    NoTask = none
    Handler = {h1}
    Appender = {a1}
INVARIANT AnswerMatchesLog
INVARIANT EffectOnce
INVARIANT LeaderHasAll
INVARIANT MaxAppliedSound
INVARIANT FollowerQuiet
PROPERTY CallbackAnswered
PROPERTY TakesOver
CHECK_DEADLOCK FALSE
