SPECIFICATION FairSpec
CONSTANT NumResults = 2
INVARIANTS
    ExitZeroIsEarned
    PersistedReasonsAreComplete
    ResultsOutliveFailures
    SkipModeHonoured
PROPERTIES
    CompletionIsLast
\* the process ends
CHECK_DEADLOCK FALSE
