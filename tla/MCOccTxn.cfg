CONSTANTS
    Thread = {t1, t2}
    Row = {1, 2}
    Query <- MixedQueries
    MaxAttempts = 2
    NoThread = NoThread
SPECIFICATION FairSpec
INVARIANTS
    LatchesMatchPrefix
    NoDirtyRead
    RetryNotDoomed
    LogInCommitOrder
PROPERTIES
    WtsMonotonic
    AttemptEnds
