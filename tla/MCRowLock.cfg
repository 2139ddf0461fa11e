CONSTANTS
    Thread = {1, 2, 3}
    Row = {"a", "b"}
    Query <- CrossingQueries
    Alg = {"NO_WAIT", "WAIT_DIE", "DL_DETECT"}
    MaxAttempts = 1
SPECIFICATION DealtSpec
INVARIANTS
    ListsMatchTxns
    OwnersCompatible
    WaitersBlocked
    StableReads
PROPERTIES
    AtomicCommits
    AttemptEnds
