CONSTANTS
    Thread = {t1, t2}
    Row = {1, 2, 3}
    Script <- CrossingScript
    Alg = {"SILO", "TICTOC", "TIMESTAMP", "OCC"}
    RTS_LEN = 2
    MaxTs = 9
SPECIFICATION FairSpec
INVARIANTS
    NoLostUpdate
    Serializable
    ReadersHaveReason
    RowsWhole
PROPERTY
    AttemptEnds
CHECK_DEADLOCK FALSE
