CONSTANTS
    Thread = {1, 2, 3}
    Part = {1, 2}
    NoOwner = NoOwner
    Parts <- TwoParts
    BufferSize = 1
    Buffered = TRUE
    MaxTxn = 1
    BatchAlloc = TRUE
    BatchNum = 3
    MaxTs = 7
    Nil = Nil
SPECIFICATION FairSpec
INVARIANTS WaitsForOlder PartitionsOwned QueriesKept
PROPERTY AttemptEnds
