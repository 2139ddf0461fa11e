CONSTANTS
    N = 2
    Sizes = {3}
    MaxEntry = 4
    Align = 2
    Round = 2
    Block = 2
    BufferSize = 12
    LOG_BATCH_SIZE = 2
    MaxRecords = 5
    UINT64_MAX = 100
    ReadBlock = 4
    RingSize = 10
    OldFiles <- ShortFiles
    OldSizes = {2, 3}
    MaxFile = 7
SPECIFICATION RestartSpec
INVARIANTS
    RingNotOverrun
    FlushedIntact
    ReplayIntact
PROPERTY
    RecordsLogged
