CONSTANTS
    N = 2
    Sizes = {2}
    MaxEntry = 4
    Align = 2
    Round = 2
    Block = 2
    BufferSize = 12
    LOG_BATCH_SIZE = 2
    MaxRecords = 2
    UINT64_MAX = 100
SPECIFICATION SerialSpec
INVARIANT RecordsDisjoint
