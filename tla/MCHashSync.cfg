CONSTANTS
    Worker = {w1, w2}
    Reader = {r1}
    Page = {1}
    Query <- OnePageQueries
    Queue = {q1, q2}
    SyncBatch = 2
    VaccumTrigger = 2
    MaxCommits = 4
    MaxBegins = 1
    NoQueue = NoQueue
SPECIFICATION FairSpec
INVARIANTS
    OneSenderPerBatch
    ChainSound
PROPERTIES
    ServedNeverOlder
    HashArrives
