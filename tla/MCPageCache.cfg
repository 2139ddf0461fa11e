CONSTANTS
    Worker = {w1, w2}
    Page = {1, 2}
    Index = "hash"
    Up <- Flat
    Limit = 1
    Txns <- HashTxns
    MaxTxn = 2
    Nil = Nil
SPECIFICATION Spec
INVARIANT LoadsVerified
