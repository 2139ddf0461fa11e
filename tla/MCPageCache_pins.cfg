CONSTANTS
    Worker = {w1}
    Page = {1, 2, 3}
    Index = "btree"
    Up <- Tree
    Limit = 2
    Txns <- TreeTxns
    MaxTxn = 3
    Nil = Nil
SPECIFICATION Spec
INVARIANT CountNotNegative
