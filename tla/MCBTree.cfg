CONSTANTS
    Thread = {1, 2}
    Order = 3
    Plan <- ServePlan
    Nil = Nil
SPECIFICATION ServeSpec
INVARIANTS LoadedRight LatchesOwned InsertedFound LeavesLinked
