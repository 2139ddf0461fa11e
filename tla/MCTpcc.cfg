CONSTANTS
    Thread = {1, 2}
    WH = {1}
    DIST_PER_WARE = 2
    CustPerDist = 2
    MaxItems = 2
    LastName <- Names
    NameCode <- Codes
    Leftovers <- UpperHalves
    Undelivered = 1
    Quantity = {19}
    Amount = {3}
    OlQuantity = {10}
    MaxLines = 2
    Script <- MixScript
SPECIFICATION Spec
INVARIANTS MoneyBalances OrderNumbers StockBooks
