SPECIFICATION Spec
CONSTANTS
    Kind = "product"
    Ops <- Delivering
    Requests = {r1}
    SlowPayers = TRUE
    r1 = r1
INVARIANTS StockReturnsOnce
CHECK_DEADLOCK FALSE
