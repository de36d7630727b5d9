SPECIFICATION Spec
CONSTANTS
    Kind = "product"
    Ops <- Recording
    Requests = {r1, r2}
    SlowPayers = FALSE
    r1 = r1
    r2 = r2
SYMMETRY Symmetry
INVARIANTS RecordIsProven StockReturnsOnce
PROPERTIES ExpiryKeepsPaid
CHECK_DEADLOCK FALSE
