SPECIFICATION Spec
CONSTANTS
    Kind = "product"
    Ops <- Paying
    Requests = {r1, r2}
    SlowPayers = FALSE
    r1 = r1
    r2 = r2
SYMMETRY Symmetry
INVARIANTS NoPaymentAfterExpiry
CHECK_DEADLOCK FALSE
