SPECIFICATION FairSpec
CONSTANTS
    Kind = "product"
    Ops <- MCOps
    Requests = {r1}
    SlowPayers = TRUE
    r1 = r1
INVARIANTS TypeOK StockFollowsMoney PhaseIsProven
PROPERTIES SweepEndsOrders PayoutsAreRecorded
CHECK_DEADLOCK FALSE
