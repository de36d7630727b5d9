\* One payout, one worker, one operator.
SPECIFICATION FairSpec
CONSTANTS
    k1 = k1  k2 = k2  m1 = m1  m2 = m2
    Tickers = {k1}
    Operators = {m1}
    Forced = TRUE
    MaxLegs = 3
    MaxSales = 3
    MaxRefs = 2
    MaxFaults = 2
CHECK_DEADLOCK FALSE
INVARIANTS TypeOK PaidOnce FundedOnce EndsAreProven SafeParkIsSafe
PROPERTY PayoutsMove
