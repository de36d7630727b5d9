\* Two operators at one parked payout.
SPECIFICATION Spec
CONSTANTS
    k1 = k1  k2 = k2  m1 = m1  m2 = m2
    Tickers = {k1}
    Operators = {m1, m2}
    Forced = FALSE
    MaxLegs = 1
    MaxSales = 0
    MaxRefs = 1
    MaxFaults = 1
CHECK_DEADLOCK FALSE
INVARIANT PaidOnce
