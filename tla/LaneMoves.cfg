\* One send, and the upkeep of two processes at its nonce; the node refuses, forgets
\* or takes what is broadcast.  An answer that never comes is in LaneHole.cfg.
SPECIFICATION FairSpec
CONSTANTS
    a = a  b = b  s1 = s1  k1 = k1  k2 = k2
    Senders = {k1}
    Keepers = {k1, k2}
    Ops = {a}
    Hooked = {}
    Payment <- OneOp
    MaxBumps = 1
    Answers = {"accepted", "refused", "intrinsic", "fee_cap"}
    Foreign = 1
    Evicts = TRUE
    Reorgs = FALSE
    MaxNonce = 1
    MaxSignings = 2
    MaxGiveUps = 0
CHECK_DEADLOCK FALSE
PROPERTIES SettledStays LaneMoves
