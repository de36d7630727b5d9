\* One operation, sent by one process above a nonce something else left a hole at.
\* The node never says what became of a broadcast.
SPECIFICATION FairSpec
CONSTANTS
    a = a  b = b  s1 = s1  k1 = k1  k2 = k2
    Senders = {k1}
    Keepers = {k1}
    Ops = {a}
    Hooked = {}
    Payment <- OneOp
    MaxBumps = 0
    Answers = {"uncertain"}
    Foreign = 1
    Evicts = FALSE
    Reorgs = FALSE
    MaxNonce = 2
    MaxSignings = 2
    MaxGiveUps = 0
CHECK_DEADLOCK FALSE
PROPERTIES LaneMoves
