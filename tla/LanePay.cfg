\* Two attempts at one payment on a lane whose chain may reorganise.
SPECIFICATION Spec
CONSTANTS
    a = a  b = b  s1 = s1  k1 = k1  k2 = k2
    Senders = {s1}
    Keepers = {k1}
    Ops = {a, b}
    Hooked = {a, b}
    Payment <- OnePayment
    MaxBumps = 0
    Answers = {"accepted", "intrinsic"}
    Foreign = 0
    Reorgs = TRUE
    Evicts = FALSE
    MaxNonce = 2
    MaxSignings = 2
    MaxGiveUps = 1
SYMMETRY Attempts
CHECK_DEADLOCK FALSE
INVARIANTS TypeOK PaidOnce LegTellsTheTruth CancelIsFinal GiveUpIsFinal
