---------------------------- MODULE MCOrderRecord ----------------------------
(* The handlers that take part in each run, and the symmetry of the calls.    *)
EXTENDS OrderRecord, TLC

\* Paying; the recorders alone, whose UPDATEs all repeat their condition.
Paying     == {"PrepareEscrow", "SubmitEscrow", "Expire"}
Recording  == Paying \cup {"CancelOrder", "CancelAsTreasury", "SubmitConfirm",
                           "SubmitRefund", "SubmitCancel"}

\* The few calls a short counterexample needs.
Delivering == {"PrepareEscrow", "SubmitEscrow", "MarkDelivered"}

MCOps    == AllOps
Symmetry  == Permutations(Requests)
=============================================================================
