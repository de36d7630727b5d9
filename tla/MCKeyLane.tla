----------------------------- MODULE MCKeyLane ------------------------------
(* Small lanes: which operations are attempts at which payment. *)
EXTENDS KeyLane, TLC

CONSTANTS a, b, s1, k1, k2

OnePayment == (a :> "p") @@ (b :> "p")
OneOp == a :> "p"
Attempts == Permutations({a, b})
=============================================================================
