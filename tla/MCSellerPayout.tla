--------------------------- MODULE MCSellerPayout ---------------------------
(* Small payouts. *)
EXTENDS SellerPayout, TLC

CONSTANTS k1, k2, m1, m2
=============================================================================
