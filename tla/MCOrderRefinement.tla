-------------------------- MODULE MCOrderRefinement --------------------------
(* The small OrderEscrow of MCOrderEscrow, its orders seen one by one.        *)
EXTENDS MCOrderEscrow, OrderRefinement
=============================================================================
