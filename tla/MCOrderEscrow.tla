---------------------------- MODULE MCOrderEscrow ----------------------------
(* A small OrderEscrow: amounts chosen so that the merchant fee rounds, time  *)
(* in whole windows, one buyer who also sells.                                *)
EXTENDS OrderEscrow

MCFeatures == {"order"}
MCTokens   == {"usdc"}
MCAccounts == {"ann", "bob", "shop", "judge", "fees", "fees2", "passer"}
MCCallers  == {"passer"}

\* 300 bps of 34 is 1 (1.02 rounded down), of 67 it is 2 (too wide to record
\* when MaxUint96 is 1).
Row(bps, flat) == [bps |-> bps, flatFee |-> flat, active |-> TRUE]
MCInitialRates  == [row \in MCFeatures \X MCTokens |-> Row(300, 1)]
MCInitialLimits == [t \in MCTokens |-> [maxPerOrder |-> 150, maxOwed |-> 160]]
\* 900 bps is a rate FeeConfig takes and the escrow refuses; neither takes 1001.
NewRates == {Row(900, 1), Row(1001, 1)}
MCRateBatches  == {[row \in {<<"order", "usdc">>} |-> r] : r \in NewRates}
MCLimitChoices == {[maxPerOrder |-> 40, maxOwed |-> 60], NoLimits}
MCNoSkim == [t \in MCTokens |-> 0]
=============================================================================
