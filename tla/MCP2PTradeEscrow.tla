--------------------------- MODULE MCP2PTradeEscrow ---------------------------
(* Small P2P escrows: one pool and two buyers on its ad, or users selling into *)
(* a merchant's buy-ad.                                                        *)
EXTENDS P2PTradeEscrow

MCFeatures == {"platform", "gas"}
MCTokens   == {"usdc"}
MCAccounts == {"sel", "ann", "bob", "merchant", "judge", "fees", "passer"}

\* 250 bps of 50 and of 67 is 1 (1.25 and 1.675).
Row(bps, flat) == [bps |-> bps, flatFee |-> flat, active |-> TRUE]
MCInitialRates == [row \in MCFeatures \X MCTokens |->
                      IF row[1] = "platform" THEN Row(150, 0) ELSE Row(100, 0)]
MCInitialLimits == [t \in MCTokens |-> [maxPerOrder |-> 100, maxOwed |-> 200]]

\* A second token, which keeps 1 of every transfer for itself.
TwoTokens   == {"usdc", "fot"}
TwoRates    == [row \in MCFeatures \X TwoTokens |-> MCInitialRates[<<row[1], "usdc">>]]
TwoLimits   == [t \in TwoTokens |-> [maxPerOrder |-> 100, maxOwed |-> 200]]
OneSkims    == [t \in TwoTokens |-> IF t = "fot" THEN 1 ELSE 0]
MCNoSkim == [t \in MCTokens |-> 0]

\* Rate changes FeeConfig takes: within the escrow's caps, and over their sum.
BothRows(p, g) == [row \in MCFeatures \X MCTokens |-> IF row[1] = "platform" THEN p ELSE g]
MCRateBatches == {BothRows(Row(300, 0), Row(200, 0)), BothRows(Row(300, 0), Row(300, 0))}
MCLimitChoices == {[maxPerOrder |-> 50, maxOwed |-> 60]}

Ad(max, lo, hi, deadline, taker) ==
    [seller |-> "sel", token |-> "usdc", maxAmount |-> max, minPerTrade |-> lo,
     maxPerTrade |-> hi, deadline |-> deadline, nonce |-> 1, taker |-> taker]

PublicAd == Ad(100, 33, 0, 2, NoOne)
AnnsAd   == Ad(67, 0, 67, 2, "ann")
ForgedAd == Ad(99, 0, 0, 2, "ann")
BadAd    == Ad(50, 60, 55, 2, NoOne)

PoolAds    == {PublicAd}
PoolSigned == {PublicAd}
AllAds     == {PublicAd, AnnsAd, ForgedAd, BadAd}
RealAds    == AllAds \ {ForgedAd}

BuyAdDelegates  == {NoOne, "passer"}
=============================================================================
