---------------------------- MODULE P2PTradeEscrow ----------------------------
(***************************************************************************)
(* contracts/core/P2PTradeEscrow.sol: a seller's pooled crypto, locked per *)
(* trade against an ad voucher the seller signed, and released to the      *)
(* buyer who paid in fiat, outside the chain.  A trade on a buy-ad is      *)
(* funded by the selling user at once instead.                             *)
(*                                                                         *)
(*   Pending -> Paid -> Disputed; Released, Cancelled, Resolved are final. *)
(*                                                                         *)
(* One action per external function, `by` is _msgSender().  A voucher is   *)
(* its own hash.  Only the sum of a trade's two snapshotted fee rates is   *)
(* kept: nothing reads them apart.                                         *)
(***************************************************************************)
EXTENDS EscrowBase, Functions

CONSTANTS
    Sellers, Buyers, Users, Merchants, Resolvers, Delegates,
    TradeIds,
    Vouchers,          \* ads, as records
    SignedVouchers,    \* the ads their own sellers signed (ECDSA.recover)
    Amounts,
    WindowChoices,     \* what sellers may call setAutoReleaseWindow with
    FEATURE_PLATFORM, FEATURE_GAS,
    PAYMENT_WINDOW, MIN_AUTO_RELEASE_WINDOW, MAX_AUTO_RELEASE_WINDOW,
    DISPUTE_BACKSTOP,
    MaxUint96,         \* the widest amount a trade can record
    LastOpen           \* bound: no deposit and no trade after this time

VARIABLES
    available,         \* available[<<seller, token>>]: the pool
    locked,            \* locked[<<seller, token>>]: in open trades
    voucherFilled, voucherCancelled,
    trades,            \* trades[<<opener, tradeId>>]
    releaser,          \* releaser[seller]: a standing delegate
    autoReleaseWindow  \* autoReleaseWindow[seller]

pool     == <<available, locked>>
vouchers == <<voucherFilled, voucherCancelled>>
choices  == <<releaser, autoReleaseWindow>>
p2pVars  == <<available, locked, voucherFilled, voucherCancelled, trades,
              releaser, autoReleaseWindow>>
vars == <<p2pVars, money, paused, now, rates, limits, feeRecipient>>

MAX_PLATFORM_FEE_BPS == 300
MAX_GAS_FEE_BPS == 300
MAX_FEE_BPS == 500

NoOne == "no one"        \* the zero address
NoVoucher == [seller |-> NoOne]
NoTrade == [status |-> "None"]

\* Keys are per opener: nobody can take another account's trade id first.
Keys == (Buyers \cup Users) \X TradeIds

OpenStates  == {"Pending", "Paid", "Disputed"}
FinalStates == {"Released", "Cancelled", "Resolved"}

Voucher == [seller : Accounts, token : Tokens, maxAmount : Nat, minPerTrade : Nat,
            maxPerTrade : Nat, deadline : Nat, nonce : Nat,
            taker : Accounts \cup {NoOne}]

\* endedBy (who sent the call that ended the trade) and paidOut (whether it
\* went to the buyer) are reported in events, not stored.
Trade == [status : OpenStates \cup FinalStates, seller : Accounts, buyer : Accounts,
          amount : 1 .. MaxUint96, token : Tokens,
          funding : {"PooledFromMaker", "DepositedByTaker"},
          expiresAt : Nat, autoReleaseAt : Nat, disputedAt : Nat,
          feeBps : 0 .. MAX_FEE_BPS, autoReleaseWindow : Nat,
          voucher : Vouchers \cup {NoVoucher}, tradeReleaser : Accounts \cup {NoOne},
          endedBy : Accounts \cup {NoOne}, paidOut : BOOLEAN]

\* A trade id has 256 bits, so an opener has finitely many.
ASSUME P2PAssumption ==
    /\ IsFiniteSet(TradeIds)
    /\ NoOne \notin Accounts /\ NoVoucher \notin Vouchers
    /\ Sellers \cup Buyers \cup Users \cup Merchants \cup Resolvers \subseteq Accounts
    /\ Delegates \subseteq Accounts \cup {NoOne}
    /\ Vouchers \subseteq Voucher /\ SignedVouchers \subseteq Vouchers
    /\ Amounts \subseteq Nat /\ WindowChoices \subseteq Nat
    /\ {FEATURE_PLATFORM, FEATURE_GAS} \subseteq Features
    /\ {PAYMENT_WINDOW, MIN_AUTO_RELEASE_WINDOW, MAX_AUTO_RELEASE_WINDOW,
        DISPUTE_BACKSTOP} \subseteq Nat \ {0}
    /\ MaxUint96 \in Nat /\ LastOpen \in Nat

Open(k)  == trades[k].status \in OpenStates
Ended(k) == trades[k].status \in FinalStates

-----------------------------------------------------------------------------
(* The seller's pool and the choices a seller makes ahead of a trade. *)

P2PConfigured(token) ==
    RateConfigured(FEATURE_PLATFORM, token) /\ RateConfigured(FEATURE_GAS, token)

Deposit(by, token, amount) ==
    LET reserved == AddOwed(money[token], amount)
    IN  /\ ~paused
        /\ amount # 0
        /\ P2PConfigured(token)
        /\ LimitsConfigured(token)
        /\ WithinOwedLimit(money[token], amount, limits[token].maxOwed)
        /\ CanPull(token, reserved, by, amount)
        /\ available' = [available EXCEPT ![<<by, token>>] = @ + amount]
        /\ money' = [money EXCEPT ![token] = Pull(token, reserved, by, amount)]
        /\ UNCHANGED <<locked, vouchers, trades, choices, paused>>

Withdraw(by, token, amount) ==
    /\ amount # 0
    /\ amount <= available[<<by, token>>]
    /\ CanSubOwed(money[token], amount)
    /\ available' = [available EXCEPT ![<<by, token>>] = @ - amount]
    /\ money' = [money EXCEPT ![token] = Push(token, SubOwed(@, amount), by, amount)]
    /\ UNCHANGED <<locked, vouchers, trades, choices, paused>>

SetReleaser(by, delegate) ==
    /\ releaser' = [releaser EXCEPT ![by] = delegate]
    /\ UNCHANGED <<pool, vouchers, trades, autoReleaseWindow, money, paused>>

SetAutoReleaseWindow(by, window) ==
    /\ window = 0 \/ window \in MIN_AUTO_RELEASE_WINDOW .. MAX_AUTO_RELEASE_WINDOW
    /\ autoReleaseWindow' = [autoReleaseWindow EXCEPT ![by] = window]
    /\ UNCHANGED <<pool, vouchers, trades, releaser, money, paused>>

CancelVoucher(by, v) ==
    /\ by = v.seller
    /\ voucherCancelled' = voucherCancelled \cup {v}
    /\ UNCHANGED <<pool, voucherFilled, trades, choices, money, paused>>

-----------------------------------------------------------------------------
(* Opening a trade. *)

FeeBps(token) == rates[<<FEATURE_PLATFORM, token>>].bps + rates[<<FEATURE_GAS, token>>].bps

\* Mutant: each rate is capped, their sum is not.
FeesCappedApart(token) ==
    /\ rates[<<FEATURE_PLATFORM, token>>].bps <= MAX_PLATFORM_FEE_BPS
    /\ rates[<<FEATURE_GAS, token>>].bps <= MAX_GAS_FEE_BPS
FeesCapped(token) ==
    /\ rates[<<FEATURE_PLATFORM, token>>].bps <= MAX_PLATFORM_FEE_BPS
    /\ rates[<<FEATURE_GAS, token>>].bps <= MAX_GAS_FEE_BPS
    /\ FeeBps(token) <= MAX_FEE_BPS

\* _checkNewTrade and the checks of _storeTrade.
NewTrade(k, token, amount) ==
    /\ k[2] # 0
    /\ trades[k] = NoTrade
    /\ amount \in 1 .. MaxUint96
    /\ P2PConfigured(token)
    /\ \A f \in {FEATURE_PLATFORM, FEATURE_GAS} : rates[<<f, token>>].flatFee = 0
    /\ FeesCapped(token)
    /\ LimitsConfigured(token)
    /\ amount <= limits[token].maxPerOrder

\* Only a pooled trade takes the seller's auto-release window.
WindowAlways(funding, seller) == autoReleaseWindow[seller]
WindowFor(funding, seller) ==
    IF funding = "PooledFromMaker" THEN autoReleaseWindow[seller] ELSE 0

\* _storeTrade: terms fixed at opening.
Stored(k, seller, buyer, token, amount, funding, voucher, named) ==
    trades' = [trades EXCEPT ![k] =
        [status |-> "Pending", seller |-> seller, buyer |-> buyer, amount |-> amount,
         token |-> token, funding |-> funding, expiresAt |-> now + PAYMENT_WINDOW,
         autoReleaseAt |-> 0, disputedAt |-> 0, feeBps |-> FeeBps(token),
         autoReleaseWindow |-> WindowFor(funding, seller),
         voucher |-> voucher, tradeReleaser |-> named,
         endedBy |-> NoOne, paidOut |-> FALSE]]

\* A bound of 0 on a voucher means none.
WithinVoucher(v, amount) ==
    /\ v.maxAmount # 0
    /\ v.maxPerTrade <= v.maxAmount
    /\ v.minPerTrade # 0 /\ v.maxPerTrade # 0 => v.minPerTrade <= v.maxPerTrade
    /\ v.minPerTrade <= v.maxAmount
    /\ v.minPerTrade # 0 => amount >= v.minPerTrade
    /\ v.maxPerTrade # 0 => amount <= v.maxPerTrade

VoucherOpen(v, buyer, amount) ==
    /\ v.seller # buyer
    /\ v.taker \in {NoOne, buyer}
    /\ now <= v.deadline
    /\ WithinVoucher(v, amount)
    /\ v \notin voucherCancelled
    /\ voucherFilled[v] + amount <= v.maxAmount
    /\ v \in SignedVouchers

OpenTrade(buyer, id, v, amount) ==
    LET k    == <<buyer, id>>
        slot == <<v.seller, v.token>>
    IN  /\ ~paused
        /\ NewTrade(k, v.token, amount)
        /\ VoucherOpen(v, buyer, amount)
        /\ amount <= available[slot]
        /\ available' = [available EXCEPT ![slot] = @ - amount]
        /\ locked' = [locked EXCEPT ![slot] = @ + amount]
        /\ voucherFilled' = [voucherFilled EXCEPT ![v] = @ + amount]
        /\ Stored(k, v.seller, buyer, v.token, amount, "PooledFromMaker", v, NoOne)
        /\ UNCHANGED <<voucherCancelled, choices, money, paused>>

OpenTradeWithDeposit(user, id, token, amount, merchant, named) ==
    LET k        == <<user, id>>
        reserved == AddOwed(money[token], amount)
    IN  /\ ~paused
        /\ NewTrade(k, token, amount)
        /\ merchant # user
        /\ named # merchant
        /\ WithinOwedLimit(money[token], amount, limits[token].maxOwed)
        /\ CanPull(token, reserved, user, amount)
        /\ locked' = [locked EXCEPT ![<<user, token>>] = @ + amount]
        /\ Stored(k, user, merchant, token, amount, "DepositedByTaker", NoVoucher, named)
        /\ money' = [money EXCEPT ![token] = Pull(token, reserved, user, amount)]
        /\ UNCHANGED <<available, vouchers, choices, paused>>

-----------------------------------------------------------------------------
(* Settling.  Subtractions are checked: one that would go below 0 reverts. *)

End(by, k, status, paidOut) ==
    trades' = [trades EXCEPT ![k].status = status, ![k].endedBy = by,
                             ![k].paidOut = paidOut]

FeeAtTodaysRate(t) == BpsOf(t.amount, FeeBps(t.token))
Fee(t) == BpsOf(t.amount, t.feeBps)

CanUnlock(t) == t.amount <= locked[<<t.seller, t.token>>]
UnlockForgotten(t) == UNCHANGED locked
Unlock(t) == locked' = [locked EXCEPT ![<<t.seller, t.token>>] = @ - t.amount]

\* _payOut: the snapshotted fee goes to today's recipient.
PayOut(t) ==
    LET freed == SubOwed(money[t.token], t.amount)
        buyer == Push(t.token, freed, t.buyer, t.amount - Fee(t))
    IN  /\ CanUnlock(t)
        /\ Unlock(t)
        /\ CanSubOwed(money[t.token], t.amount)
        /\ money' = [money EXCEPT ![t.token] = Push(t.token, buyer, feeRecipient, Fee(t))]
        /\ UNCHANGED <<available, voucherFilled>>

\* Mutant: the voucher's capacity is not given back.
ReturnKeepsFilled(t) ==
    /\ t.funding = "PooledFromMaker"
    /\ available' = [available EXCEPT ![<<t.seller, t.token>>] = @ + t.amount]
    /\ UNCHANGED <<voucherFilled, money>>

\* Mutant: a depositor who cannot be paid reverts the exit.
ReturnDepositOrRevert(t) ==
    /\ t.funding = "DepositedByTaker"
    /\ CanTransfer(money[t.token], Self, t.seller, t.amount)
    /\ money' = [money EXCEPT ![t.token] =
                    Push(t.token, SubOwed(@, t.amount), t.seller, t.amount)]
    /\ UNCHANGED <<available, voucherFilled>>

\* _returnToSeller: back to the pool (and the voucher's capacity), or back to
\* the user who deposited.
ReturnToPool(t) ==
    /\ t.funding = "PooledFromMaker"
    /\ t.voucher # NoVoucher => t.amount <= voucherFilled[t.voucher]
    /\ available' = [available EXCEPT ![<<t.seller, t.token>>] = @ + t.amount]
    /\ voucherFilled' = [v \in Vouchers |-> IF v = t.voucher
                            THEN voucherFilled[v] - t.amount ELSE voucherFilled[v]]
    /\ UNCHANGED money

ReturnDeposit(t) ==
    /\ t.funding = "DepositedByTaker"
    /\ CanSubOwed(money[t.token], t.amount)
    /\ money' = [money EXCEPT ![t.token] =
                    Push(t.token, SubOwed(@, t.amount), t.seller, t.amount)]
    /\ UNCHANGED <<available, voucherFilled>>

ReturnToSeller(t) ==
    /\ CanUnlock(t)
    /\ Unlock(t)
    /\ ReturnToPool(t) \/ ReturnDeposit(t)

settleUnchanged == <<voucherCancelled, choices, paused>>

\* Mutant: it arms the clock the seller has chosen since.
MarkPaidTodaysWindow(by, k) ==
    LET t == trades[k]
    IN  /\ t.status = "Pending" /\ by = t.buyer /\ now < t.expiresAt
        /\ trades' = [trades EXCEPT ![k].status = "Paid",
              ![k].autoReleaseAt = IF autoReleaseWindow[t.seller] # 0
                                   THEN now + autoReleaseWindow[t.seller] ELSE @]
        /\ UNCHANGED <<pool, vouchers, choices, money, paused>>

MarkPaid(by, k) ==
    LET t == trades[k]
    IN  /\ t.status = "Pending"
        /\ by = t.buyer
        /\ now < t.expiresAt
        /\ trades' = [trades EXCEPT ![k].status = "Paid",
              ![k].autoReleaseAt = IF t.autoReleaseWindow # 0
                                   THEN now + t.autoReleaseWindow ELSE @]
        /\ UNCHANGED <<pool, vouchers, choices, money, paused>>

MayRelease(by, t) == by \in {t.seller, releaser[t.seller], t.tradeReleaser}

Release(by, k) ==
    /\ trades[k].status \in {"Pending", "Paid"}
    /\ MayRelease(by, trades[k])
    /\ End(by, k, "Released", TRUE)
    /\ PayOut(trades[k])
    /\ UNCHANGED settleUnchanged

AutoReleaseDue(t) == t.autoReleaseAt # 0 /\ now >= t.autoReleaseAt

FinalizeRelease(by, k) ==
    /\ trades[k].status = "Paid"
    /\ AutoReleaseDue(trades[k])
    /\ End(by, k, "Released", TRUE)
    /\ PayOut(trades[k])
    /\ UNCHANGED settleUnchanged

CancelByTimeout(by, k) ==
    /\ trades[k].status = "Pending"
    /\ now >= trades[k].expiresAt
    /\ End(by, k, "Cancelled", FALSE)
    /\ ReturnToSeller(trades[k])
    /\ UNCHANGED settleUnchanged

\* Not once an armed auto-release is due: silence meant release.
RaiseDispute(by, k) ==
    /\ trades[k].status = "Paid"
    /\ ~AutoReleaseDue(trades[k])
    /\ by \in {trades[k].buyer, trades[k].seller}
    /\ trades' = [trades EXCEPT ![k].status = "Disputed", ![k].disputedAt = now]
    /\ UNCHANGED <<pool, vouchers, choices, money, paused>>

AdminResolve(by, k, releaseToBuyer) ==
    /\ by \in Resolvers
    /\ trades[k].status = "Disputed"
    /\ End(by, k, "Resolved", releaseToBuyer)
    /\ IF releaseToBuyer THEN PayOut(trades[k]) ELSE ReturnToSeller(trades[k])
    /\ UNCHANGED settleUnchanged

ClaimDisputeBackstop(by, k) ==
    /\ trades[k].status = "Disputed"
    /\ now > trades[k].disputedAt + DISPUTE_BACKSTOP
    /\ End(by, k, "Resolved", FALSE)
    /\ ReturnToSeller(trades[k])
    /\ UNCHANGED settleUnchanged

-----------------------------------------------------------------------------

Init ==
    /\ available = [slot \in Accounts \X Tokens |-> 0]
    /\ locked = [slot \in Accounts \X Tokens |-> 0]
    /\ voucherFilled = [v \in Vouchers |-> 0]
    /\ voucherCancelled = {}
    /\ trades = [k \in Keys |-> NoTrade]
    /\ releaser = [s \in Accounts |-> NoOne]
    /\ autoReleaseWindow = [s \in Accounts |-> 0]
    /\ BaseInit
    /\ ConfigInit

PoolNext ==
    \E by \in Sellers :
        \/ \E token \in Tokens, amount \in Amounts : now <= LastOpen /\ Deposit(by, token, amount)
        \/ \E token \in Tokens, amount \in Amounts : Withdraw(by, token, amount)
        \/ \E delegate \in Delegates : SetReleaser(by, delegate)
        \/ \E window \in WindowChoices : SetAutoReleaseWindow(by, window)
        \/ \E v \in Vouchers : CancelVoucher(by, v)

OpenNext ==
    /\ now <= LastOpen
    /\ \/ \E buyer \in Buyers, id \in TradeIds, v \in Vouchers, amount \in Amounts :
             OpenTrade(buyer, id, v, amount)
       \/ \E user \in Users, id \in TradeIds, token \in Tokens, amount \in Amounts,
             merchant \in Merchants, named \in Delegates :
             OpenTradeWithDeposit(user, id, token, amount, merchant, named)

\* Bound: a dispute is raised early enough for its backstop to be explored.
DisputeInBound == now + DISPUTE_BACKSTOP < Horizon

TradeNext ==
    \/ \E by \in Accounts, k \in Keys :
          \/ MarkPaid(by, k)
          \/ Release(by, k)
          \/ DisputeInBound /\ RaiseDispute(by, k)
          \/ \E releaseToBuyer \in BOOLEAN : AdminResolve(by, k, releaseToBuyer)
    \/ \E by \in Callers, k \in Keys :
          \/ FinalizeRelease(by, k)
          \/ CancelByTimeout(by, k)
          \/ ClaimDisputeBackstop(by, k)

Next ==
    \/ (PoolNext \/ OpenNext \/ TradeNext) /\ UNCHANGED <<now, configVars>>
    \/ BaseNext /\ UNCHANGED <<p2pVars, configVars>>
    \/ Tick /\ UNCHANGED <<p2pVars, configVars>>
    \/ ConfigNext /\ UNCHANGED <<p2pVars, baseVars>>

Spec == Init /\ [][Next]_vars

\* Time passes.  Whoever wants an overdue trade closed gets a transaction in:
\* the backend cancels unpaid trades (p2p_expiry.go), and the buyer of an armed
\* trade or the seller of a stale dispute has the money to gain.
TimedExit(k) ==
    \E by \in Callers : \/ CancelByTimeout(by, k)
                        \/ FinalizeRelease(by, k)
                        \/ ClaimDisputeBackstop(by, k)
Fairness ==
    /\ WF_vars(Tick /\ UNCHANGED <<p2pVars, configVars>>)
    /\ \A k \in Keys : WF_vars(TimedExit(k) /\ UNCHANGED <<now, configVars>>)

FairSpec == Spec /\ Fairness

-----------------------------------------------------------------------------
(* What the escrow promises. *)

\* Every variable holds a value its storage slot could hold; a trade's amount
\* fits 96 bits and its fees are within the escrow's own cap.
TypeOK ==
    /\ BaseTypeOK
    /\ ConfigTypeOK
    /\ available \in [Accounts \X Tokens -> Nat]
    /\ locked \in [Accounts \X Tokens -> Nat]
    /\ voucherFilled \in [Vouchers -> Nat]
    /\ voucherCancelled \subseteq Vouchers
    /\ trades \in [Keys -> Trade \cup {NoTrade}]
    /\ releaser \in [Accounts -> Accounts \cup {NoOne}]
    /\ autoReleaseWindow \in [Accounts -> Nat]

Total(f) == FoldFunction(+, 0, f)

\* The trades that satisfy a condition, by amount.
AmountOf(k, counted) == IF trades[k] # NoTrade /\ counted THEN trades[k].amount ELSE 0

\* owed is exactly the pools, the locked amounts and the payouts waiting to be
\* claimed: a trade moves between them whatever way it ends, and nothing else
\* touches them.
OwedIsExact ==
    \A t \in Tokens : money[t].owed =
        Total([s \in Accounts |-> available[<<s, t>>] + locked[<<s, t>>]])
            + Total(money[t].claimable)

\* What is locked for a seller is exactly the seller's open trades, the ones
\* opened on a pool and the ones a user funded at once alike.
LockedIsExact ==
    \A s \in Accounts, t \in Tokens : locked[<<s, t>>] =
        Total([k \in Keys |-> AmountOf(k, Open(k) /\ trades[k].seller = s
                                                /\ trades[k].token = t)])

\* An ad never sells more than it offers, and what it counts as sold is exactly
\* its trades that did not come back to the pool, however often its capacity
\* was filled, given back and filled again.
FilledIsExact ==
    \A v \in Vouchers :
        /\ voucherFilled[v] <= v.maxAmount
        /\ voucherFilled[v] =
              Total([k \in Keys |-> AmountOf(k, /\ trades[k].voucher = v
                                               /\ (Open(k) \/ trades[k].paidOut))])

\* An account's money, in and out of the escrow, open trades left out.
Wealth(t, a) == money[t].bal[a] + money[t].claimable[a] + available[<<a, t>>]

Part(a, payee, amount) == IF a = payee THEN amount ELSE 0

SettlesAsPromised(k) ==
    LET t   == trades[k]
        fee == BpsOf(t.amount, t.feeBps)
    IN  \A a \in Accounts : Wealth(t.token, a)' = Wealth(t.token, a) +
            IF trades'[k].paidOut
            THEN Part(a, t.buyer, t.amount - fee) + Part(a, feeRecipient, fee)
            ELSE Part(a, t.seller, t.amount)

\* The step that ends a trade gives its whole amount to the buyer and the fee
\* recipient, at the rates it opened with, or all of it back to the seller's
\* side, and moves nobody else's money.
SettlementStep == \A k \in Keys : Open(k) /\ (Ended(k))' => SettlesAsPromised(k)
SettlementPaysInFull == [][SettlementStep]_vars

\* The crypto goes to the buyer only when the seller, somebody the seller named
\* or (on the seller's own ad) the clock the seller chose before the trade
\* releases it, or when a resolver rules on a dispute.
PayoutJustified(t, ended) ==
    IF t.status = "Disputed"
    THEN ended.endedBy \in Resolvers
    ELSE \/ ended.endedBy \in {t.seller, releaser[t.seller], t.tradeReleaser}
         \/ /\ t.status = "Paid" /\ t.funding = "PooledFromMaker"
            /\ t.autoReleaseWindow # 0
            /\ t.autoReleaseAt # 0 /\ t.autoReleaseAt <= now

\* It comes back to the seller's side only when the buyer never said the fiat
\* was sent in time, or after a dispute.
ReturnJustified(t, ended) ==
    \/ t.status = "Pending" /\ t.expiresAt <= now
    \/ t.status = "Disputed" /\ \/ ended.endedBy \in Resolvers
                                \/ t.disputedAt + DISPUTE_BACKSTOP < now

EndStep ==
    \A k \in Keys : Open(k) /\ (Ended(k))' =>
        IF trades'[k].paidOut THEN PayoutJustified(trades[k], trades'[k])
                              ELSE ReturnJustified(trades[k], trades'[k])
EndsAreJustified == [][EndStep]_vars

\* A trade keeps the terms it opened with: a seller who changes the release
\* window, or an admin who changes the rates, changes later trades only.
Terms(t) == <<t.seller, t.buyer, t.amount, t.token, t.funding, t.expiresAt, t.feeBps,
              t.autoReleaseWindow, t.voucher, t.tradeReleaser>>
TermsKept(k) ==
    /\ trades[k] # NoTrade => trades'[k] # NoTrade /\ Terms(trades'[k]) = Terms(trades[k])
    /\ Ended(k) => trades'[k] = trades[k]
NothingIsReopened == [][\A k \in Keys : TermsKept(k)]_vars

\* A merchant's buy-ad never takes a user's crypto by the clock.
BuyAdsAreNeverArmed ==
    \A k \in Keys : trades[k] # NoTrade /\ trades[k].funding = "DepositedByTaker" =>
        trades[k].autoReleaseAt = 0

\* With nobody but a keeper at work every trade ends, even paused and with its
\* payees blacklisted, unless it waits for its parties: paid, with no clock of
\* the seller's running.  From there a party's dispute starts one, so no admin is
\* ever needed.
Waiting(k) == trades[k].status = "Paid" /\ trades[k].autoReleaseAt = 0
KeepersEndTrades == \A k \in Keys : Open(k) ~> (Ended(k) \/ Waiting(k))

=============================================================================
