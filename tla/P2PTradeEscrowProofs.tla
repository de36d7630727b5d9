------------------------- MODULE P2PTradeEscrowProofs -------------------------
(***************************************************************************)
(* Theorems about P2PTradeEscrow for every value of the constants, along   *)
(* the same argument as OrderEscrow's: TypeOK is inductive, and under it   *)
(* every step keeps the surplus of holdings over obligations in every      *)
(* token, and commits to the owed counter exactly what it adds to the one  *)
(* pool slot it touches.                                                   *)
(***************************************************************************)
EXTENDS P2PTradeEscrow, EscrowBaseProofs

Safe == TypeOK' /\ \A t \in Tokens : SurplusStep(t)

\* A step on the slot of one seller in one token, booked in the owed counter.
Commits(t, amount) ==
    \A u \in Tokens : Committed(money'[u]) =
        Committed(money[u]) + IF u = t THEN amount ELSE 0
Gain(slot) == (available'[slot] + locked'[slot]) - (available[slot] + locked[slot])
PoolBooked(slot) ==
    /\ \A other \in Accounts \X Tokens : other # slot =>
          available'[other] = available[other] /\ locked'[other] = locked[other]
    /\ Commits(slot[2], Gain(slot))
PoolIdle == available' = available /\ locked' = locked /\ CommitmentsKept

LEMMA CommitsOne ==
    ASSUME TypeOK, NEW t \in Tokens, NEW m \in Money, money' = [money EXCEPT ![t] = m]
    PROVE  Commits(t, Committed(m) - Committed(money[t]))
<1>1. money \in [Tokens -> Money]
  BY DEF TypeOK, BaseTypeOK
<1>2. \A u \in Tokens : money'[u] = IF u = t THEN m ELSE money[u]
  BY <1>1
<1>3. Committed(m) \in Int /\ \A u \in Tokens : Committed(money[u]) \in Int
  BY <1>1, CommittedType
<1> QED
  BY <1>2, <1>3 DEF Commits

\* The slots and the record of an existing trade.
LEMMA OpenedTrade ==
    ASSUME TypeOK, NEW k \in Keys, trades[k] # NoTrade
    PROVE  /\ trades[k] \in Trade
           /\ trades[k].amount \in Nat /\ trades[k].token \in Tokens
           /\ trades[k].seller \in Holders /\ trades[k].buyer \in Holders
           /\ <<trades[k].seller, trades[k].token>> \in Accounts \X Tokens
           /\ money[trades[k].token] \in Money
           /\ feeRecipient \in Holders
  BY P2PAssumption DEF TypeOK, BaseTypeOK, ConfigTypeOK, Trade, Holders

\* A fee of at most MAX_FEE_BPS is at most the amount it is taken from.
LEMMA FeeWithinAmount ==
    ASSUME NEW t \in Trade
    PROVE  Fee(t) \in Nat /\ t.amount - Fee(t) \in Nat
<1>1. t.amount \in Nat /\ t.feeBps \in Nat /\ t.feeBps <= 500
  BY P2PAssumption DEF Trade, MAX_FEE_BPS
<1>2. t.amount * (10000 - t.feeBps) >= 0
  BY <1>1
<1>3. t.amount * (10000 - t.feeBps) = t.amount * 10000 - t.amount * t.feeBps
  BY <1>1
<1>4. t.amount * t.feeBps \in Nat /\ t.amount * t.feeBps <= t.amount * 10000
  BY <1>1, <1>2, <1>3
<1> QED
  BY <1>1, <1>4 DEF Fee, BpsOf, BPS_DENOMINATOR

\* A trade's record keeps its type when it ends.
LEMMA EndType ==
    ASSUME TypeOK, NEW k \in Keys, NEW by \in Accounts, NEW status \in FinalStates,
           NEW paidOut \in BOOLEAN, trades[k] \in Trade, End(by, k, status, paidOut)
    PROVE  trades' \in [Keys -> Trade \cup {NoTrade}]
<1> DEFINE ended == [trades[k] EXCEPT !.status = status, !.endedBy = by,
                                      !.paidOut = paidOut]
<1>1. ended \in Trade
  BY Zenon DEF Trade
<1>2. trades' = [trades EXCEPT ![k] = ended]
  BY DEF End, TypeOK
<1> HIDE DEF ended
<1> QED
  BY <1>1, <1>2 DEF TypeOK

PoolTypes == /\ available' \in [Accounts \X Tokens -> Nat]
             /\ locked' \in [Accounts \X Tokens -> Nat]
             /\ voucherFilled' \in [Vouchers -> Nat]
MoneyKept == money' \in [Tokens -> Money] /\ \A u \in Tokens : SurplusStep(u)

LEMMA UnlockType ==
    ASSUME TypeOK, NEW k \in Keys, trades[k] # NoTrade, CanUnlock(trades[k]),
           Unlock(trades[k])
    PROVE  locked' \in [Accounts \X Tokens -> Nat]
<1> DEFINE slot == <<trades[k].seller, trades[k].token>>
<1>1. slot \in Accounts \X Tokens /\ trades[k].amount \in Nat
  BY OpenedTrade
<1>2. locked[slot] - trades[k].amount \in Nat
  BY <1>1 DEF CanUnlock, TypeOK
<1>3. locked' = [locked EXCEPT ![slot] = locked[slot] - trades[k].amount]
  BY DEF Unlock
<1> QED
  BY <1>2, <1>3 DEF TypeOK

\* What unlocking does to the pool's slots.
LEMMA UnlockBooked ==
    ASSUME TypeOK, NEW k \in Keys, trades[k] # NoTrade, Unlock(trades[k])
    PROVE  LET slot == <<trades[k].seller, trades[k].token>>
           IN  /\ slot[2] = trades[k].token
               /\ \A other \in Accounts \X Tokens : other # slot =>
                     locked'[other] = locked[other]
               /\ locked'[slot] = locked[slot] - trades[k].amount
               /\ available' = available => Gain(slot) = 0 - trades[k].amount
<1> DEFINE slot == <<trades[k].seller, trades[k].token>>
<1>1. /\ slot \in Accounts \X Tokens /\ trades[k].amount \in Nat
      /\ locked[slot] \in Nat /\ available[slot] \in Nat
  BY OpenedTrade DEF TypeOK
<1>2. locked' = [locked EXCEPT ![slot] = locked[slot] - trades[k].amount]
  BY DEF Unlock
<1>3. slot[2] = trades[k].token
  OBVIOUS
<1> HIDE DEF slot
<1>4. /\ \A other \in Accounts \X Tokens : other # slot => locked'[other] = locked[other]
      /\ locked'[slot] = locked[slot] - trades[k].amount
  BY <1>1, <1>2 DEF TypeOK
<1>5. available' = available => Gain(slot) = 0 - trades[k].amount
  BY <1>1, <1>4 DEF Gain
<1> QED
  BY <1>3, <1>4, <1>5 DEF slot

\* _payOut: the buyer and the fee recipient share what was locked.
LEMMA PayOutStep ==
    ASSUME TypeOK, NEW k \in Keys, trades[k] # NoTrade, PayOut(trades[k])
    PROVE  PoolTypes /\ MoneyKept /\ PoolBooked(<<trades[k].seller, trades[k].token>>)
<1> DEFINE t == trades[k]
           freed == SubOwed(money[t.token], t.amount)
           buyer == Push(t.token, freed, t.buyer, t.amount - Fee(t))
           paid == Push(t.token, buyer, feeRecipient, Fee(t))
<1>1. /\ t \in Trade /\ t.amount \in Nat /\ t.token \in Tokens
      /\ t.buyer \in Holders /\ feeRecipient \in Holders /\ money[t.token] \in Money
  BY OpenedTrade
<1>2. Fee(t) \in Nat /\ t.amount - Fee(t) \in Nat
  BY <1>1, FeeWithinAmount
<1>3. freed \in Money /\ Surplus(freed) = Surplus(money[t.token]) + t.amount
  BY <1>1, SubOwedSurplus DEF PayOut
<1>4. buyer \in Money /\ Surplus(buyer) >= Surplus(freed) - (t.amount - Fee(t))
  BY <1>1, <1>2, <1>3, PushSurplus
<1>5. paid \in Money /\ Surplus(paid) >= Surplus(buyer) - Fee(t)
  BY <1>1, <1>2, <1>4, PushSurplus
<1>6. money' = [money EXCEPT ![t.token] = paid]
  BY DEF PayOut
<1> HIDE DEF freed, buyer, paid
<1>7. Surplus(paid) >= Surplus(money[t.token])
  BY <1>1, <1>2, <1>3, <1>4, <1>5, SurplusType
<1>8. MoneyKept
  BY <1>1, <1>5, <1>6, <1>7, MoneyStep DEF MoneyKept, TypeOK, BaseTypeOK
<1>9. PoolTypes
  BY UnlockType DEF PoolTypes, PayOut, TypeOK
<1>10. Committed(paid) = Committed(money[t.token]) - t.amount
  <2>1. Committed(freed) = Committed(money[t.token]) - t.amount
    BY <1>1, SubOwedCommitted DEF freed
  <2>2. Committed(buyer) = Committed(freed)
    BY <1>1, <1>2, <1>3, PushCommitted DEF buyer
  <2>3. Committed(paid) = Committed(buyer)
    BY <1>1, <1>2, <1>4, PushCommitted DEF paid
  <2> QED
    BY <2>1, <2>2, <2>3
<1>11. Commits(t.token, 0 - t.amount)
  <2>1. Committed(paid) - Committed(money[t.token]) = 0 - t.amount
    BY <1>1, <1>10, CommittedType
  <2>2. Commits(t.token, Committed(paid) - Committed(money[t.token]))
    BY <1>1, <1>5, <1>6, CommitsOne
  <2> QED
    BY <2>1, <2>2
<1>12. PoolBooked(<<t.seller, t.token>>)
  BY <1>11, UnlockBooked DEF PayOut, PoolBooked
<1> QED
  BY <1>8, <1>9, <1>12

\* _returnToSeller: into the pool, or out to the user who deposited.
LEMMA ReturnStep ==
    ASSUME TypeOK, NEW k \in Keys, trades[k] # NoTrade, ReturnToSeller(trades[k])
    PROVE  PoolTypes /\ MoneyKept /\ PoolBooked(<<trades[k].seller, trades[k].token>>)
<1> DEFINE t == trades[k]
           slot == <<t.seller, t.token>>
<1>1. /\ t \in Trade /\ t.amount \in Nat /\ t.token \in Tokens /\ t.seller \in Holders
      /\ slot \in Accounts \X Tokens /\ money[t.token] \in Money
  BY OpenedTrade
<1>2. locked' \in [Accounts \X Tokens -> Nat]
  BY UnlockType DEF ReturnToSeller
<1>3. CASE ReturnToPool(t)
  <2>1. available[slot] + t.amount \in Nat
    BY <1>1 DEF TypeOK
  <2>2. available' = [available EXCEPT ![slot] = available[slot] + t.amount]
    BY <1>3 DEF ReturnToPool
  <2>3. available' \in [Accounts \X Tokens -> Nat]
    BY <2>1, <2>2 DEF TypeOK
  <2>4. voucherFilled' \in [Vouchers -> Nat]
    <3>1. ASSUME NEW v \in Vouchers, v = t.voucher
          PROVE  voucherFilled[v] - t.amount \in Nat
      <4>1. v # NoVoucher
        BY P2PAssumption
      <4> QED
        BY <1>1, <1>3, <3>1, <4>1 DEF ReturnToPool, TypeOK
    <3> QED
      BY <1>3, <3>1 DEF ReturnToPool, TypeOK
  <2>5. MoneyKept
    BY <1>3, MoneyStutter DEF ReturnToPool, MoneyKept, TypeOK, BaseTypeOK
  <2>6. /\ \A other \in Accounts \X Tokens : other # slot =>
              available'[other] = available[other] /\ locked'[other] = locked[other]
        /\ available'[slot] = available[slot] + t.amount
        /\ locked'[slot] = locked[slot] - t.amount
        /\ available[slot] \in Nat /\ locked[slot] \in Nat
    BY <1>1, <2>2, UnlockBooked DEF ReturnToSeller, TypeOK
  <2>7. Gain(slot) = 0
    BY <1>1, <2>6 DEF Gain
  <2>8. Commits(slot[2], 0)
    BY <1>3, CommittedType DEF ReturnToPool, Commits, TypeOK, BaseTypeOK
  <2>9. PoolBooked(slot)
    BY <2>6, <2>7, <2>8 DEF PoolBooked
  <2> QED
    BY <1>2, <2>3, <2>4, <2>5, <2>9 DEF PoolTypes
<1>4. CASE ReturnDeposit(t)
  <2> DEFINE freed == SubOwed(money[t.token], t.amount)
             paid == Push(t.token, freed, t.seller, t.amount)
  <2>1. freed \in Money /\ Surplus(freed) = Surplus(money[t.token]) + t.amount
    BY <1>1, <1>4, SubOwedSurplus DEF ReturnDeposit
  <2>2. paid \in Money /\ Surplus(paid) >= Surplus(freed) - t.amount
    BY <1>1, <2>1, PushSurplus
  <2>3. money' = [money EXCEPT ![t.token] = paid]
    BY <1>4 DEF ReturnDeposit
  <2> HIDE DEF freed, paid
  <2>4. Surplus(paid) >= Surplus(money[t.token])
    BY <1>1, <2>1, <2>2, SurplusType
  <2>5. MoneyKept
    BY <1>1, <2>2, <2>3, <2>4, MoneyStep DEF MoneyKept, TypeOK, BaseTypeOK
  <2>6. Committed(paid) = Committed(money[t.token]) - t.amount
    <3>1. Committed(freed) = Committed(money[t.token]) - t.amount
      BY <1>1, SubOwedCommitted DEF freed
    <3>2. Committed(paid) = Committed(freed)
      BY <1>1, <2>1, PushCommitted DEF paid
    <3> QED
      BY <3>1, <3>2
  <2>7. Commits(t.token, 0 - t.amount)
    <3>1. Committed(paid) - Committed(money[t.token]) = 0 - t.amount
      BY <1>1, <2>6, CommittedType
    <3>2. Commits(t.token, Committed(paid) - Committed(money[t.token]))
      BY <1>1, <2>2, <2>3, CommitsOne
    <3> QED
      BY <3>1, <3>2
  <2>8. PoolBooked(slot)
    BY <1>4, <2>7, UnlockBooked DEF ReturnToSeller, ReturnDeposit, PoolBooked
  <2> QED
    BY <1>2, <1>4, <2>5, <2>8 DEF PoolTypes, ReturnDeposit, TypeOK
<1> QED
  BY <1>3, <1>4 DEF ReturnToSeller

-----------------------------------------------------------------------------
(* The pool and the choices made ahead of a trade. *)

LEMMA DepositStep ==
    ASSUME TypeOK, NEW by \in Sellers, NEW token \in Tokens, NEW amount \in Amounts,
           Deposit(by, token, amount), UNCHANGED <<now, configVars>>
    PROVE  Safe /\ PoolBooked(<<by, token>>)
<1> DEFINE reserved == AddOwed(money[token], amount)
           pulled == Pull(token, reserved, by, amount)
           slot == <<by, token>>
<1>1. /\ by \in Accounts /\ amount \in Nat /\ money[token] \in Money
      /\ slot \in Accounts \X Tokens /\ available[slot] + amount \in Nat
  BY P2PAssumption DEF TypeOK, BaseTypeOK
<1>2. reserved \in Money /\ Surplus(reserved) = Surplus(money[token]) - amount
  BY <1>1, AddOwedSurplus
<1>3. pulled \in Money /\ Surplus(pulled) = Surplus(reserved) + amount
  BY <1>1, <1>2, PullSurplus DEF Deposit
<1>4. money' = [money EXCEPT ![token] = pulled]
  BY DEF Deposit
<1> HIDE DEF reserved, pulled
<1>5. Surplus(pulled) >= Surplus(money[token])
  BY <1>1, <1>2, <1>3, SurplusType
<1>6. money' \in [Tokens -> Money] /\ \A u \in Tokens : SurplusStep(u)
  BY <1>3, <1>4, <1>5, MoneyStep DEF TypeOK, BaseTypeOK
<1>7. available' = [available EXCEPT ![slot] = available[slot] + amount]
  BY DEF Deposit
<1>8. available' \in [Accounts \X Tokens -> Nat]
  BY <1>1, <1>7 DEF TypeOK
<1>9. Committed(pulled) = Committed(money[token]) + amount
  <2>1. Committed(reserved) = Committed(money[token]) + amount
    BY <1>1, AddOwedCommitted DEF reserved
  <2>2. Committed(pulled) = Committed(reserved)
    <3>1. by \in Holders /\ Self \in Holders
      BY <1>1 DEF Holders
    <3> QED
      BY <1>1, <1>2, <3>1, TransferredCommitted DEF pulled, Pull
  <2> QED
    BY <2>1, <2>2
<1>10. Commits(token, amount)
  <2>1. Committed(pulled) - Committed(money[token]) = amount
    BY <1>1, <1>9, CommittedType
  <2>2. Commits(token, Committed(pulled) - Committed(money[token]))
    BY <1>3, <1>4, CommitsOne
  <2> QED
    BY <2>1, <2>2
<1>11. /\ Gain(slot) = amount /\ slot[2] = token
       /\ \A other \in Accounts \X Tokens : other # slot =>
             available'[other] = available[other] /\ locked'[other] = locked[other]
  <2>1. locked' = locked /\ locked[slot] \in Nat /\ available[slot] \in Nat
    BY <1>1 DEF Deposit, TypeOK
  <2>2. available'[slot] = available[slot] + amount
    BY <1>1, <1>7 DEF TypeOK
  <2> QED
    BY <1>1, <1>7, <2>1, <2>2 DEF Gain, TypeOK
<1>12. PoolBooked(slot)
  BY <1>10, <1>11 DEF PoolBooked
<1> QED
  BY <1>6, <1>8, <1>12
  DEF Safe, TypeOK, BaseTypeOK, ConfigTypeOK, configVars, vouchers, choices, Deposit

LEMMA WithdrawStep ==
    ASSUME TypeOK, NEW by \in Sellers, NEW token \in Tokens, NEW amount \in Amounts,
           Withdraw(by, token, amount), UNCHANGED <<now, configVars>>
    PROVE  Safe /\ PoolBooked(<<by, token>>)
<1> DEFINE freed == SubOwed(money[token], amount)
           paid == Push(token, freed, by, amount)
           slot == <<by, token>>
<1>1. /\ by \in Holders /\ amount \in Nat /\ money[token] \in Money
      /\ slot \in Accounts \X Tokens
  BY P2PAssumption DEF TypeOK, BaseTypeOK, Holders
<1>2. available[slot] - amount \in Nat
  BY <1>1 DEF Withdraw, TypeOK
<1>3. freed \in Money /\ Surplus(freed) = Surplus(money[token]) + amount
  BY <1>1, SubOwedSurplus DEF Withdraw
<1>4. paid \in Money /\ Surplus(paid) >= Surplus(freed) - amount
  BY <1>1, <1>3, PushSurplus
<1>5. money' = [money EXCEPT ![token] = paid]
  BY DEF Withdraw
<1> HIDE DEF freed, paid
<1>6. Surplus(paid) >= Surplus(money[token])
  BY <1>1, <1>3, <1>4, SurplusType
<1>7. money' \in [Tokens -> Money] /\ \A u \in Tokens : SurplusStep(u)
  BY <1>4, <1>5, <1>6, MoneyStep DEF TypeOK, BaseTypeOK
<1>8. available' = [available EXCEPT ![slot] = available[slot] - amount]
  BY DEF Withdraw
<1>9. available' \in [Accounts \X Tokens -> Nat]
  BY <1>1, <1>2, <1>8 DEF TypeOK
<1>10. Committed(paid) = Committed(money[token]) - amount
  <2>1. Committed(freed) = Committed(money[token]) - amount
    BY <1>1, SubOwedCommitted DEF freed
  <2>2. Committed(paid) = Committed(freed)
    BY <1>1, <1>3, PushCommitted DEF paid
  <2> QED
    BY <2>1, <2>2
<1>11. Commits(token, 0 - amount)
  <2>1. Committed(paid) - Committed(money[token]) = 0 - amount
    BY <1>1, <1>10, CommittedType
  <2>2. Commits(token, Committed(paid) - Committed(money[token]))
    BY <1>4, <1>5, CommitsOne
  <2> QED
    BY <2>1, <2>2
<1>12. /\ Gain(slot) = 0 - amount /\ slot[2] = token
       /\ \A other \in Accounts \X Tokens : other # slot =>
             available'[other] = available[other] /\ locked'[other] = locked[other]
  <2>1. locked' = locked /\ locked[slot] \in Nat /\ available[slot] \in Nat
    BY <1>1 DEF Withdraw, TypeOK
  <2>2. available'[slot] = available[slot] - amount
    BY <1>1, <1>8 DEF TypeOK
  <2> QED
    BY <1>1, <1>8, <2>1, <2>2 DEF Gain, TypeOK
<1>13. PoolBooked(slot)
  BY <1>11, <1>12 DEF PoolBooked
<1> QED
  BY <1>7, <1>9, <1>13
  DEF Safe, TypeOK, BaseTypeOK, ConfigTypeOK, configVars, vouchers, choices, Withdraw

LEMMA ChoiceStep ==
    ASSUME TypeOK, NEW by \in Sellers, UNCHANGED <<now, configVars>>,
           \/ \E delegate \in Delegates : SetReleaser(by, delegate)
           \/ \E window \in WindowChoices : SetAutoReleaseWindow(by, window)
           \/ \E v \in Vouchers : CancelVoucher(by, v)
    PROVE  Safe /\ PoolIdle
<1> USE P2PAssumption
<1>1. UNCHANGED <<pool, voucherFilled, trades, money, paused>>
  BY DEF SetReleaser, SetAutoReleaseWindow, CancelVoucher, vouchers
<1>2. /\ voucherCancelled' \subseteq Vouchers
      /\ releaser' \in [Accounts -> Accounts \cup {NoOne}]
      /\ autoReleaseWindow' \in [Accounts -> Nat]
  BY DEF SetReleaser, SetAutoReleaseWindow, CancelVoucher, vouchers, choices, TypeOK
<1>3. money' \in [Tokens -> Money] /\ \A u \in Tokens : SurplusStep(u)
  BY <1>1, MoneyStutter DEF TypeOK, BaseTypeOK
<1>4. PoolIdle
  BY <1>1 DEF PoolIdle, CommitmentsKept, pool
<1> QED
  BY <1>1, <1>2, <1>3, <1>4
  DEF Safe, TypeOK, BaseTypeOK, ConfigTypeOK, configVars, pool

-----------------------------------------------------------------------------
(* Opening a trade. *)

LEMMA StoredType ==
    ASSUME TypeOK, NEW k \in Keys, NEW seller \in Accounts, NEW buyer \in Accounts,
           NEW token \in Tokens, NEW amount \in Amounts,
           NEW funding \in {"PooledFromMaker", "DepositedByTaker"},
           NEW voucher \in Vouchers \cup {NoVoucher},
           NEW named \in Accounts \cup {NoOne},
           NewTrade(k, token, amount),
           Stored(k, seller, buyer, token, amount, funding, voucher, named)
    PROVE  trades' \in [Keys -> Trade \cup {NoTrade}]
<1> DEFINE expires == now + PAYMENT_WINDOW
           fee == FeeBps(token)
           window == WindowFor(funding, seller)
           trade == [status |-> "Pending", seller |-> seller, buyer |-> buyer,
                     amount |-> amount, token |-> token, funding |-> funding,
                     expiresAt |-> expires, autoReleaseAt |-> 0, disputedAt |-> 0,
                     feeBps |-> fee, autoReleaseWindow |-> window,
                     voucher |-> voucher, tradeReleaser |-> named,
                     endedBy |-> NoOne, paidOut |-> FALSE]
<1>1. expires \in Nat /\ window \in Nat
  BY P2PAssumption DEF TypeOK, BaseTypeOK, WindowFor
<1>2. fee \in 0 .. MAX_FEE_BPS
  <2>1. \A f \in Features : rates[<<f, token>>] \in Rate
    BY DEF TypeOK, ConfigTypeOK
  <2>2. /\ rates[<<FEATURE_PLATFORM, token>>].bps \in Nat
        /\ rates[<<FEATURE_GAS, token>>].bps \in Nat
    BY <2>1, P2PAssumption DEF Rate
  <2>3. FeeBps(token) \in Nat
    BY <2>2 DEF FeeBps
  <2> QED
    BY <2>3 DEF NewTrade, FeesCapped, MAX_FEE_BPS
<1>3. amount \in 1 .. MaxUint96
  BY DEF NewTrade
<1>4. trades' = [trades EXCEPT ![k] = trade]
  BY DEF Stored
<1> HIDE DEF expires, fee, window
<1>5. trade \in Trade
  BY <1>1, <1>2, <1>3 DEF Trade, OpenStates
<1> HIDE DEF trade
<1> QED
  BY <1>4, <1>5 DEF TypeOK

LEMMA OpenTradeStep ==
    ASSUME TypeOK, NEW buyer \in Buyers, NEW id \in TradeIds, NEW v \in Vouchers,
           NEW amount \in Amounts, OpenTrade(buyer, id, v, amount),
           UNCHANGED <<now, configVars>>
    PROVE  Safe /\ PoolBooked(<<v.seller, v.token>>)
<1> DEFINE k == <<buyer, id>>
           slot == <<v.seller, v.token>>
<1>1. /\ k \in Keys /\ buyer \in Accounts /\ v.seller \in Accounts /\ v.token \in Tokens
      /\ slot \in Accounts \X Tokens /\ amount \in Nat
  BY P2PAssumption DEF Keys, Voucher
<1>2. /\ available[slot] - amount \in Nat /\ locked[slot] + amount \in Nat
      /\ voucherFilled[v] + amount \in Nat
  BY <1>1 DEF OpenTrade, TypeOK
<1>3. /\ available' = [available EXCEPT ![slot] = available[slot] - amount]
      /\ locked' = [locked EXCEPT ![slot] = locked[slot] + amount]
      /\ voucherFilled' = [voucherFilled EXCEPT ![v] = voucherFilled[v] + amount]
  BY DEF OpenTrade
<1>4. /\ available' \in [Accounts \X Tokens -> Nat]
      /\ locked' \in [Accounts \X Tokens -> Nat]
      /\ voucherFilled' \in [Vouchers -> Nat]
  BY <1>1, <1>2, <1>3 DEF TypeOK
<1>5. trades' \in [Keys -> Trade \cup {NoTrade}]
  BY <1>1, StoredType DEF OpenTrade
<1>6. money' \in [Tokens -> Money] /\ \A u \in Tokens : SurplusStep(u)
  BY MoneyStutter DEF OpenTrade, TypeOK, BaseTypeOK
<1>7. PoolBooked(slot)
  <2>1. /\ \A other \in Accounts \X Tokens : other # slot =>
              available'[other] = available[other] /\ locked'[other] = locked[other]
        /\ available'[slot] = available[slot] - amount
        /\ locked'[slot] = locked[slot] + amount
        /\ available[slot] \in Nat /\ locked[slot] \in Nat
    BY <1>1, <1>3 DEF TypeOK
  <2>2. Gain(slot) = 0
    BY <1>1, <2>1 DEF Gain
  <2>3. Commits(slot[2], 0)
    BY CommittedType DEF OpenTrade, Commits, TypeOK, BaseTypeOK
  <2> QED
    BY <2>1, <2>2, <2>3 DEF PoolBooked
<1> QED
  BY <1>4, <1>5, <1>6, <1>7
  DEF Safe, TypeOK, BaseTypeOK, ConfigTypeOK, configVars, choices, OpenTrade

LEMMA OpenTradeWithDepositStep ==
    ASSUME TypeOK, NEW user \in Users, NEW id \in TradeIds, NEW token \in Tokens,
           NEW amount \in Amounts, NEW merchant \in Merchants, NEW named \in Delegates,
           OpenTradeWithDeposit(user, id, token, amount, merchant, named),
           UNCHANGED <<now, configVars>>
    PROVE  Safe /\ PoolBooked(<<user, token>>)
<1> DEFINE k == <<user, id>>
           slot == <<user, token>>
           reserved == AddOwed(money[token], amount)
           pulled == Pull(token, reserved, user, amount)
<1>1. /\ k \in Keys /\ user \in Accounts /\ merchant \in Accounts
      /\ named \in Accounts \cup {NoOne} /\ slot \in Accounts \X Tokens
      /\ amount \in Nat /\ money[token] \in Money /\ locked[slot] + amount \in Nat
  BY P2PAssumption DEF Keys, TypeOK, BaseTypeOK
<1>2. reserved \in Money /\ Surplus(reserved) = Surplus(money[token]) - amount
  BY <1>1, AddOwedSurplus
<1>3. pulled \in Money /\ Surplus(pulled) = Surplus(reserved) + amount
  BY <1>1, <1>2, PullSurplus DEF OpenTradeWithDeposit
<1>4. money' = [money EXCEPT ![token] = pulled]
  BY DEF OpenTradeWithDeposit
<1> HIDE DEF reserved, pulled
<1>5. Surplus(pulled) >= Surplus(money[token])
  BY <1>1, <1>2, <1>3, SurplusType
<1>6. money' \in [Tokens -> Money] /\ \A u \in Tokens : SurplusStep(u)
  BY <1>3, <1>4, <1>5, MoneyStep DEF TypeOK, BaseTypeOK
<1>7. locked' = [locked EXCEPT ![slot] = locked[slot] + amount]
  BY DEF OpenTradeWithDeposit
<1>8. locked' \in [Accounts \X Tokens -> Nat]
  BY <1>1, <1>7 DEF TypeOK
<1>9. trades' \in [Keys -> Trade \cup {NoTrade}]
  BY <1>1, StoredType DEF OpenTradeWithDeposit
<1>10. Committed(pulled) = Committed(money[token]) + amount
  <2>1. Committed(reserved) = Committed(money[token]) + amount
    BY <1>1, AddOwedCommitted DEF reserved
  <2>2. Committed(pulled) = Committed(reserved)
    <3>1. user \in Holders /\ Self \in Holders
      BY <1>1 DEF Holders
    <3> QED
      BY <1>1, <1>2, <3>1, TransferredCommitted DEF pulled, Pull
  <2> QED
    BY <2>1, <2>2
<1>11. Commits(token, amount)
  <2>1. Committed(pulled) - Committed(money[token]) = amount
    BY <1>1, <1>10, CommittedType
  <2>2. Commits(token, Committed(pulled) - Committed(money[token]))
    BY <1>3, <1>4, CommitsOne
  <2> QED
    BY <2>1, <2>2
<1>12. /\ Gain(slot) = amount /\ slot[2] = token
       /\ \A other \in Accounts \X Tokens : other # slot =>
             available'[other] = available[other] /\ locked'[other] = locked[other]
  <2>1. available' = available /\ locked[slot] \in Nat /\ available[slot] \in Nat
    BY <1>1 DEF OpenTradeWithDeposit, TypeOK
  <2>2. locked'[slot] = locked[slot] + amount
    BY <1>1, <1>7 DEF TypeOK
  <2> QED
    BY <1>1, <1>7, <2>1, <2>2 DEF Gain, TypeOK
<1>13. PoolBooked(slot)
  BY <1>11, <1>12 DEF PoolBooked
<1> QED
  BY <1>6, <1>8, <1>9, <1>13
  DEF Safe, TypeOK, BaseTypeOK, ConfigTypeOK, configVars, vouchers, choices,
      OpenTradeWithDeposit

-----------------------------------------------------------------------------
(* The life of a trade. *)

\* Marking a trade paid and disputing it move no money.
LEMMA PhaseStep ==
    ASSUME TypeOK, NEW k \in Keys, NEW by \in Accounts,
           MarkPaid(by, k) \/ RaiseDispute(by, k), UNCHANGED <<now, configVars>>
    PROVE  Safe /\ PoolIdle
<1>1. trades[k] \in Trade /\ now \in Nat
  BY DEF MarkPaid, RaiseDispute, NoTrade, TypeOK, BaseTypeOK
<1>2. ASSUME MarkPaid(by, k) PROVE trades' \in [Keys -> Trade \cup {NoTrade}]
  <2> DEFINE clock == IF trades[k].autoReleaseWindow # 0
                      THEN now + trades[k].autoReleaseWindow
                      ELSE trades[k].autoReleaseAt
             paid == [trades[k] EXCEPT !.status = "Paid", !.autoReleaseAt = clock]
  <2>1. clock \in Nat
    BY <1>1 DEF Trade
  <2>2. trades' = [trades EXCEPT ![k] = paid]
    BY <1>2 DEF MarkPaid, TypeOK
  <2> HIDE DEF clock
  <2>3. paid \in Trade
    BY <1>1, <2>1, Zenon DEF Trade, OpenStates
  <2> HIDE DEF paid
  <2> QED
    BY <2>2, <2>3 DEF TypeOK
<1>3. ASSUME RaiseDispute(by, k) PROVE trades' \in [Keys -> Trade \cup {NoTrade}]
  <2> DEFINE disputed == [trades[k] EXCEPT !.status = "Disputed", !.disputedAt = now]
  <2>1. trades' = [trades EXCEPT ![k] = disputed]
    BY <1>3 DEF RaiseDispute, TypeOK
  <2>2. disputed \in Trade
    BY <1>1, Zenon DEF Trade, OpenStates
  <2> HIDE DEF disputed
  <2> QED
    BY <2>1, <2>2 DEF TypeOK
<1>4. UNCHANGED <<pool, vouchers, choices, money, paused>>
  BY DEF MarkPaid, RaiseDispute
<1>5. money' \in [Tokens -> Money] /\ \A u \in Tokens : SurplusStep(u)
  BY <1>4, MoneyStutter DEF TypeOK, BaseTypeOK
<1>6. PoolIdle
  BY <1>4 DEF PoolIdle, CommitmentsKept, pool
<1> QED
  BY <1>2, <1>3, <1>4, <1>5, <1>6
  DEF Safe, TypeOK, BaseTypeOK, ConfigTypeOK, configVars, pool, vouchers, choices

\* What every step does to the pool.
Booked == PoolIdle \/ \E slot \in Accounts \X Tokens : PoolBooked(slot)

\* Every way a trade ends is a payout or a return.
LEMMA EndingStep ==
    ASSUME TypeOK, NEW k \in Keys, NEW by \in Accounts, NEW status \in FinalStates,
           NEW paidOut \in BOOLEAN, trades[k].status \in OpenStates,
           End(by, k, status, paidOut),
           PayOut(trades[k]) \/ ReturnToSeller(trades[k]),
           UNCHANGED settleUnchanged, UNCHANGED <<now, configVars>>
    PROVE  Safe /\ Booked
<1>1. trades[k] # NoTrade
  BY DEF NoTrade, OpenStates
<1>2. trades' \in [Keys -> Trade \cup {NoTrade}]
  BY <1>1, OpenedTrade, EndType
<1>3. PoolTypes /\ MoneyKept /\ PoolBooked(<<trades[k].seller, trades[k].token>>)
  BY <1>1, PayOutStep, ReturnStep
<1>4. <<trades[k].seller, trades[k].token>> \in Accounts \X Tokens
  BY <1>1, OpenedTrade
<1>5. Booked
  BY <1>3, <1>4 DEF Booked
<1> QED
  BY <1>2, <1>3, <1>5
  DEF Safe, TypeOK, BaseTypeOK, ConfigTypeOK, configVars, choices, settleUnchanged,
      PoolTypes, MoneyKept

LEMMA TradeStep ==
    ASSUME TypeOK, TradeNext, UNCHANGED <<now, configVars>>
    PROVE  Safe /\ Booked
<1> Callers \subseteq Accounts
  BY BaseAssumption
<1> USE DEF FinalStates, OpenStates
<1>1. ASSUME NEW by \in Accounts, NEW k \in Keys, MarkPaid(by, k) \/ RaiseDispute(by, k)
      PROVE  Safe /\ Booked
  BY <1>1, PhaseStep DEF Booked
<1>2. ASSUME NEW by \in Accounts, NEW k \in Keys, Release(by, k) \/ FinalizeRelease(by, k)
      PROVE  Safe /\ Booked
  BY <1>2, EndingStep DEF Release, FinalizeRelease
<1>3. ASSUME NEW by \in Accounts, NEW k \in Keys,
             CancelByTimeout(by, k) \/ ClaimDisputeBackstop(by, k)
      PROVE  Safe /\ Booked
  BY <1>3, EndingStep DEF CancelByTimeout, ClaimDisputeBackstop
<1>4. ASSUME NEW by \in Accounts, NEW k \in Keys, NEW releaseToBuyer \in BOOLEAN,
             AdminResolve(by, k, releaseToBuyer)
      PROVE  Safe /\ Booked
  BY <1>4, EndingStep DEF AdminResolve
<1> QED
  BY <1>1, <1>2, <1>3, <1>4 DEF TradeNext

LEMMA PoolStep ==
    ASSUME TypeOK, PoolNext, UNCHANGED <<now, configVars>>
    PROVE  Safe /\ Booked
<1>1. ASSUME NEW by \in Sellers, NEW token \in Tokens, NEW amount \in Amounts,
             Deposit(by, token, amount) \/ Withdraw(by, token, amount)
      PROVE  Safe /\ Booked
  <2>1. Safe /\ PoolBooked(<<by, token>>)
    BY <1>1, DepositStep, WithdrawStep
  <2>2. <<by, token>> \in Accounts \X Tokens
    BY P2PAssumption
  <2> QED
    BY <2>1, <2>2 DEF Booked
<1>2. ASSUME NEW by \in Sellers,
             \/ \E delegate \in Delegates : SetReleaser(by, delegate)
             \/ \E window \in WindowChoices : SetAutoReleaseWindow(by, window)
             \/ \E v \in Vouchers : CancelVoucher(by, v)
      PROVE  Safe /\ Booked
  BY <1>2, ChoiceStep DEF Booked
<1> QED
  BY <1>1, <1>2 DEF PoolNext

LEMMA OpenStep ==
    ASSUME TypeOK, OpenNext, UNCHANGED <<now, configVars>>
    PROVE  Safe /\ Booked
<1>1. ASSUME NEW buyer \in Buyers, NEW id \in TradeIds, NEW v \in Vouchers,
             NEW amount \in Amounts, OpenTrade(buyer, id, v, amount)
      PROVE  Safe /\ Booked
  <2>1. <<v.seller, v.token>> \in Accounts \X Tokens
    BY P2PAssumption DEF Voucher
  <2> QED
    BY <1>1, <2>1, OpenTradeStep DEF Booked
<1>2. ASSUME NEW user \in Users, NEW id \in TradeIds, NEW token \in Tokens,
             NEW amount \in Amounts, NEW merchant \in Merchants, NEW named \in Delegates,
             OpenTradeWithDeposit(user, id, token, amount, merchant, named)
      PROVE  Safe /\ Booked
  <2>1. <<user, token>> \in Accounts \X Tokens
    BY P2PAssumption
  <2> QED
    BY <1>2, <2>1, OpenTradeWithDepositStep DEF Booked
<1> QED
  BY <1>1, <1>2 DEF OpenNext

\* TypeOK is inductive, and the steps that keep it keep the surplus.
LEMMA StepSafe ==
    ASSUME TypeOK, [Next]_vars
    PROVE  Safe /\ Booked
<1>1. CASE (PoolNext \/ OpenNext \/ TradeNext) /\ UNCHANGED <<now, configVars>>
  BY <1>1, PoolStep, OpenStep, TradeStep
<1>2. CASE BaseNext /\ UNCHANGED <<p2pVars, configVars>>
  <2>1. BaseTypeOK' /\ (\A t \in Tokens : SurplusStep(t)) /\ CommitmentsKept
    BY <1>2, BaseStep, BaseKeepsCommitted DEF TypeOK
  <2> QED
    BY <1>2, <2>1
    DEF Safe, Booked, PoolIdle, TypeOK, ConfigTypeOK, configVars, p2pVars
<1>3. CASE Tick /\ UNCHANGED <<p2pVars, configVars>>
  BY <1>3, MoneyStutter
  DEF Safe, Booked, PoolIdle, CommitmentsKept, TypeOK, BaseTypeOK, ConfigTypeOK,
      configVars, p2pVars, Tick
<1>4. CASE ConfigNext /\ UNCHANGED <<p2pVars, baseVars>>
  BY <1>4, ConfigStep, MoneyStutter
  DEF Safe, Booked, PoolIdle, CommitmentsKept, TypeOK, BaseTypeOK, p2pVars, baseVars
<1>5. CASE UNCHANGED vars
  BY <1>5, MoneyStutter
  DEF Safe, Booked, PoolIdle, CommitmentsKept, TypeOK, BaseTypeOK, ConfigTypeOK,
      configVars, p2pVars, vars
<1> QED
  BY <1>1, <1>2, <1>3, <1>4, <1>5 DEF Next

LEMMA InitSafe == Init => TypeOK /\ Solvent
<1> SUFFICES ASSUME Init PROVE TypeOK /\ Solvent
  OBVIOUS
<1>1. BaseTypeOK /\ \A t \in Tokens : Surplus(money[t]) = 0
  BY BaseStart DEF Init
<1>2. TypeOK
  BY <1>1, ConfigStart DEF Init, TypeOK
<1>3. ASSUME NEW t \in Tokens PROVE money[t].owed <= money[t].bal[Self]
  BY <1>1 DEF BaseTypeOK, Money, Surplus, Holders
<1> QED
  BY <1>2, <1>3 DEF Solvent

\* Every variable stays in its type: no pool, no locked amount and no balance
\* goes below zero, every recorded amount fits its 96 bits and every recorded
\* fee rate is within the escrow's own cap, whatever FeeConfig is changed to.
THEOREM TypeCorrect == Spec => []TypeOK
<1>1. Init => TypeOK
  BY InitSafe
<1>2. TypeOK /\ [Next]_vars => TypeOK'
  BY StepSafe DEF Safe
<1> QED
  BY <1>1, <1>2, PTL DEF Spec

\* No step of the contract, of its configuration or of the token takes from
\* what is held above the obligations, but for a rescue, which leaves exactly
\* the obligations.
THEOREM SurplusIsKept == Spec => SurplusKept
<1>1. TypeOK /\ [Next]_vars => [\A t \in Tokens : SurplusStep(t)]_money
  BY StepSafe DEF Safe
<1> QED
  BY <1>1, TypeCorrect, PTL DEF Spec, SurplusKept

\* The escrow holds at least what it owes, in every token, always: the pools,
\* the open trades and the payouts nobody could be sent are all covered.
THEOREM AlwaysSolvent == Spec => []Solvent
<1>1. Init => Solvent
  BY InitSafe
<1>2. TypeOK /\ Solvent /\ [Next]_vars => Solvent'
  BY StepSafe, SolventStep DEF Safe, TypeOK
<1> QED
  BY <1>1, <1>2, TypeCorrect, PTL DEF Spec

-----------------------------------------------------------------------------
(* The pool's books: what is committed in a token is what its slots hold.    *)

Backing(free, held, t) == [s \in Accounts |-> free[<<s, t>>] + held[<<s, t>>]]
PoolLedger ==
    \A t \in Tokens : Committed(money[t]) = SumOver(Backing(available, locked, t))

LEMMA BackingType ==
    ASSUME NEW free \in [Accounts \X Tokens -> Nat],
           NEW held \in [Accounts \X Tokens -> Nat], NEW t \in Tokens
    PROVE  Backing(free, held, t) \in [Accounts -> Nat]
  BY DEF Backing

\* The ledger is OwedIsExact, told by what is committed.
LEMMA PoolLedgerIsOwed ==
    ASSUME TypeOK
    PROVE  PoolLedger <=> OwedIsExact
<1>1. \A t \in Tokens : /\ money[t].owed \in Nat
                        /\ SumOver(money[t].claimable) \in Nat
                        /\ SumOver(Backing(available, locked, t)) \in Nat
  BY HoldersFinite, BaseAssumption, BackingType, SumType DEF TypeOK, BaseTypeOK, Money
<1>2. \A t \in Tokens : Committed(money[t]) = money[t].owed - SumOver(money[t].claimable)
  BY DEF Committed
<1>3. \A t \in Tokens :
          /\ Total([s \in Accounts |-> available[<<s, t>>] + locked[<<s, t>>]])
                = SumOver(Backing(available, locked, t))
          /\ Total(money[t].claimable) = SumOver(money[t].claimable)
  BY DEF Total, SumOver, Backing
<1>4. ASSUME NEW t \in Tokens
      PROVE  Committed(money[t]) = SumOver(Backing(available, locked, t))
                 <=> money[t].owed =
                     Total([s \in Accounts |-> available[<<s, t>>] + locked[<<s, t>>]])
                         + Total(money[t].claimable)
  <2> DEFINE held == SumOver(Backing(available, locked, t))
             waiting == SumOver(money[t].claimable)
  <2>1. money[t].owed \in Nat /\ waiting \in Nat /\ held \in Nat
    BY <1>1
  <2>2. Committed(money[t]) = money[t].owed - waiting
    BY <1>2
  <2> HIDE DEF held, waiting
  <2>3. Committed(money[t]) = held <=> money[t].owed = held + waiting
    BY <2>1, <2>2
  <2> QED
    BY <1>3, <2>3 DEF held, waiting
<1> QED
  BY <1>4 DEF PoolLedger, OwedIsExact

LEMMA PoolLedgerStep == TypeOK /\ PoolLedger /\ [Next]_vars => PoolLedger'
<1> SUFFICES ASSUME TypeOK, PoolLedger, [Next]_vars, NEW t \in Tokens
             PROVE  Committed(money'[t]) = SumOver(Backing(available', locked', t))
  BY DEF PoolLedger
<1>1. TypeOK' /\ Booked
  BY StepSafe DEF Safe
<1>2. Committed(money[t]) = SumOver(Backing(available, locked, t))
  BY DEF PoolLedger
<1>3. CASE PoolIdle
  BY <1>2, <1>3 DEF PoolIdle, CommitmentsKept
<1>4. ASSUME NEW s \in Accounts, NEW u \in Tokens, PoolBooked(<<s, u>>)
      PROVE  Committed(money'[t]) = SumOver(Backing(available', locked', t))
  <2> DEFINE before == Backing(available, locked, t)
             after == Backing(available', locked', t)
             slot == <<s, u>>
  <2>1. before \in [Accounts -> Nat] /\ after \in [Accounts -> Nat]
    BY <1>1, BackingType DEF TypeOK
  <2>2. /\ \A other \in Accounts \X Tokens : other # slot =>
              available'[other] = available[other] /\ locked'[other] = locked[other]
        /\ Committed(money'[t]) = Committed(money[t]) + IF t = u THEN Gain(slot) ELSE 0
    BY <1>4 DEF PoolBooked, Commits
  <2>3. SumOver(before) \in Nat
    BY <2>1, BaseAssumption, SumType
  <2>4. CASE t # u
    <3>1. \A a \in Accounts : <<a, t>> \in Accounts \X Tokens /\ <<a, t>> # slot
      BY <2>4
    <3>2. after = before
      BY <2>2, <3>1 DEF Backing
    <3> HIDE DEF before, after
    <3> QED
      BY <1>2, <2>2, <2>3, <2>4, <3>2 DEF before, after
  <2>5. CASE t = u
    <3>1. \A a \in Accounts : a # s =>
              <<a, t>> \in Accounts \X Tokens /\ <<a, t>> # slot
      BY <2>5
    <3>2. \A a \in Accounts : a # s => after[a] = before[a]
      BY <2>2, <3>1 DEF Backing
    <3>3. after[s] - before[s] = Gain(slot)
      BY <2>5 DEF Backing, Gain
    <3>4. before \in [Accounts -> Int] /\ after \in [Accounts -> Int]
      BY <2>1
    <3>5. before[s] \in Int /\ after[s] \in Int
      BY <3>4
    <3> HIDE DEF before, after
    <3>6. SumOver(after) = SumOver(before) + after[s] - before[s]
      BY <3>2, <3>4, BaseAssumption, SumChange
    <3>7. Committed(money'[t]) = SumOver(before) + (after[s] - before[s])
      BY <1>2, <2>2, <2>5, <3>3 DEF before
    <3> QED
      BY <2>3, <3>5, <3>6, <3>7 DEF after
  <2> QED
    BY <2>4, <2>5
<1> QED
  BY <1>1, <1>3, <1>4 DEF Booked

LEMMA PoolLedgerAlways == Spec => []PoolLedger
<1>1. Init => PoolLedger
  <2> SUFFICES ASSUME Init, NEW t \in Tokens
               PROVE  Committed(money[t]) = SumOver(Backing(available, locked, t))
    BY DEF PoolLedger
  <2>1. Backing(available, locked, t) \in [Accounts -> {0}]
    BY DEF Init, Backing
  <2> QED
    BY <2>1, BaseAssumption, SumZero, NothingCommitted DEF Init
<1> QED
  BY <1>1, PoolLedgerStep, TypeCorrect, PTL DEF Spec

\* owed is exactly the pools, the locked amounts and the payouts that wait to be
\* claimed: whichever way a trade ends, its amount moves between them or leaves
\* the escrow, and never does both.
THEOREM OwedAlwaysExact == Spec => []OwedIsExact
<1>1. TypeOK /\ PoolLedger => OwedIsExact
  BY PoolLedgerIsOwed
<1> QED
  BY <1>1, PoolLedgerAlways, TypeCorrect, PTL

-----------------------------------------------------------------------------
(* The trade's record: what each step may do to it, and what follows. *)

\* The four ways a step writes a trade's record.
Created(k, r) ==
    /\ trades[k] = NoTrade /\ r \in Trade /\ r.status = "Pending" /\ r.autoReleaseAt = 0
    /\ r.funding = "DepositedByTaker" => r.autoReleaseWindow = 0 /\ r.voucher = NoVoucher
Marked(k, r) ==
    /\ trades[k].status = "Pending"
    /\ \E clock \in Nat :
          /\ clock = trades[k].autoReleaseAt \/ trades[k].autoReleaseWindow # 0
          /\ r = [trades[k] EXCEPT !.status = "Paid", !.autoReleaseAt = clock]
Contested(k, r) ==
    /\ trades[k].status = "Paid"
    /\ r = [trades[k] EXCEPT !.status = "Disputed", !.disputedAt = now]

\* Who may end a trade, how, and when.
MayEnd(t, by, status, paidOut) ==
    \/ status = "Released" /\ paidOut /\ t.status \in {"Pending", "Paid"} /\ MayRelease(by, t)
    \/ status = "Released" /\ paidOut /\ t.status = "Paid" /\ AutoReleaseDue(t)
    \/ status = "Cancelled" /\ ~paidOut /\ t.status = "Pending" /\ now >= t.expiresAt
    \/ status = "Resolved" /\ t.status = "Disputed" /\ by \in Resolvers
    \/ /\ status = "Resolved" /\ ~paidOut /\ t.status = "Disputed"
       /\ now > t.disputedAt + DISPUTE_BACKSTOP
EndedBy(k, r) ==
    \E by \in Accounts, status \in FinalStates, paidOut \in BOOLEAN :
        /\ MayEnd(trades[k], by, status, paidOut)
        /\ r = [trades[k] EXCEPT !.status = status, !.endedBy = by, !.paidOut = paidOut]

Written(k, r) == Created(k, r) \/ Marked(k, r) \/ Contested(k, r) \/ EndedBy(k, r)

LEMMA EndWrites ==
    ASSUME TypeOK, NEW k \in Keys, NEW by \in Accounts, NEW status \in FinalStates,
           NEW paidOut \in BOOLEAN, MayEnd(trades[k], by, status, paidOut),
           End(by, k, status, paidOut)
    PROVE  \E r : trades' = [trades EXCEPT ![k] = r] /\ Written(k, r)
<1> DEFINE r == [trades[k] EXCEPT !.status = status, !.endedBy = by,
                                  !.paidOut = paidOut]
<1>1. trades' = [trades EXCEPT ![k] = r]
  BY DEF End, TypeOK
<1>2. EndedBy(k, r)
  BY DEF EndedBy
<1> HIDE DEF r
<1> QED
  BY <1>1, <1>2 DEF Written

LEMMA OpenWrites ==
    ASSUME TypeOK, NEW k \in Keys, NEW seller \in Accounts, NEW buyer \in Accounts,
           NEW token \in Tokens, NEW amount \in Amounts,
           NEW funding \in {"PooledFromMaker", "DepositedByTaker"},
           NEW voucher \in Vouchers \cup {NoVoucher},
           NEW named \in Accounts \cup {NoOne},
           funding = "DepositedByTaker" => voucher = NoVoucher,
           NewTrade(k, token, amount),
           Stored(k, seller, buyer, token, amount, funding, voucher, named)
    PROVE  \E r : trades' = [trades EXCEPT ![k] = r] /\ Written(k, r)
<1> DEFINE window == WindowFor(funding, seller)
           r == [status |-> "Pending", seller |-> seller, buyer |-> buyer,
                 amount |-> amount, token |-> token, funding |-> funding,
                 expiresAt |-> now + PAYMENT_WINDOW, autoReleaseAt |-> 0,
                 disputedAt |-> 0, feeBps |-> FeeBps(token),
                 autoReleaseWindow |-> window, voucher |-> voucher,
                 tradeReleaser |-> named, endedBy |-> NoOne, paidOut |-> FALSE]
<1>1. trades' = [trades EXCEPT ![k] = r] /\ trades[k] = NoTrade
  BY DEF Stored, NewTrade
<1>2. funding = "DepositedByTaker" => window = 0
  BY DEF WindowFor
<1>3. /\ r.status = "Pending" /\ r.autoReleaseAt = 0
      /\ r.funding = "DepositedByTaker" =>
            r.autoReleaseWindow = 0 /\ r.voucher = NoVoucher
  BY <1>2
<1> HIDE DEF r
<1>4. trades' \in [Keys -> Trade \cup {NoTrade}]
  BY StoredType
<1>5. r # NoTrade
  BY <1>3 DEF NoTrade
<1>6. r \in Trade
  BY <1>1, <1>4, <1>5 DEF TypeOK
<1> QED
  BY <1>1, <1>3, <1>6 DEF Created, Written

\* A trade's call writes one trade's record, in one of the four ways.
LEMMA TradeWrites ==
    ASSUME TypeOK, TradeNext
    PROVE  \E k \in Keys : \E r : trades' = [trades EXCEPT ![k] = r] /\ Written(k, r)
<1> DEFINE Goal(k) == \E r : trades' = [trades EXCEPT ![k] = r] /\ Written(k, r)
<1> Callers \subseteq Accounts
  BY BaseAssumption
<1>1. ASSUME NEW by \in Accounts, NEW k \in Keys, Release(by, k) PROVE Goal(k)
  BY <1>1, EndWrites DEF Release, MayEnd, FinalStates
<1>2. ASSUME NEW by \in Accounts, NEW k \in Keys, FinalizeRelease(by, k) PROVE Goal(k)
  BY <1>2, EndWrites DEF FinalizeRelease, MayEnd, FinalStates
<1>3. ASSUME NEW by \in Accounts, NEW k \in Keys, CancelByTimeout(by, k) PROVE Goal(k)
  BY <1>3, EndWrites DEF CancelByTimeout, MayEnd, FinalStates
<1>4. ASSUME NEW by \in Accounts, NEW k \in Keys, ClaimDisputeBackstop(by, k)
      PROVE  Goal(k)
  BY <1>4, EndWrites DEF ClaimDisputeBackstop, MayEnd, FinalStates
<1>5. ASSUME NEW by \in Accounts, NEW k \in Keys, NEW releaseToBuyer \in BOOLEAN,
             AdminResolve(by, k, releaseToBuyer)
      PROVE  Goal(k)
  BY <1>5, EndWrites DEF AdminResolve, MayEnd, FinalStates
<1>6. ASSUME NEW by \in Accounts, NEW k \in Keys, MarkPaid(by, k) PROVE Goal(k)
  <2> DEFINE clock == IF trades[k].autoReleaseWindow # 0
                      THEN now + trades[k].autoReleaseWindow
                      ELSE trades[k].autoReleaseAt
             r == [trades[k] EXCEPT !.status = "Paid", !.autoReleaseAt = clock]
  <2>1. trades[k] \in Trade /\ now \in Nat /\ trades[k].status = "Pending"
    BY <1>6 DEF MarkPaid, NoTrade, TypeOK, BaseTypeOK
  <2>2. /\ clock \in Nat
        /\ clock = trades[k].autoReleaseAt \/ trades[k].autoReleaseWindow # 0
    BY <2>1 DEF Trade
  <2>3. trades' = [trades EXCEPT ![k] = r]
    BY <1>6 DEF MarkPaid, TypeOK
  <2> HIDE DEF clock
  <2>4. Marked(k, r)
    BY <2>1, <2>2 DEF Marked
  <2> HIDE DEF r
  <2> QED
    BY <2>3, <2>4 DEF Written
<1>7. ASSUME NEW by \in Accounts, NEW k \in Keys, RaiseDispute(by, k) PROVE Goal(k)
  <2> DEFINE r == [trades[k] EXCEPT !.status = "Disputed", !.disputedAt = now]
  <2>1. trades' = [trades EXCEPT ![k] = r]
    BY <1>7 DEF RaiseDispute, TypeOK
  <2>2. Contested(k, r)
    BY <1>7 DEF RaiseDispute, Contested
  <2> HIDE DEF r
  <2> QED
    BY <2>1, <2>2 DEF Written
<1> QED
  BY <1>1, <1>2, <1>3, <1>4, <1>5, <1>6, <1>7 DEF TradeNext

LEMMA OpenNextWrites ==
    ASSUME TypeOK, OpenNext
    PROVE  \E k \in Keys : \E r : trades' = [trades EXCEPT ![k] = r] /\ Written(k, r)
<1>1. ASSUME NEW buyer \in Buyers, NEW id \in TradeIds, NEW v \in Vouchers,
             NEW amount \in Amounts, OpenTrade(buyer, id, v, amount)
      PROVE  \E k \in Keys : \E r : trades' = [trades EXCEPT ![k] = r] /\ Written(k, r)
  <2>1. /\ <<buyer, id>> \in Keys /\ buyer \in Accounts /\ v.seller \in Accounts
        /\ v.token \in Tokens
    BY P2PAssumption DEF Keys, Voucher
  <2> QED
    BY <1>1, <2>1, OpenWrites DEF OpenTrade
<1>2. ASSUME NEW user \in Users, NEW id \in TradeIds, NEW token \in Tokens,
             NEW amount \in Amounts, NEW merchant \in Merchants, NEW named \in Delegates,
             OpenTradeWithDeposit(user, id, token, amount, merchant, named)
      PROVE  \E k \in Keys : \E r : trades' = [trades EXCEPT ![k] = r] /\ Written(k, r)
  <2>1. /\ <<user, id>> \in Keys /\ user \in Accounts /\ merchant \in Accounts
        /\ named \in Accounts \cup {NoOne}
    BY P2PAssumption DEF Keys
  <2> QED
    BY <1>2, <2>1, OpenWrites DEF OpenTradeWithDeposit
<1> QED
  BY <1>1, <1>2 DEF OpenNext

\* A step writes one trade's record or leaves all of them.
LEMMA TradesStep ==
    ASSUME TypeOK, [Next]_vars
    PROVE  \/ \E k \in Keys : \E r : trades' = [trades EXCEPT ![k] = r] /\ Written(k, r)
           \/ trades' = trades
<1>1. CASE PoolNext
  BY <1>1 DEF PoolNext, Deposit, Withdraw, SetReleaser, SetAutoReleaseWindow,
              CancelVoucher
<1> QED
  BY <1>1, TradeWrites, OpenNextWrites DEF Next, p2pVars, vars

\* The invariant behind the promises about the clock: it runs only where the
\* seller had chosen a window before the trade, and never on a buy-ad, which no
\* voucher was signed for.
Armed(t) ==
    /\ t.funding = "DepositedByTaker" => t.autoReleaseWindow = 0 /\ t.voucher = NoVoucher
    /\ t.autoReleaseWindow = 0 => t.autoReleaseAt = 0
AllArmed == \A k \in Keys : trades[k] # NoTrade => Armed(trades[k])

\* A record that is written over belongs to an open trade, and keeps its terms.
LEMMA Rewritten ==
    ASSUME TypeOK, NEW k \in Keys, NEW r,
           Marked(k, r) \/ Contested(k, r) \/ EndedBy(k, r)
    PROVE  /\ trades[k] # NoTrade /\ trades[k] \in Trade /\ Open(k) /\ ~Ended(k)
           /\ r # NoTrade /\ Terms(r) = Terms(trades[k])
<1>1. trades[k].status \in {"Pending", "Paid", "Disputed"}
  BY DEF Marked, Contested, EndedBy, MayEnd
<1>2. trades[k] # NoTrade /\ Open(k) /\ ~Ended(k)
  BY <1>1 DEF NoTrade, Open, Ended, OpenStates, FinalStates
<1>3. trades[k] \in Trade
  BY <1>2 DEF TypeOK
<1>4. r.status \in OpenStates \cup FinalStates
  BY <1>3 DEF Marked, Contested, EndedBy, Trade, OpenStates
<1>5. r # NoTrade
  BY <1>4 DEF NoTrade, OpenStates, FinalStates
<1>6. Terms(r) = Terms(trades[k])
  <2>1. CASE Marked(k, r)
    BY <1>3, <2>1 DEF Marked, Trade, Terms
  <2>2. CASE Contested(k, r)
    BY <1>3, <2>2 DEF Contested, Trade, Terms
  <2>3. CASE EndedBy(k, r)
    BY <1>3, <2>3 DEF EndedBy, Trade, Terms
  <2> QED
    BY <2>1, <2>2, <2>3
<1> QED
  BY <1>2, <1>3, <1>5, <1>6

LEMMA WrittenArmed ==
    ASSUME TypeOK, AllArmed, NEW k \in Keys, NEW r, Written(k, r)
    PROVE  Armed(r)
<1>1. CASE Created(k, r)
  BY <1>1 DEF Created, Armed
<1>2. CASE Marked(k, r)
  <2>1. trades[k] \in Trade /\ Armed(trades[k])
    BY <1>2, Rewritten DEF AllArmed
  <2>2. PICK clock \in Nat :
            /\ clock = trades[k].autoReleaseAt \/ trades[k].autoReleaseWindow # 0
            /\ r = [trades[k] EXCEPT !.status = "Paid", !.autoReleaseAt = clock]
    BY <1>2 DEF Marked
  <2>3. /\ r.funding = trades[k].funding /\ r.autoReleaseAt = clock
        /\ r.voucher = trades[k].voucher
        /\ r.autoReleaseWindow = trades[k].autoReleaseWindow
    BY <2>1, <2>2 DEF Trade
  <2> QED
    BY <2>1, <2>2, <2>3 DEF Armed
<1>3. CASE Contested(k, r) \/ EndedBy(k, r)
  <2>1. trades[k] \in Trade /\ Armed(trades[k])
    BY <1>3, Rewritten DEF AllArmed
  <2>2. /\ r.funding = trades[k].funding /\ r.autoReleaseAt = trades[k].autoReleaseAt
        /\ r.voucher = trades[k].voucher
        /\ r.autoReleaseWindow = trades[k].autoReleaseWindow
    BY <1>3, <2>1 DEF Contested, EndedBy, Trade
  <2> QED
    BY <2>1, <2>2 DEF Armed
<1> QED
  BY <1>1, <1>2, <1>3 DEF Written

LEMMA ArmedAlways == Spec => []AllArmed
<1>1. Init => AllArmed
  BY DEF Init, AllArmed
<1>2. TypeOK /\ AllArmed /\ [Next]_vars => AllArmed'
  <2> SUFFICES ASSUME TypeOK, AllArmed, [Next]_vars, NEW k \in Keys,
                      trades'[k] # NoTrade
               PROVE  Armed(trades'[k])
    BY DEF AllArmed, Armed
  <2>1. CASE trades'[k] = trades[k]
    BY <2>1 DEF AllArmed
  <2>2. ASSUME NEW r, trades' = [trades EXCEPT ![k] = r], Written(k, r)
        PROVE  Armed(trades'[k])
    BY <2>2, WrittenArmed DEF TypeOK
  <2> QED
    BY <2>1, <2>2, TradesStep DEF TypeOK
<1> QED
  BY <1>1, <1>2, TypeCorrect, PTL DEF Spec

\* A merchant's buy-ad never takes a user's crypto by the clock, whatever
\* windows the merchant or the user choose, before or after.
THEOREM BuyAdsNeverArmed == Spec => []BuyAdsAreNeverArmed
<1>1. AllArmed => BuyAdsAreNeverArmed
  BY DEF AllArmed, Armed, BuyAdsAreNeverArmed
<1> QED
  BY <1>1, ArmedAlways, PTL

\* A trade's terms are fixed when it opens and all of its record when it ends.
THEOREM TermsAreKept == Spec => NothingIsReopened
<1>1. TypeOK /\ [Next]_vars => [\A k \in Keys : TermsKept(k)]_vars
  <2> SUFFICES ASSUME TypeOK, [Next]_vars, NEW k \in Keys PROVE TermsKept(k)
    OBVIOUS
  <2>1. CASE trades'[k] = trades[k]
    BY <2>1 DEF TermsKept
  <2>2. ASSUME NEW r, trades' = [trades EXCEPT ![k] = r], Written(k, r)
        PROVE  TermsKept(k)
    <3>1. trades'[k] = r
      BY <2>2 DEF TypeOK
    <3>2. CASE Created(k, r)
      BY <3>1, <3>2 DEF Created, TermsKept, Ended, FinalStates, NoTrade
    <3>3. CASE Marked(k, r) \/ Contested(k, r) \/ EndedBy(k, r)
      BY <3>1, <3>3, Rewritten DEF TermsKept
    <3> QED
      BY <2>2, <3>2, <3>3 DEF Written
  <2> QED
    BY <2>1, <2>2, TradesStep DEF TypeOK
<1> QED
  BY <1>1, TypeCorrect, PTL DEF Spec, NothingIsReopened

\* A trade's crypto goes to the buyer only by the seller's hand, somebody the
\* seller named, the clock the seller chose before the trade, or a resolver's
\* ruling, and back only unpaid in time or after a dispute.
THEOREM EndsJustified == Spec => EndsAreJustified
<1>1. TypeOK /\ AllArmed /\ [Next]_vars => [EndStep]_vars
  <2> SUFFICES ASSUME TypeOK, AllArmed, [Next]_vars, NEW k \in Keys,
                      Open(k), Ended(k)'
               PROVE  IF trades'[k].paidOut THEN PayoutJustified(trades[k], trades'[k])
                                            ELSE ReturnJustified(trades[k], trades'[k])
    BY DEF EndStep
  <2>1. trades'[k] # trades[k]
    BY DEF Open, Ended, OpenStates, FinalStates
  <2>2. PICK r : trades' = [trades EXCEPT ![k] = r] /\ Written(k, r)
    BY <2>1, TradesStep DEF TypeOK
  <2>3. trades'[k] = r /\ r.status \in FinalStates
    BY <2>2 DEF TypeOK, Ended
  <2>4. trades[k] # NoTrade /\ trades[k] \in Trade /\ Armed(trades[k])
    BY DEF Open, OpenStates, NoTrade, TypeOK, AllArmed
  <2>5. EndedBy(k, r)
    <3>1. ~Created(k, r)
      BY <2>4 DEF Created
    <3>2. ~Marked(k, r) /\ ~Contested(k, r)
      BY <2>3, <2>4 DEF Marked, Contested, Trade, FinalStates
    <3> QED
      BY <2>2, <3>1, <3>2 DEF Written
  <2>6. PICK by \in Accounts, status \in FinalStates, paidOut \in BOOLEAN :
            /\ MayEnd(trades[k], by, status, paidOut)
            /\ r = [trades[k] EXCEPT !.status = status, !.endedBy = by,
                                     !.paidOut = paidOut]
    BY <2>5 DEF EndedBy
  <2>7. r.endedBy = by /\ r.paidOut = paidOut
    BY <2>4, <2>6 DEF Trade
  <2>8. /\ now \in Nat /\ trades[k].expiresAt \in Nat /\ trades[k].autoReleaseAt \in Nat
        /\ trades[k].disputedAt \in Nat /\ DISPUTE_BACKSTOP \in Nat
        /\ trades[k].funding \in {"PooledFromMaker", "DepositedByTaker"}
    BY <2>4, P2PAssumption DEF TypeOK, BaseTypeOK, Trade
  <2>9. CASE paidOut
    <3>1. PayoutJustified(trades[k], r)
      BY <2>4, <2>6, <2>7, <2>8, <2>9
      DEF MayEnd, MayRelease, AutoReleaseDue, PayoutJustified, Armed
    <3> QED
      BY <2>3, <2>7, <2>9, <3>1
  <2>10. CASE ~paidOut
    <3>1. ReturnJustified(trades[k], r)
      BY <2>6, <2>7, <2>8, <2>10 DEF MayEnd, ReturnJustified
    <3> QED
      BY <2>3, <2>7, <2>10, <3>1
  <2> QED
    BY <2>9, <2>10
<1> QED
  BY <1>1, ArmedAlways, TypeCorrect, PTL DEF Spec, EndsAreJustified

-----------------------------------------------------------------------------
(* The trades' books: what is locked for a seller, and sold of an ad, is what *)
(* the trades say.                                                            *)

LockedBy(t, slot) ==
    IF t.status \in OpenStates /\ <<t.seller, t.token>> = slot THEN t.amount ELSE 0
FilledBy(t, v) ==
    IF /\ t # NoTrade /\ t.voucher = v
       /\ t.status \in OpenStates \/ t.paidOut
    THEN t.amount ELSE 0

\* The step that writes a trade books its change; one that adds to a voucher
\* stays within it.
TradeBooked(k) ==
    /\ \A j \in Keys : j # k => trades'[j] = trades[j]
    /\ \A slot \in Accounts \X Tokens : locked'[slot] =
          locked[slot] + LockedBy(trades'[k], slot) - LockedBy(trades[k], slot)
    /\ \A v \in Vouchers :
          /\ voucherFilled'[v] =
                voucherFilled[v] + FilledBy(trades'[k], v) - FilledBy(trades[k], v)
          /\ voucherFilled'[v] <= voucherFilled[v] \/ voucherFilled'[v] <= v.maxAmount
TradesIdle ==
    trades' = trades /\ locked' = locked /\ voucherFilled' = voucherFilled

\* A record that keeps its amount, its slot and its voucher keeps its books.
LEMMA SameBooks ==
    ASSUME NEW t \in Trade, NEW r \in Trade,
           t.status \in OpenStates, r.status \in OpenStates,
           r.amount = t.amount, r.seller = t.seller, r.token = t.token,
           r.voucher = t.voucher
    PROVE  /\ \A slot \in Accounts \X Tokens : LockedBy(r, slot) = LockedBy(t, slot)
           /\ \A v \in Vouchers : FilledBy(r, v) = FilledBy(t, v)
<1>1. t # NoTrade /\ r # NoTrade
  BY DEF NoTrade, OpenStates
<1> QED
  BY <1>1 DEF LockedBy, FilledBy

LEMMA PhaseBooked ==
    ASSUME TypeOK, TypeOK', NEW k \in Keys, NEW by \in Accounts,
           MarkPaid(by, k) \/ RaiseDispute(by, k)
    PROVE  TradeBooked(k)
<1> DEFINE t == trades[k]
           r == trades'[k]
<1>1. t \in Trade /\ t.status \in OpenStates
  BY DEF MarkPaid, RaiseDispute, NoTrade, OpenStates, TypeOK
<1>2. /\ r.status \in OpenStates /\ r.amount = t.amount /\ r.seller = t.seller
      /\ r.token = t.token /\ r.voucher = t.voucher
  <2>1. CASE MarkPaid(by, k)
    BY <1>1, <2>1 DEF MarkPaid, OpenStates, Trade, TypeOK
  <2>2. CASE RaiseDispute(by, k)
    BY <1>1, <2>2 DEF RaiseDispute, OpenStates, Trade, TypeOK
  <2> QED
    BY <2>1, <2>2
<1>3. r \in Trade
  BY <1>2 DEF TypeOK, NoTrade, OpenStates
<1>4. /\ \A j \in Keys : j # k => trades'[j] = trades[j]
      /\ locked' = locked /\ voucherFilled' = voucherFilled
  BY DEF MarkPaid, RaiseDispute, TypeOK, pool, vouchers
<1>5. /\ \A slot \in Accounts \X Tokens : LockedBy(r, slot) = LockedBy(t, slot)
      /\ \A v \in Vouchers : FilledBy(r, v) = FilledBy(t, v)
  BY <1>1, <1>2, <1>3, SameBooks
<1>6. /\ \A slot \in Accounts \X Tokens :
            locked[slot] \in Nat /\ LockedBy(t, slot) \in Nat
      /\ \A v \in Vouchers : voucherFilled[v] \in Nat /\ FilledBy(t, v) \in Nat
  BY <1>1 DEF TypeOK, LockedBy, FilledBy, Trade
<1> HIDE DEF t, r
<1>7. \A slot \in Accounts \X Tokens :
          locked'[slot] = locked[slot] + LockedBy(r, slot) - LockedBy(t, slot)
  BY <1>4, <1>5, <1>6
<1>8. \A v \in Vouchers :
          /\ voucherFilled'[v] = voucherFilled[v] + FilledBy(r, v) - FilledBy(t, v)
          /\ voucherFilled'[v] <= voucherFilled[v]
  BY <1>4, <1>5, <1>6
<1> QED
  BY <1>4, <1>7, <1>8 DEF TradeBooked, t, r

LEMMA EndBooked ==
    ASSUME TypeOK, AllArmed, NEW k \in Keys, NEW by \in Accounts,
           NEW status \in FinalStates, NEW paidOut \in BOOLEAN, Open(k),
           End(by, k, status, paidOut),
           \/ paidOut /\ PayOut(trades[k])
           \/ ~paidOut /\ ReturnToSeller(trades[k])
    PROVE  TradeBooked(k)
<1> DEFINE t == trades[k]
           r == [trades[k] EXCEPT !.status = status, !.endedBy = by, !.paidOut = paidOut]
           own == <<t.seller, t.token>>
<1>1. t # NoTrade /\ t \in Trade /\ t.status \in OpenStates /\ Armed(t)
  BY DEF Open, NoTrade, OpenStates, TypeOK, AllArmed
<1>2. t.amount \in Nat /\ own \in Accounts \X Tokens
  BY <1>1, OpenedTrade
<1>3. trades' = [trades EXCEPT ![k] = r]
  BY DEF End, TypeOK
<1>4. /\ r.status = status /\ r.paidOut = paidOut /\ r.amount = t.amount
      /\ r.voucher = t.voucher /\ status \notin OpenStates
  BY <1>1 DEF Trade, FinalStates, OpenStates
<1>5. r # NoTrade
  BY <1>4 DEF NoTrade, FinalStates
<1>6. \A slot \in Accounts \X Tokens :
          LockedBy(r, slot) = 0 /\ LockedBy(t, slot) = IF slot = own THEN t.amount ELSE 0
  BY <1>1, <1>4 DEF LockedBy
<1>7. \A v \in Vouchers :
          /\ FilledBy(t, v) = IF t.voucher = v THEN t.amount ELSE 0
          /\ FilledBy(r, v) = IF t.voucher = v /\ paidOut THEN t.amount ELSE 0
  BY <1>1, <1>4, <1>5 DEF FilledBy
<1> HIDE DEF r
<1>8. trades'[k] = r /\ \A j \in Keys : j # k => trades'[j] = trades[j]
  BY <1>3 DEF TypeOK
<1>9. \A slot \in Accounts \X Tokens : locked'[slot] =
          locked[slot] + LockedBy(r, slot) - LockedBy(t, slot)
  <2>1. /\ \A other \in Accounts \X Tokens : other # own => locked'[other] = locked[other]
        /\ locked'[own] = locked[own] - t.amount
    BY <1>1, UnlockBooked DEF PayOut, ReturnToSeller
  <2>2. \A slot \in Accounts \X Tokens : locked[slot] \in Nat
    BY DEF TypeOK
  <2> HIDE DEF own, t
  <2> QED
    BY <1>2, <1>6, <2>1, <2>2
<1>10. \A v \in Vouchers :
          /\ voucherFilled'[v] = voucherFilled[v] + FilledBy(r, v) - FilledBy(t, v)
          /\ voucherFilled'[v] <= voucherFilled[v]
  <2> SUFFICES ASSUME NEW v \in Vouchers
               PROVE  /\ voucherFilled'[v] =
                            voucherFilled[v] + FilledBy(r, v) - FilledBy(t, v)
                      /\ voucherFilled'[v] <= voucherFilled[v]
    OBVIOUS
  <2>0. voucherFilled[v] \in Nat /\ v # NoVoucher
    BY P2PAssumption DEF TypeOK
  <2>1. CASE paidOut
    <3>1. voucherFilled' = voucherFilled
      BY <2>1 DEF PayOut
    <3> QED
      BY <1>2, <1>7, <2>0, <2>1, <3>1
  <2>2. CASE ~paidOut /\ ReturnToPool(t)
    <3>1. voucherFilled'[v] = IF v = t.voucher THEN voucherFilled[v] - t.amount
                                                ELSE voucherFilled[v]
      BY <2>2 DEF ReturnToPool
    <3>2. FilledBy(t, v) = (IF t.voucher = v THEN t.amount ELSE 0) /\ FilledBy(r, v) = 0
      BY <1>7, <2>2
    <3> HIDE DEF t
    <3> QED
      BY <1>2, <2>0, <3>1, <3>2
  <2>3. CASE ~paidOut /\ ReturnDeposit(t)
    <3>1. voucherFilled' = voucherFilled /\ t.voucher = NoVoucher
      BY <1>1, <2>3 DEF ReturnDeposit, Armed
    <3>2. FilledBy(t, v) = 0 /\ FilledBy(r, v) = 0
      BY <1>7, <2>0, <3>1
    <3> HIDE DEF t
    <3> QED
      BY <2>0, <3>1, <3>2
  <2> QED
    BY <2>1, <2>2, <2>3 DEF ReturnToSeller
<1> HIDE DEF t
<1> QED
  BY <1>8, <1>9, <1>10 DEF TradeBooked, t

\* A trade's opening locks its amount in its seller's slot, and fills its voucher.
LEMMA OpenBooked ==
    ASSUME TypeOK, NEW k \in Keys, NEW seller \in Accounts, NEW buyer \in Accounts,
           NEW token \in Tokens, NEW amount \in Amounts, NEW funding,
           NEW voucher \in Vouchers \cup {NoVoucher}, NEW named,
           NewTrade(k, token, amount),
           Stored(k, seller, buyer, token, amount, funding, voucher, named),
           locked' = [locked EXCEPT ![<<seller, token>>] =
                         locked[<<seller, token>>] + amount],
           \A v \in Vouchers :
              /\ voucherFilled'[v] = voucherFilled[v] + IF v = voucher THEN amount ELSE 0
              /\ v = voucher => voucherFilled'[v] <= v.maxAmount
    PROVE  TradeBooked(k)
<1> DEFINE own == <<seller, token>>
           r == [status |-> "Pending", seller |-> seller, buyer |-> buyer,
                 amount |-> amount, token |-> token, funding |-> funding,
                 expiresAt |-> now + PAYMENT_WINDOW, autoReleaseAt |-> 0,
                 disputedAt |-> 0, feeBps |-> FeeBps(token),
                 autoReleaseWindow |-> WindowFor(funding, seller),
                 voucher |-> voucher, tradeReleaser |-> named,
                 endedBy |-> NoOne, paidOut |-> FALSE]
<1>1. trades' = [trades EXCEPT ![k] = r] /\ trades[k] = NoTrade
  BY DEF Stored, NewTrade
<1>2. amount \in Nat /\ own \in Accounts \X Tokens
  BY P2PAssumption
<1>3. /\ r.status = "Pending" /\ r.seller = seller /\ r.token = token
      /\ r.amount = amount /\ r.voucher = voucher
  OBVIOUS
<1> HIDE DEF r
<1>4. r # NoTrade
  BY <1>3 DEF NoTrade
<1>5. \A slot \in Accounts \X Tokens :
          /\ LockedBy(r, slot) = IF slot = own THEN amount ELSE 0
          /\ LockedBy(trades[k], slot) = 0
  BY <1>1, <1>3 DEF LockedBy, OpenStates, NoTrade
<1>6. \A v \in Vouchers :
          /\ FilledBy(r, v) = IF v = voucher THEN amount ELSE 0
          /\ FilledBy(trades[k], v) = 0
  BY <1>1, <1>3, <1>4 DEF FilledBy, OpenStates
<1>7. trades'[k] = r /\ \A j \in Keys : j # k => trades'[j] = trades[j]
  BY <1>1 DEF TypeOK
<1>8. \A slot \in Accounts \X Tokens :
          /\ locked[slot] \in Nat
          /\ locked'[slot] = locked[slot] + IF slot = own THEN amount ELSE 0
  <2>1. locked' = [locked EXCEPT ![own] = locked[own] + amount]
    OBVIOUS
  <2>2. locked \in [Accounts \X Tokens -> Nat]
    BY DEF TypeOK
  <2> HIDE DEF own
  <2> QED
    BY <1>2, <2>1, <2>2
<1>9. \A v \in Vouchers : voucherFilled[v] \in Nat
  BY DEF TypeOK
<1> HIDE DEF own
<1> QED
  BY <1>2, <1>5, <1>6, <1>7, <1>8, <1>9 DEF TradeBooked

LEMMA StepBooked ==
    ASSUME TypeOK, AllArmed, [Next]_vars
    PROVE  TradesIdle \/ \E k \in Keys : TradeBooked(k)
<1> DEFINE Goal == TradesIdle \/ \E k \in Keys : TradeBooked(k)
<1> Callers \subseteq Accounts
  BY BaseAssumption
<1>0. TypeOK'
  BY StepSafe DEF Safe
<1>1. ASSUME NEW by \in Accounts, NEW k \in Keys, MarkPaid(by, k) \/ RaiseDispute(by, k)
      PROVE  Goal
  BY <1>0, <1>1, PhaseBooked
<1>2. ASSUME NEW by \in Accounts, NEW k \in Keys, Release(by, k) \/ FinalizeRelease(by, k)
      PROVE  Goal
  <2>1. Open(k) /\ End(by, k, "Released", TRUE) /\ PayOut(trades[k])
    BY <1>2 DEF Release, FinalizeRelease, Open, OpenStates
  <2> QED
    BY <2>1, EndBooked DEF FinalStates
<1>3. ASSUME NEW by \in Accounts, NEW k \in Keys,
             CancelByTimeout(by, k) \/ ClaimDisputeBackstop(by, k)
      PROVE  Goal
  <2>1. PICK status \in FinalStates :
            Open(k) /\ End(by, k, status, FALSE) /\ ReturnToSeller(trades[k])
    BY <1>3 DEF CancelByTimeout, ClaimDisputeBackstop, Open, OpenStates, FinalStates
  <2> QED
    BY <2>1, EndBooked
<1>4. ASSUME NEW by \in Accounts, NEW k \in Keys, NEW releaseToBuyer \in BOOLEAN,
             AdminResolve(by, k, releaseToBuyer)
      PROVE  Goal
  <2>1. /\ Open(k) /\ End(by, k, "Resolved", releaseToBuyer)
        /\ \/ releaseToBuyer /\ PayOut(trades[k])
           \/ ~releaseToBuyer /\ ReturnToSeller(trades[k])
    BY <1>4 DEF AdminResolve, Open, OpenStates
  <2>2. "Resolved" \in FinalStates
    BY DEF FinalStates
  <2>3. TradeBooked(k)
    BY <2>1, <2>2, EndBooked
  <2> QED
    BY <2>3
<1>5. ASSUME NEW buyer \in Buyers, NEW id \in TradeIds, NEW v \in Vouchers,
             NEW amount \in Amounts, OpenTrade(buyer, id, v, amount)
      PROVE  Goal
  <2>1. /\ <<buyer, id>> \in Keys /\ buyer \in Accounts /\ v.seller \in Accounts
        /\ v.token \in Tokens /\ amount \in Nat
    BY P2PAssumption DEF Keys, Voucher
  <2>2. /\ voucherFilled' = [voucherFilled EXCEPT ![v] = voucherFilled[v] + amount]
        /\ voucherFilled[v] + amount <= v.maxAmount
    BY <1>5 DEF OpenTrade, VoucherOpen
  <2>3. \A w \in Vouchers :
            /\ voucherFilled'[w] = voucherFilled[w] + IF w = v THEN amount ELSE 0
            /\ w = v => voucherFilled'[w] <= w.maxAmount
    BY <2>1, <2>2 DEF TypeOK
  <2>4. locked' = [locked EXCEPT ![<<v.seller, v.token>>] =
                      locked[<<v.seller, v.token>>] + amount]
    BY <1>5 DEF OpenTrade
  <2>5. /\ NewTrade(<<buyer, id>>, v.token, amount)
        /\ Stored(<<buyer, id>>, v.seller, buyer, v.token, amount, "PooledFromMaker",
                  v, NoOne)
    BY <1>5 DEF OpenTrade
  <2>6. TradeBooked(<<buyer, id>>)
    BY <2>1, <2>3, <2>4, <2>5, OpenBooked
  <2> QED
    BY <2>1, <2>6
<1>6. ASSUME NEW user \in Users, NEW id \in TradeIds, NEW token \in Tokens,
             NEW amount \in Amounts, NEW merchant \in Merchants, NEW named \in Delegates,
             OpenTradeWithDeposit(user, id, token, amount, merchant, named)
      PROVE  Goal
  <2>1. <<user, id>> \in Keys /\ user \in Accounts /\ merchant \in Accounts
    BY P2PAssumption DEF Keys
  <2>2. \A w \in Vouchers :
            /\ voucherFilled'[w] = voucherFilled[w] + IF w = NoVoucher THEN amount ELSE 0
            /\ w = NoVoucher => voucherFilled'[w] <= w.maxAmount
    BY <1>6, P2PAssumption DEF OpenTradeWithDeposit, vouchers, TypeOK
  <2>3. locked' = [locked EXCEPT ![<<user, token>>] = locked[<<user, token>>] + amount]
    BY <1>6 DEF OpenTradeWithDeposit
  <2>4. /\ NewTrade(<<user, id>>, token, amount)
        /\ Stored(<<user, id>>, user, merchant, token, amount, "DepositedByTaker",
                  NoVoucher, named)
    BY <1>6 DEF OpenTradeWithDeposit
  <2>5. TradeBooked(<<user, id>>)
    BY <2>1, <2>2, <2>3, <2>4, OpenBooked
  <2> QED
    BY <2>1, <2>5
<1>7. PoolNext => Goal
  BY DEF PoolNext, Deposit, Withdraw, SetReleaser, SetAutoReleaseWindow, CancelVoucher,
         TradesIdle, pool, vouchers
<1>8. UNCHANGED p2pVars => Goal
  BY DEF p2pVars, TradesIdle
<1> HIDE DEF Goal
<1>9. TradeNext => Goal
  BY <1>1, <1>2, <1>3, <1>4 DEF TradeNext
<1>10. OpenNext => Goal
  BY <1>5, <1>6 DEF OpenNext
<1>11. Goal
  BY <1>7, <1>8, <1>9, <1>10 DEF Next, vars
<1> QED
  BY <1>11 DEF Goal

\* The two ledgers of the trades.
LockedIn(book, slot) == [k \in Keys |-> LockedBy(book[k], slot)]
FilledIn(book, v) == [k \in Keys |-> FilledBy(book[k], v)]
TradeLedger ==
    /\ \A slot \in Accounts \X Tokens : locked[slot] = SumOver(LockedIn(trades, slot))
    /\ \A v \in Vouchers : /\ voucherFilled[v] <= v.maxAmount
                           /\ voucherFilled[v] = SumOver(FilledIn(trades, v))

LEMMA KeysFinite == IsFiniteSet(Keys)
<1>1. IsFiniteSet(Buyers \cup Users)
  BY P2PAssumption, BaseAssumption, FS_Subset
<1> QED
  BY <1>1, P2PAssumption, FS_Product DEF Keys

LEMMA LedgerType ==
    ASSUME NEW book \in [Keys -> Trade \cup {NoTrade}]
    PROVE  /\ \A slot : LockedIn(book, slot) \in [Keys -> Nat]
           /\ \A v : FilledIn(book, v) \in [Keys -> Nat]
<1>1. ASSUME NEW k \in Keys, NEW x
      PROVE  LockedBy(book[k], x) \in Nat /\ FilledBy(book[k], x) \in Nat
  <2>1. CASE book[k] = NoTrade
    BY <2>1 DEF LockedBy, FilledBy, NoTrade, OpenStates
  <2>2. CASE book[k] \in Trade
    <3>1. book[k].amount \in Nat
      BY <2>2, P2PAssumption DEF Trade
    <3> QED
      BY <3>1 DEF LockedBy, FilledBy
  <2> QED
    BY <2>1, <2>2
<1> QED
  BY <1>1 DEF LockedIn, FilledIn

LEMMA TradeLedgerStep ==
    TypeOK /\ AllArmed /\ TradeLedger /\ [Next]_vars => TradeLedger'
<1> SUFFICES ASSUME TypeOK, AllArmed, TradeLedger, [Next]_vars
             PROVE  /\ \A slot \in Accounts \X Tokens :
                          locked'[slot] = SumOver(LockedIn(trades', slot))
                    /\ \A v \in Vouchers :
                          /\ voucherFilled'[v] <= v.maxAmount
                          /\ voucherFilled'[v] = SumOver(FilledIn(trades', v))
  BY DEF TradeLedger
<1>1. TypeOK' /\ (TradesIdle \/ \E k \in Keys : TradeBooked(k))
  BY StepSafe, StepBooked DEF Safe
<1>2. CASE TradesIdle
  BY <1>2 DEF TradesIdle, TradeLedger
<1>3. ASSUME NEW k \in Keys, TradeBooked(k), NEW slot \in Accounts \X Tokens
      PROVE  locked'[slot] = SumOver(LockedIn(trades', slot))
  <2> DEFINE before == LockedIn(trades, slot)
             after == LockedIn(trades', slot)
  <2>1. before \in [Keys -> Nat] /\ after \in [Keys -> Nat]
    BY <1>1, LedgerType DEF TypeOK
  <2>2. /\ \A j \in Keys : j # k => after[j] = before[j]
        /\ locked'[slot] = locked[slot] + after[k] - before[k]
    BY <1>3 DEF TradeBooked, LockedIn
  <2>3. locked[slot] = SumOver(before)
    BY DEF TradeLedger
  <2> HIDE DEF before, after
  <2>4. before \in [Keys -> Int] /\ after \in [Keys -> Int]
    BY <2>1
  <2>5. SumOver(after) = SumOver(before) + after[k] - before[k]
    BY <2>2, <2>4, KeysFinite, SumChange
  <2> QED
    BY <2>2, <2>3, <2>5 DEF after
<1>4. ASSUME NEW k \in Keys, TradeBooked(k), NEW v \in Vouchers
      PROVE  /\ voucherFilled'[v] <= v.maxAmount
             /\ voucherFilled'[v] = SumOver(FilledIn(trades', v))
  <2> DEFINE before == FilledIn(trades, v)
             after == FilledIn(trades', v)
  <2>1. before \in [Keys -> Nat] /\ after \in [Keys -> Nat]
    BY <1>1, LedgerType DEF TypeOK
  <2>2. /\ \A j \in Keys : j # k => after[j] = before[j]
        /\ voucherFilled'[v] = voucherFilled[v] + after[k] - before[k]
        /\ voucherFilled'[v] <= voucherFilled[v] \/ voucherFilled'[v] <= v.maxAmount
    BY <1>4 DEF TradeBooked, FilledIn
  <2>3. voucherFilled[v] = SumOver(before) /\ voucherFilled[v] <= v.maxAmount
    BY DEF TradeLedger
  <2> HIDE DEF before, after
  <2>4. before \in [Keys -> Int] /\ after \in [Keys -> Int]
    BY <2>1
  <2>5. SumOver(after) = SumOver(before) + after[k] - before[k]
    BY <2>2, <2>4, KeysFinite, SumChange
  <2>6. voucherFilled'[v] <= v.maxAmount
    <3>1. /\ voucherFilled[v] \in Nat /\ voucherFilled'[v] \in Nat
          /\ v.maxAmount \in Nat
      BY <1>1, P2PAssumption DEF TypeOK, Voucher
    <3> QED
      BY <2>2, <2>3, <3>1
  <2> QED
    BY <2>2, <2>3, <2>5, <2>6 DEF after
<1> QED
  BY <1>1, <1>2, <1>3, <1>4

LEMMA TradeLedgerAlways == Spec => []TradeLedger
<1>1. Init => TradeLedger
  <2> SUFFICES ASSUME Init PROVE TradeLedger
    OBVIOUS
  <2>1. ASSUME NEW slot \in Accounts \X Tokens
        PROVE  locked[slot] = SumOver(LockedIn(trades, slot))
    <3>1. LockedIn(trades, slot) \in [Keys -> {0}]
      BY DEF Init, LockedIn, LockedBy, NoTrade, OpenStates
    <3> QED
      BY <3>1, KeysFinite, SumZero DEF Init
  <2>2. ASSUME NEW v \in Vouchers
        PROVE  /\ voucherFilled[v] <= v.maxAmount
               /\ voucherFilled[v] = SumOver(FilledIn(trades, v))
    <3>1. FilledIn(trades, v) \in [Keys -> {0}]
      BY DEF Init, FilledIn, FilledBy
    <3>2. v.maxAmount \in Nat
      BY P2PAssumption DEF Voucher
    <3> QED
      BY <3>1, <3>2, KeysFinite, SumZero DEF Init
  <2> QED
    BY <2>1, <2>2 DEF TradeLedger
<1> QED
  BY <1>1, TradeLedgerStep, TypeCorrect, ArmedAlways, PTL DEF Spec

\* What is locked for a seller is exactly the seller's open trades: no ending
\* leaves crypto locked that no trade can free, and none frees another trade's.
THEOREM LockedAlwaysExact == Spec => []LockedIsExact
<1>1. TradeLedger => LockedIsExact
  <2> SUFFICES ASSUME TradeLedger, NEW s \in Accounts, NEW t \in Tokens
               PROVE  locked[<<s, t>>] =
                        Total([k \in Keys |->
                                 AmountOf(k, /\ Open(k) /\ trades[k].seller = s
                                            /\ trades[k].token = t)])
    BY DEF LockedIsExact
  <2>1. \A k \in Keys : LockedBy(trades[k], <<s, t>>) =
            AmountOf(k, Open(k) /\ trades[k].seller = s /\ trades[k].token = t)
    BY DEF LockedBy, AmountOf, Open, OpenStates, NoTrade
  <2>2. LockedIn(trades, <<s, t>>) =
            [k \in Keys |->
                AmountOf(k, Open(k) /\ trades[k].seller = s /\ trades[k].token = t)]
    BY <2>1 DEF LockedIn
  <2>3. locked[<<s, t>>] = SumOver(LockedIn(trades, <<s, t>>))
    BY DEF TradeLedger
  <2> QED
    BY <2>2, <2>3 DEF Total, SumOver
<1> QED
  BY <1>1, TradeLedgerAlways, PTL

\* An ad never sells more than it offers, and counts as sold exactly its trades
\* that did not come back to the pool, however often its capacity was filled and
\* given back.
THEOREM FilledAlwaysExact == Spec => []FilledIsExact
<1>1. TradeLedger => FilledIsExact
  <2> SUFFICES ASSUME TradeLedger, NEW v \in Vouchers
               PROVE  /\ voucherFilled[v] <= v.maxAmount
                      /\ voucherFilled[v] =
                            Total([k \in Keys |->
                                     AmountOf(k, /\ trades[k].voucher = v
                                                /\ (Open(k) \/ trades[k].paidOut))])
    BY DEF FilledIsExact
  <2>1. \A k \in Keys : FilledBy(trades[k], v) =
            AmountOf(k, trades[k].voucher = v /\ (Open(k) \/ trades[k].paidOut))
    BY DEF FilledBy, AmountOf, Open
  <2>2. FilledIn(trades, v) =
            [k \in Keys |->
                AmountOf(k, trades[k].voucher = v /\ (Open(k) \/ trades[k].paidOut))]
    BY <2>1 DEF FilledIn
  <2>3. /\ voucherFilled[v] <= v.maxAmount
        /\ voucherFilled[v] = SumOver(FilledIn(trades, v))
    BY DEF TradeLedger
  <2> QED
    BY <2>2, <2>3 DEF Total, SumOver
<1> QED
  BY <1>1, TradeLedgerAlways, PTL

-----------------------------------------------------------------------------
(* What an ending pays.  Money enters the pool, or a trade, only by a pull   *)
(* that proves its token skims nothing, so what leaves arrives in full.      *)

\* A slot that holds anything is in such a token.
PoolWhole == \A slot \in Accounts \X Tokens :
    available[slot] # 0 \/ locked[slot] # 0 => Skim[slot[2]] = 0
SlotTouched(slot) ==
    /\ Skim[slot[2]] = 0
    /\ \A other \in Accounts \X Tokens : other # slot =>
          available'[other] = available[other] /\ locked'[other] = locked[other]
SlotsIdle == available' = available /\ locked' = locked
OneSlot == SlotsIdle \/ \E slot \in Accounts \X Tokens : SlotTouched(slot)

\* An amount that can be unlocked is locked in such a token.
LEMMA UnlockedWhole ==
    ASSUME TypeOK, PoolWhole, NEW k \in Keys, trades[k] # NoTrade, CanUnlock(trades[k])
    PROVE  Skim[trades[k].token] = 0
<1> DEFINE slot == <<trades[k].seller, trades[k].token>>
<1>1. slot \in Accounts \X Tokens /\ trades[k].amount \in Nat \ {0}
  BY OpenedTrade, P2PAssumption DEF Trade
<1>2. slot[2] = trades[k].token
  OBVIOUS
<1>3. locked[slot] # 0
  BY <1>1 DEF CanUnlock, TypeOK
<1> HIDE DEF slot
<1> QED
  BY <1>1, <1>2, <1>3 DEF PoolWhole

LEMMA SettleTouches ==
    ASSUME TypeOK, PoolWhole, NEW k \in Keys, trades[k] # NoTrade,
           PayOut(trades[k]) \/ ReturnToSeller(trades[k])
    PROVE  OneSlot
<1> DEFINE slot == <<trades[k].seller, trades[k].token>>
<1>1. slot \in Accounts \X Tokens /\ slot[2] = trades[k].token
  BY OpenedTrade
<1>2. Skim[trades[k].token] = 0
  BY UnlockedWhole DEF PayOut, ReturnToSeller
<1>3. locked' = [locked EXCEPT ![slot] = locked[slot] - trades[k].amount]
  BY DEF PayOut, ReturnToSeller, Unlock
<1>4. \/ available' = available
      \/ available' = [available EXCEPT ![slot] = available[slot] + trades[k].amount]
  BY DEF PayOut, ReturnToSeller, ReturnToPool, ReturnDeposit
<1> HIDE DEF slot
<1>5. SlotTouched(slot)
  BY <1>1, <1>2, <1>3, <1>4 DEF SlotTouched, TypeOK
<1> QED
  BY <1>1, <1>5 DEF OneSlot

LEMMA EndingTouches ==
    ASSUME TypeOK, PoolWhole, TradeNext
    PROVE  OneSlot
<1> Callers \subseteq Accounts
  BY BaseAssumption
<1>1. ASSUME NEW by \in Accounts, NEW k \in Keys, MarkPaid(by, k) \/ RaiseDispute(by, k)
      PROVE  OneSlot
  BY <1>1 DEF MarkPaid, RaiseDispute, pool, OneSlot, SlotsIdle
<1>2. ASSUME NEW by \in Accounts, NEW k \in Keys,
             \/ Release(by, k) \/ FinalizeRelease(by, k)
             \/ CancelByTimeout(by, k) \/ ClaimDisputeBackstop(by, k)
             \/ \E releaseToBuyer \in BOOLEAN : AdminResolve(by, k, releaseToBuyer)
      PROVE  OneSlot
  <2>1. trades[k].status \in OpenStates
    BY <1>2 DEF Release, FinalizeRelease, CancelByTimeout, ClaimDisputeBackstop,
                AdminResolve, OpenStates
  <2>2. trades[k] # NoTrade
    BY <2>1 DEF NoTrade, OpenStates
  <2>3. PayOut(trades[k]) \/ ReturnToSeller(trades[k])
    BY <1>2 DEF Release, FinalizeRelease, CancelByTimeout, ClaimDisputeBackstop,
                AdminResolve
  <2> QED
    BY <2>2, <2>3, SettleTouches
<1> QED
  BY <1>1, <1>2 DEF TradeNext

LEMMA OpeningTouches ==
    ASSUME TypeOK, PoolWhole, OpenNext
    PROVE  OneSlot
<1>1. ASSUME NEW buyer \in Buyers, NEW id \in TradeIds, NEW v \in Vouchers,
             NEW amount \in Amounts, OpenTrade(buyer, id, v, amount)
      PROVE  OneSlot
  <2> DEFINE slot == <<v.seller, v.token>>
  <2>1. slot \in Accounts \X Tokens
    BY P2PAssumption DEF Voucher
  <2>2. /\ available' = [available EXCEPT ![slot] = available[slot] - amount]
        /\ locked' = [locked EXCEPT ![slot] = locked[slot] + amount]
        /\ amount \in 1 .. MaxUint96 /\ amount <= available[slot]
    BY <1>1 DEF OpenTrade, NewTrade
  <2> HIDE DEF slot
  <2>3. Skim[slot[2]] = 0
    BY <2>1, <2>2, P2PAssumption DEF PoolWhole, TypeOK
  <2>4. SlotTouched(slot)
    BY <2>1, <2>2, <2>3 DEF SlotTouched, TypeOK
  <2> QED
    BY <2>1, <2>4 DEF OneSlot
<1>2. ASSUME NEW user \in Users, NEW id \in TradeIds, NEW token \in Tokens,
             NEW amount \in Amounts, NEW merchant \in Merchants, NEW named \in Delegates,
             OpenTradeWithDeposit(user, id, token, amount, merchant, named)
      PROVE  OneSlot
  <2> DEFINE slot == <<user, token>>
  <2>1. slot \in Accounts \X Tokens /\ slot[2] = token
    BY P2PAssumption
  <2>2. /\ available' = available
        /\ locked' = [locked EXCEPT ![slot] = locked[slot] + amount]
        /\ amount \in 1 .. MaxUint96
        /\ CanPull(token, AddOwed(money[token], amount), user, amount)
    BY <1>2 DEF OpenTradeWithDeposit, NewTrade
  <2> HIDE DEF slot
  <2>3. amount \in Nat \ {0}
    BY <2>2, P2PAssumption
  <2>4. Skim[token] = 0
    BY <2>2, <2>3, PulledWhole
  <2>5. SlotTouched(slot)
    BY <2>1, <2>2, <2>4 DEF SlotTouched, TypeOK
  <2> QED
    BY <2>1, <2>5 DEF OneSlot
<1> QED
  BY <1>1, <1>2 DEF OpenNext

LEMMA PoolTouches ==
    ASSUME TypeOK, PoolWhole, PoolNext
    PROVE  OneSlot
<1>1. ASSUME NEW by \in Sellers, NEW token \in Tokens, NEW amount \in Amounts,
             Deposit(by, token, amount) \/ Withdraw(by, token, amount)
      PROVE  OneSlot
  <2> DEFINE slot == <<by, token>>
  <2>1. slot \in Accounts \X Tokens /\ slot[2] = token /\ amount \in Nat
    BY P2PAssumption
  <2>2. /\ locked' = locked /\ amount # 0
        /\ \/ /\ available' = [available EXCEPT ![slot] = available[slot] + amount]
              /\ CanPull(token, AddOwed(money[token], amount), by, amount)
           \/ /\ available' = [available EXCEPT ![slot] = available[slot] - amount]
              /\ amount <= available[slot]
    BY <1>1 DEF Deposit, Withdraw
  <2> HIDE DEF slot
  <2>3. Skim[token] = 0
    <3>1. CASE CanPull(token, AddOwed(money[token], amount), by, amount)
      BY <2>1, <2>2, <3>1, PulledWhole
    <3>2. CASE amount <= available[slot]
      BY <2>1, <2>2, <3>2 DEF PoolWhole, TypeOK
    <3> QED
      BY <2>2, <3>1, <3>2
  <2>4. SlotTouched(slot)
    BY <2>1, <2>2, <2>3 DEF SlotTouched, TypeOK
  <2> QED
    BY <2>1, <2>4 DEF OneSlot
<1>2. ASSUME NEW by \in Sellers,
             \/ \E delegate \in Delegates : SetReleaser(by, delegate)
             \/ \E window \in WindowChoices : SetAutoReleaseWindow(by, window)
             \/ \E v \in Vouchers : CancelVoucher(by, v)
      PROVE  OneSlot
  BY <1>2
  DEF SetReleaser, SetAutoReleaseWindow, CancelVoucher, pool, OneSlot, SlotsIdle
<1> QED
  BY <1>1, <1>2 DEF PoolNext

LEMMA WholeAlways == Spec => []PoolWhole
<1>1. Init => PoolWhole
  BY DEF Init, PoolWhole
<1>2. TypeOK /\ PoolWhole /\ [Next]_vars => PoolWhole'
  <2> SUFFICES ASSUME TypeOK, PoolWhole, [Next]_vars PROVE PoolWhole'
    OBVIOUS
  <2>1. UNCHANGED p2pVars => OneSlot
    BY DEF p2pVars, pool, OneSlot, SlotsIdle
  <2>2. OneSlot
    BY <2>1, PoolTouches, OpeningTouches, EndingTouches DEF Next, vars
  <2>3. CASE SlotsIdle
    BY <2>3 DEF SlotsIdle, PoolWhole
  <2>4. ASSUME NEW slot \in Accounts \X Tokens, SlotTouched(slot) PROVE PoolWhole'
    BY <2>4 DEF SlotTouched, PoolWhole
  <2> QED
    BY <2>2, <2>3, <2>4 DEF OneSlot
<1> QED
  BY <1>1, <1>2, TypeCorrect, PTL DEF Spec

\* What every ending has in common.
LEMMA EndRecord ==
    ASSUME TypeOK, NEW k \in Keys, NEW by \in Accounts, NEW status \in FinalStates,
           NEW paidOut \in BOOLEAN, trades[k] # NoTrade, End(by, k, status, paidOut)
    PROVE  trades'[k].token = trades[k].token /\ trades'[k].paidOut = paidOut
<1>1. trades[k] \in Trade
  BY DEF TypeOK
<1>2. trades'[k] = [trades[k] EXCEPT !.status = status, !.endedBy = by,
                                     !.paidOut = paidOut]
  BY DEF End, TypeOK
<1> QED
  BY <1>1, <1>2 DEF Trade

\* An account's money in one token, before and after a step.
LEMMA WealthIsHeld ==
    ASSUME NEW k \in Keys, NEW a \in Accounts, trades'[k].token = trades[k].token
    PROVE  /\ Wealth(trades[k].token, a) =
                 Held(money[trades[k].token], a) + available[<<a, trades[k].token>>]
           /\ Wealth(trades[k].token, a)' =
                 Held(money'[trades[k].token], a) + available'[<<a, trades[k].token>>]
  BY DEF Wealth, Held

LEMMA PayOutSettles ==
    ASSUME TypeOK, PoolWhole, NEW k \in Keys, trades[k] # NoTrade, PayOut(trades[k]),
           trades'[k].token = trades[k].token, trades'[k].paidOut
    PROVE  SettlesAsPromised(k)
<1> DEFINE t == trades[k]
           token == t.token
           fee == Fee(t)
           share == t.amount - fee
           freed == SubOwed(money[token], t.amount)
           buyer == Push(token, freed, t.buyer, share)
           paid == Push(token, buyer, feeRecipient, fee)
<1>1. /\ t \in Trade /\ t.amount \in Nat /\ token \in Tokens
      /\ t.buyer \in Holders /\ feeRecipient \in Holders /\ money[token] \in Money
  BY OpenedTrade
<1>2. fee \in Nat /\ share \in Nat
  BY <1>1, FeeWithinAmount
<1>3. Skim[token] = 0
  BY UnlockedWhole DEF PayOut
<1>4. freed \in Money
  BY <1>1, SubOwedSurplus DEF PayOut
<1>5. money'[token] = paid /\ available' = available
  BY <1>1 DEF PayOut, TypeOK, BaseTypeOK
<1> HIDE DEF fee, share
<1>6. buyer \in Money
  BY <1>1, <1>2, <1>4, PushSurplus
<1>7. ASSUME NEW a \in Accounts
      PROVE  Wealth(token, a)' = Wealth(token, a) + (Part(a, t.buyer, share)
                                                     + Part(a, feeRecipient, fee))
  <2>1. Held(freed, a) = Held(money[token], a) /\ Held(money[token], a) \in Nat
    BY <1>1, SubOwedHeld, HeldType
  <2>2. Held(buyer, a) = Held(freed, a) + IF a = t.buyer THEN share ELSE 0
    BY <1>1, <1>2, <1>3, <1>4, PushHeld
  <2>3. Held(paid, a) = Held(buyer, a) + IF a = feeRecipient THEN fee ELSE 0
    BY <1>1, <1>2, <1>3, <1>6, PushHeld
  <2>4. available[<<a, token>>] \in Nat
    BY <1>1 DEF TypeOK
  <2>5. /\ Wealth(token, a) = Held(money[token], a) + available[<<a, token>>]
        /\ Wealth(token, a)' = Held(paid, a) + available[<<a, token>>]
    BY <1>5, WealthIsHeld
  <2>6. Held(paid, a) = Held(money[token], a) + (Part(a, t.buyer, share)
                                                 + Part(a, feeRecipient, fee))
    <3> HIDE DEF freed, buyer, paid, token
    <3> QED
      BY <1>2, <2>1, <2>2, <2>3 DEF Part
  <2>7. Part(a, t.buyer, share) + Part(a, feeRecipient, fee) \in Nat
    BY <1>2 DEF Part
  <2> HIDE DEF freed, buyer, paid, token
  <2> QED
    BY <2>1, <2>4, <2>5, <2>6, <2>7
<1> QED
  BY <1>7 DEF SettlesAsPromised, fee, share, Fee

LEMMA ReturnSettles ==
    ASSUME TypeOK, PoolWhole, NEW k \in Keys, trades[k] # NoTrade,
           ReturnToSeller(trades[k]),
           trades'[k].token = trades[k].token, ~trades'[k].paidOut
    PROVE  SettlesAsPromised(k)
<1> DEFINE t == trades[k]
           token == t.token
           slot == <<t.seller, token>>
<1>1. /\ t \in Trade /\ t.amount \in Nat /\ token \in Tokens
      /\ t.seller \in Holders /\ money[token] \in Money
      /\ slot \in Accounts \X Tokens
  BY OpenedTrade
<1>2. Skim[token] = 0
  BY UnlockedWhole DEF ReturnToSeller
<1>3. ASSUME NEW a \in Accounts
      PROVE  Wealth(token, a)' = Wealth(token, a) + Part(a, t.seller, t.amount)
  <2>1. Held(money[token], a) \in Nat /\ available[<<a, token>>] \in Nat
    BY <1>1, HeldType DEF TypeOK
  <2>2. /\ Wealth(token, a) = Held(money[token], a) + available[<<a, token>>]
        /\ Wealth(token, a)' = Held(money'[token], a) + available'[<<a, token>>]
    BY WealthIsHeld
  <2>3. CASE ReturnToPool(t)
    <3>1. available'[<<a, token>>] =
              available[<<a, token>>] + Part(a, t.seller, t.amount)
      <4>1. available' = [available EXCEPT ![slot] = available[slot] + t.amount]
        BY <2>3 DEF ReturnToPool
      <4>2. CASE a = t.seller
        BY <1>1, <4>1, <4>2 DEF Part, TypeOK
      <4>3. CASE a # t.seller
        <5>1. <<a, token>> # slot
          BY <4>3
        <5>2. <<a, token>> \in Accounts \X Tokens
          BY <1>1
        <5> HIDE DEF slot
        <5>3. available'[<<a, token>>] = available[<<a, token>>]
          BY <4>1, <5>1, <5>2 DEF TypeOK
        <5> QED
          BY <2>1, <4>3, <5>3 DEF Part
      <4> QED
        BY <4>2, <4>3
    <3>2. money' = money
      BY <2>3 DEF ReturnToPool
    <3>3. Part(a, t.seller, t.amount) \in Nat
      BY <1>1 DEF Part
    <3> HIDE DEF token
    <3> QED
      BY <2>1, <2>2, <3>1, <3>2, <3>3
  <2>4. CASE ReturnDeposit(t)
    <3> DEFINE freed == SubOwed(money[token], t.amount)
               paid == Push(token, freed, t.seller, t.amount)
    <3>1. freed \in Money /\ Held(freed, a) = Held(money[token], a)
      BY <1>1, <2>4, SubOwedSurplus, SubOwedHeld DEF ReturnDeposit
    <3>2. Held(paid, a) = Held(freed, a) + IF a = t.seller THEN t.amount ELSE 0
      BY <1>1, <1>2, <3>1, PushHeld
    <3>3. money'[token] = paid /\ available' = available
      BY <1>1, <2>4 DEF ReturnDeposit, TypeOK, BaseTypeOK
    <3>4. Part(a, t.seller, t.amount) \in Nat
      BY <1>1 DEF Part
    <3> HIDE DEF freed, paid, token
    <3>5. Held(paid, a) = Held(money[token], a) + Part(a, t.seller, t.amount)
      BY <3>1, <3>2 DEF Part
    <3> QED
      BY <2>1, <2>2, <3>3, <3>4, <3>5
  <2> QED
    BY <2>3, <2>4 DEF ReturnToSeller
<1> QED
  BY <1>3 DEF SettlesAsPromised

\* A step ends at most the trade it is about.
LEMMA OnlyEnding ==
    ASSUME TypeOK, PoolWhole, NEW k \in Keys, Open(k), trades'[k].status \in FinalStates,
           [Next]_vars
    PROVE  SettlesAsPromised(k)
<1>0. trades[k] # NoTrade /\ trades[k] \in Trade /\ trades[k].status \notin FinalStates
  <2>1. trades[k] # NoTrade /\ trades[k].status \notin FinalStates
    BY DEF Open, OpenStates, FinalStates, NoTrade
  <2> QED
    BY <2>1 DEF TypeOK
<1>1. trades'[k] # trades[k]
  BY <1>0
<1> Callers \subseteq Accounts
  BY BaseAssumption
<1>2. TradeNext \/ OpenNext
  <2>1. PoolNext => trades' = trades
    BY DEF PoolNext, Deposit, Withdraw, SetReleaser, SetAutoReleaseWindow, CancelVoucher
  <2>2. UNCHANGED p2pVars => trades' = trades
    BY DEF p2pVars
  <2> QED
    BY <1>1, <2>1, <2>2 DEF Next, vars
<1>3. ASSUME NEW by \in Accounts, NEW j \in Keys, NEW status \in FinalStates,
             NEW paidOut \in BOOLEAN, End(by, j, status, paidOut),
             \/ paidOut /\ PayOut(trades[j])
             \/ ~paidOut /\ ReturnToSeller(trades[j])
      PROVE  SettlesAsPromised(k)
  <2>1. j = k
    BY <1>1, <1>3 DEF End, TypeOK
  <2>2. trades'[k].token = trades[k].token /\ trades'[k].paidOut = paidOut
    BY <1>0, <1>3, <2>1, EndRecord
  <2>3. CASE paidOut /\ PayOut(trades[j])
    BY <1>0, <2>1, <2>2, <2>3, PayOutSettles
  <2>4. CASE ~paidOut /\ ReturnToSeller(trades[j])
    BY <1>0, <2>1, <2>2, <2>4, ReturnSettles
  <2> QED
    BY <1>3, <2>3, <2>4
<1>4. ASSUME NEW by \in Accounts, NEW j \in Keys,
             \/ Release(by, j) \/ FinalizeRelease(by, j)
             \/ CancelByTimeout(by, j) \/ ClaimDisputeBackstop(by, j)
             \/ \E releaseToBuyer \in BOOLEAN : AdminResolve(by, j, releaseToBuyer)
      PROVE  SettlesAsPromised(k)
  <2>1. PICK status \in FinalStates, paidOut \in BOOLEAN :
            /\ End(by, j, status, paidOut)
            /\ \/ paidOut /\ PayOut(trades[j])
               \/ ~paidOut /\ ReturnToSeller(trades[j])
    BY <1>4 DEF Release, FinalizeRelease, CancelByTimeout, ClaimDisputeBackstop,
                AdminResolve, FinalStates
  <2> QED
    BY <1>3, <2>1
<1>5. ASSUME NEW by \in Accounts, NEW j \in Keys, MarkPaid(by, j) \/ RaiseDispute(by, j)
      PROVE  FALSE
  <2>1. trades[j] \in Trade
    BY <1>5 DEF MarkPaid, RaiseDispute, NoTrade, TypeOK
  <2>2. trades'[j].status \in OpenStates
    BY <1>5, <2>1 DEF MarkPaid, RaiseDispute, TypeOK, Trade, OpenStates
  <2>3. j = k
    BY <1>1, <1>5 DEF MarkPaid, RaiseDispute, TypeOK
  <2> QED
    BY <2>2, <2>3 DEF OpenStates, FinalStates
<1>6. TradeNext => SettlesAsPromised(k)
  BY <1>4, <1>5 DEF TradeNext
<1>7. OpenNext => FALSE
  <2>1. ASSUME NEW buyer \in Buyers, NEW id \in TradeIds, NEW v \in Vouchers,
               NEW amount \in Amounts, OpenTrade(buyer, id, v, amount)
        PROVE  FALSE
    <3>1. <<buyer, id>> # k
      BY <1>0, <2>1 DEF OpenTrade, NewTrade
    <3> QED
      BY <1>1, <2>1, <3>1 DEF OpenTrade, Stored, TypeOK
  <2>2. ASSUME NEW user \in Users, NEW id \in TradeIds, NEW token \in Tokens,
               NEW amount \in Amounts, NEW merchant \in Merchants,
               NEW named \in Delegates,
               OpenTradeWithDeposit(user, id, token, amount, merchant, named)
        PROVE  FALSE
    <3>1. <<user, id>> # k
      BY <1>0, <2>2 DEF OpenTradeWithDeposit, NewTrade
    <3> QED
      BY <1>1, <2>2, <3>1 DEF OpenTradeWithDeposit, Stored, TypeOK
  <2> QED
    BY <2>1, <2>2 DEF OpenNext
<1> QED
  BY <1>2, <1>6, <1>7

\* Whatever ends a trade gives its whole amount, at the rates it opened with, to
\* the buyer and the fee recipient, or all of it back to the seller's side, and
\* leaves every other account as it was.
THEOREM SettlesInFull == Spec => SettlementPaysInFull
<1>1. TypeOK /\ PoolWhole /\ [Next]_vars => [SettlementStep]_vars
  BY OnlyEnding DEF SettlementStep, Ended
<1> QED
  BY <1>1, WholeAlways, TypeCorrect, PTL DEF Spec, SettlementPaysInFull

=============================================================================
