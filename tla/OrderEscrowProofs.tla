-------------------------- MODULE OrderEscrowProofs --------------------------
(***************************************************************************)
(* Theorems about OrderEscrow for every value of the constants.  TypeOK is *)
(* inductive, and under it every step does two things in every token: it   *)
(* keeps the surplus of the escrow's holdings over its obligations, or     *)
(* rescues all of it; and it commits to or releases from the owed counter  *)
(* exactly what the order it writes holds more or less than before.        *)
(* Solvency follows by induction from the first, the exactness of owed     *)
(* from the second.                                                        *)
(***************************************************************************)
EXTENDS OrderEscrow, EscrowBaseProofs

Safe == TypeOK' /\ \A t \in Tokens : SurplusStep(t)

\* What an order's record holds of a token, and the step that books its change
\* in the owed counter.
HeldBy(o, t) == IF o.state \in OpenStates /\ o.token = t THEN Gross(o) ELSE 0
Booked(k) ==
    /\ \A j \in Keys : j # k => orders'[j] = orders[j]
    /\ \A t \in Tokens : Committed(money'[t]) =
          Committed(money[t]) + HeldBy(orders'[k], t) - HeldBy(orders[k], t)

\* What is true of an order that is still open.
LEMMA OpenOrder ==
    ASSUME TypeOK, NEW k \in Keys, orders[k] # NoOrder
    PROVE  /\ orders[k] \in Order
           /\ Gross(orders[k]) \in Nat
           /\ money[orders[k].token] \in Money
           /\ Buyer(k) \in Holders
           /\ feeRecipient \in Holders
  BY OrderAssumption, BaseAssumption
  DEF TypeOK, BaseTypeOK, ConfigTypeOK, Order, Gross, Keys, Buyer, Holders

\* An order's record keeps its type when it ends.
LEMMA EndType ==
    ASSUME TypeOK, NEW k \in Keys, NEW by \in Accounts, NEW state \in FinalStates,
           orders[k] \in Order, End(by, k, state)
    PROVE  orders' \in [Keys -> Order \cup {NoOrder}]
<1> DEFINE ended == [orders[k] EXCEPT !.state = state, !.endedBy = by]
<1>1. ended \in Order
  BY DEF Order
<1>2. orders' = [orders EXCEPT ![k] = ended]
  BY DEF End, TypeOK
<1> HIDE DEF ended
<1> QED
  BY <1>1, <1>2 DEF TypeOK

\* An open order exists.
LEMMA OpenIsOrder == \A k \in Keys : Open(k) => orders[k] # NoOrder
  BY DEF Open, OpenStates, NoOrder

\* An ending that releases the order's amount is booked.
LEMMA EndBooked ==
    ASSUME TypeOK, NEW k \in Keys, NEW by \in Accounts, NEW state \in FinalStates,
           Open(k), End(by, k, state), NEW m,
           money' = [money EXCEPT ![orders[k].token] = m],
           Committed(m) = Committed(money[orders[k].token]) - Gross(orders[k])
    PROVE  Booked(k)
<1> DEFINE o == orders[k]
           t == o.token
           ended == [orders[k] EXCEPT !.state = state, !.endedBy = by]
<1>1. o \in Order /\ t \in Tokens /\ Gross(o) \in Nat /\ money \in [Tokens -> Money]
  BY OpenOrder, OpenIsOrder DEF Order, TypeOK, BaseTypeOK
<1>2. orders' = [orders EXCEPT ![k] = ended]
  BY DEF End, TypeOK
<1>3. ended.state = state /\ ended.token = t /\ state \notin OpenStates
  BY <1>1 DEF Order, FinalStates, OpenStates
<1>4. \A u \in Tokens : HeldBy(ended, u) = 0
  BY <1>3 DEF HeldBy
<1>5. \A u \in Tokens : HeldBy(o, u) = IF u = t THEN Gross(o) ELSE 0
  BY DEF HeldBy, Open
<1> HIDE DEF ended
<1>6. orders'[k] = ended /\ \A j \in Keys : j # k => orders'[j] = orders[j]
  BY <1>2 DEF TypeOK
<1>7. \A u \in Tokens : money'[u] = IF u = t THEN m ELSE money[u]
  BY <1>1
<1>8. \A u \in Tokens : Committed(money[u]) \in Int
  BY <1>1, CommittedType
<1> QED
  BY <1>1, <1>4, <1>5, <1>6, <1>7, <1>8 DEF Booked

\* The payouts of an ending come out of what the order held.
LEMMA ReleaseStep ==
    ASSUME TypeOK, NEW k \in Keys, NEW by \in Accounts, Open(k),
           Release(by, k), UNCHANGED <<now, configVars>>
    PROVE  Safe /\ Booked(k)
<1> DEFINE o == orders[k]
           t == o.token
           freed == SubOwed(money[t], Gross(o))
           seller == Push(t, freed, o.seller, Gross(o) - o.merchantFee)
           paid == Push(t, seller, feeRecipient, o.merchantFee)
<1>1. /\ o \in Order /\ t \in Tokens /\ o.seller \in Holders /\ Gross(o) \in Nat
      /\ o.merchantFee \in Nat /\ Gross(o) - o.merchantFee \in Nat
      /\ feeRecipient \in Holders /\ money[t] \in Money
  BY OpenOrder, OpenIsOrder, OrderAssumption DEF Order, Release
<1>2. freed \in Money /\ Surplus(freed) = Surplus(money[t]) + Gross(o)
  BY <1>1, SubOwedSurplus DEF Release
<1>3. /\ seller \in Money
      /\ Surplus(seller) >= Surplus(freed) - (Gross(o) - o.merchantFee)
  BY <1>1, <1>2, PushSurplus
<1>4. paid \in Money /\ Surplus(paid) >= Surplus(seller) - o.merchantFee
  BY <1>1, <1>3, PushSurplus
<1>5. money' = [money EXCEPT ![t] = paid]
  BY DEF Release
<1> HIDE DEF freed, seller, paid
<1>6. Surplus(paid) >= Surplus(money[t])
  BY <1>1, <1>2, <1>3, <1>4, SurplusType
<1>7. money' \in [Tokens -> Money] /\ \A u \in Tokens : SurplusStep(u)
  BY <1>1, <1>4, <1>5, <1>6, MoneyStep DEF TypeOK, BaseTypeOK
<1>8. orders' \in [Keys -> Order \cup {NoOrder}]
  BY <1>1, EndType DEF Release, FinalStates
<1>9. Committed(paid) = Committed(money[t]) - Gross(o)
  <2>1. Committed(freed) = Committed(money[t]) - Gross(o)
    BY <1>1, SubOwedCommitted DEF freed
  <2>2. Committed(seller) = Committed(freed)
    BY <1>1, <1>2, PushCommitted DEF seller
  <2>3. Committed(paid) = Committed(seller)
    BY <1>1, <1>3, PushCommitted DEF paid
  <2> QED
    BY <2>1, <2>2, <2>3
<1>10. Booked(k)
  BY <1>5, <1>9, EndBooked DEF Release, FinalStates
<1> QED
  BY <1>7, <1>8, <1>10 DEF Safe, TypeOK, BaseTypeOK, ConfigTypeOK, configVars, Release

LEMMA RefundStep ==
    ASSUME TypeOK, NEW k \in Keys, NEW by \in Accounts, Open(k),
           Refund(by, k), UNCHANGED <<now, configVars>>
    PROVE  Safe /\ Booked(k)
<1> DEFINE o == orders[k]
           t == o.token
           freed == SubOwed(money[t], Gross(o))
           paid == Push(t, freed, Buyer(k), Gross(o))
<1>1. /\ o \in Order /\ t \in Tokens /\ Gross(o) \in Nat
      /\ Buyer(k) \in Holders /\ money[t] \in Money
  BY OpenOrder, OpenIsOrder DEF Order
<1>2. freed \in Money /\ Surplus(freed) = Surplus(money[t]) + Gross(o)
  BY <1>1, SubOwedSurplus DEF Refund
<1>3. paid \in Money /\ Surplus(paid) >= Surplus(freed) - Gross(o)
  BY <1>1, <1>2, PushSurplus
<1>4. money' = [money EXCEPT ![t] = paid]
  BY DEF Refund
<1> HIDE DEF freed, paid
<1>5. Surplus(paid) >= Surplus(money[t])
  BY <1>1, <1>2, <1>3, SurplusType
<1>6. money' \in [Tokens -> Money] /\ \A u \in Tokens : SurplusStep(u)
  BY <1>1, <1>3, <1>4, <1>5, MoneyStep DEF TypeOK, BaseTypeOK
<1>7. orders' \in [Keys -> Order \cup {NoOrder}]
  BY <1>1, EndType DEF Refund, FinalStates
<1>8. Committed(paid) = Committed(money[t]) - Gross(o)
  <2>1. Committed(freed) = Committed(money[t]) - Gross(o)
    BY <1>1, SubOwedCommitted DEF freed
  <2>2. Committed(paid) = Committed(freed)
    BY <1>1, <1>2, PushCommitted DEF paid
  <2> QED
    BY <2>1, <2>2
<1>9. Booked(k)
  BY <1>4, <1>8, EndBooked DEF Refund, FinalStates
<1> QED
  BY <1>6, <1>7, <1>9 DEF Safe, TypeOK, BaseTypeOK, ConfigTypeOK, configVars, Refund

\* The pro rata fee is a natural number no larger than the merchant fee.
LEMMA SplitFee ==
    ASSUME NEW o \in Order, NEW toBuyer \in Nat, toBuyer <= Gross(o)
    PROVE  ResolvedFee(o, toBuyer) \in Nat
<1>1. /\ o.product \in Nat /\ o.product > 0 /\ o.shipping \in Nat
      /\ o.merchantFee \in Nat
  BY OrderAssumption DEF Order
<1>2. o.product - FromProduct(o, toBuyer) \in Nat
  BY <1>1 DEF FromProduct, Gross
<1>3. o.merchantFee * (o.product - FromProduct(o, toBuyer)) \in Nat
  BY <1>1, <1>2
<1> QED
  BY <1>1, <1>3 DEF ResolvedFee

LEMMA ResolveStep ==
    ASSUME TypeOK, NEW k \in Keys, NEW by \in Accounts, NEW toBuyer \in Splits,
           Resolve(by, k, toBuyer), UNCHANGED <<now, configVars>>
    PROVE  Safe /\ Booked(k)
<1> DEFINE o == orders[k]
           t == o.token
           fee == ResolvedFee(o, toBuyer)
           freed == SubOwed(money[t], Gross(o))
           buyer == Push(t, freed, Buyer(k), toBuyer)
           seller == Push(t, buyer, o.seller, Gross(o) - toBuyer - fee)
           paid == Push(t, seller, feeRecipient, fee)
<1>0. orders[k] # NoOrder
  BY DEF Resolve, NoOrder
<1>1. /\ o \in Order /\ t \in Tokens /\ o.seller \in Holders /\ Gross(o) \in Nat
      /\ toBuyer \in Nat /\ toBuyer <= Gross(o)
      /\ Buyer(k) \in Holders /\ feeRecipient \in Holders /\ money[t] \in Money
  BY <1>0, OpenOrder, OrderAssumption DEF Order, Resolve
<1>2. fee \in Nat /\ Gross(o) - toBuyer - fee \in Nat
  BY <1>1, SplitFee DEF Resolve, SplitPayable
<1>3. freed \in Money /\ Surplus(freed) = Surplus(money[t]) + Gross(o)
  BY <1>1, SubOwedSurplus DEF Resolve
<1>4. buyer \in Money /\ Surplus(buyer) >= Surplus(freed) - toBuyer
  BY <1>1, <1>3, PushSurplus
<1>5. /\ seller \in Money
      /\ Surplus(seller) >= Surplus(buyer) - (Gross(o) - toBuyer - fee)
  BY <1>1, <1>2, <1>4, PushSurplus
<1>6. paid \in Money /\ Surplus(paid) >= Surplus(seller) - fee
  BY <1>1, <1>2, <1>5, PushSurplus
<1>7. money' = [money EXCEPT ![t] = paid]
  BY DEF Resolve
<1> HIDE DEF freed, buyer, seller, paid, fee
<1>8. Surplus(paid) >= Surplus(money[t])
  BY <1>1, <1>2, <1>3, <1>4, <1>5, <1>6, SurplusType
<1>9. money' \in [Tokens -> Money] /\ \A u \in Tokens : SurplusStep(u)
  BY <1>1, <1>6, <1>7, <1>8, MoneyStep DEF TypeOK, BaseTypeOK
<1>10. orders' \in [Keys -> Order \cup {NoOrder}]
  BY <1>1, EndType DEF Resolve, FinalStates
<1>11. Committed(paid) = Committed(money[t]) - Gross(o)
  <2>1. Committed(freed) = Committed(money[t]) - Gross(o)
    BY <1>1, SubOwedCommitted DEF freed
  <2>2. Committed(buyer) = Committed(freed)
    BY <1>1, <1>3, PushCommitted DEF buyer
  <2>3. Committed(seller) = Committed(buyer)
    BY <1>1, <1>2, <1>4, PushCommitted DEF seller
  <2>4. Committed(paid) = Committed(seller)
    BY <1>1, <1>2, <1>5, PushCommitted DEF paid
  <2> QED
    BY <2>1, <2>2, <2>3, <2>4
<1>12. Booked(k)
  <2>1. Open(k)
    BY DEF Resolve, Open, OpenStates
  <2> QED
    BY <1>7, <1>11, <2>1, EndBooked DEF Resolve, FinalStates
<1> QED
  BY <1>9, <1>10, <1>12 DEF Safe, TypeOK, BaseTypeOK, ConfigTypeOK, configVars, Resolve

\* The buyer brings the order's amount and the flat fee; only the first is owed.
LEMMA CreateStep ==
    ASSUME TypeOK, NEW buyer \in Buyers, NEW id \in OrderIds, NEW s \in Sellers,
           NEW token \in Tokens, NEW product \in ProductAmounts,
           NEW shipping \in ShippingAmounts, NEW days \in HandlingChoices,
           NEW cap \in FlatCaps,
           CreateOrder(buyer, id, s, token, product, shipping, days, cap),
           UNCHANGED <<now, configVars>>
    PROVE  Safe /\ Booked(<<buyer, id>>)
<1> DEFINE k == <<buyer, id>>
           flat == OrderRate(token).flatFee
           fee == BpsOf(product, OrderRate(token).bps)
           gross == product + shipping
           reserved == AddOwed(money[token], gross)
           pulled == Pull(token, reserved, buyer, gross + flat)
           paid == Push(token, pulled, feeRecipient, flat)
           order == [state |-> "Funded", seller |-> s, token |-> token,
                     merchantFee |-> fee, product |-> product, shipping |-> shipping,
                     deliverBy |-> now + days * Day,
                     confirmBy |-> 0, resolveBy |-> 0, endedBy |-> NoOne]
<1>1. /\ buyer \in Accounts /\ s \in Holders /\ feeRecipient \in Holders
      /\ product \in Nat \ {0} /\ shipping \in Nat /\ days \in Nat
      /\ money[token] \in Money /\ now \in Nat /\ k \in Keys
  BY OrderAssumption
  DEF CreateOrder, TypeOK, BaseTypeOK, ConfigTypeOK, Holders, Keys
<1>2. OrderRate(token) \in Rate
  BY OrderAssumption DEF OrderRate, TypeOK, ConfigTypeOK
<1>3. flat \in Nat /\ OrderRate(token).bps \in Nat
  BY <1>2 DEF Rate
<1>4. fee \in 0 .. MaxUint96
  <2>1. fee \in Nat
    BY <1>1, <1>3 DEF BpsOf, BPS_DENOMINATOR
  <2>2. fee <= MaxUint96
    BY DEF CreateOrder, Priced
  <2> QED
    BY <2>1, <2>2, OrderAssumption
<1>5. order \in Order
  <2>1. now + days * Day \in Nat
    BY <1>1, OrderAssumption
  <2> HIDE DEF fee
  <2> QED
    BY <1>1, <1>4, <2>1 DEF Order, OpenStates
<1>6. reserved \in Money /\ Surplus(reserved) = Surplus(money[token]) - gross
  BY <1>1, AddOwedSurplus
<1>7. pulled \in Money /\ Surplus(pulled) = Surplus(reserved) + (gross + flat)
  BY <1>1, <1>3, <1>6, PullSurplus DEF CreateOrder
<1>8. paid \in Money /\ Surplus(paid) >= Surplus(pulled) - flat
  BY <1>1, <1>3, <1>7, PushSurplus
<1>9. money' = [money EXCEPT ![token] = paid]
  BY DEF CreateOrder
<1>10. orders' = [orders EXCEPT ![k] = order]
  BY DEF CreateOrder
<1> HIDE DEF order, reserved, pulled, paid, flat, fee
<1>11. Surplus(paid) >= Surplus(money[token])
  BY <1>1, <1>3, <1>6, <1>7, <1>8, SurplusType
<1>12. money' \in [Tokens -> Money] /\ \A u \in Tokens : SurplusStep(u)
  BY <1>8, <1>9, <1>11, MoneyStep DEF TypeOK, BaseTypeOK
<1>13. orders' \in [Keys -> Order \cup {NoOrder}]
  BY <1>1, <1>5, <1>10 DEF TypeOK
<1>14. Committed(paid) = Committed(money[token]) + gross
  <2>1. Committed(reserved) = Committed(money[token]) + gross
    BY <1>1, AddOwedCommitted DEF reserved
  <2>2. Committed(pulled) = Committed(reserved)
    BY <1>1, <1>3, <1>6, TransferredCommitted DEF pulled, Pull, Holders
  <2>3. Committed(paid) = Committed(pulled)
    BY <1>1, <1>3, <1>7, PushCommitted DEF paid
  <2> QED
    BY <2>1, <2>2, <2>3
<1>15. Booked(k)
  <2>1. orders'[k] = order /\ \A j \in Keys : j # k => orders'[j] = orders[j]
    BY <1>1, <1>10 DEF TypeOK
  <2>2. \A u \in Tokens : HeldBy(order, u) = IF u = token THEN gross ELSE 0
    BY DEF order, HeldBy, OpenStates, Gross
  <2>3. orders[k] = NoOrder
    BY DEF CreateOrder
  <2>4. \A u \in Tokens : HeldBy(orders[k], u) = 0
    BY <2>3 DEF NoOrder, HeldBy, OpenStates
  <2>5. \A u \in Tokens : money'[u] = IF u = token THEN paid ELSE money[u]
    BY <1>9 DEF TypeOK, BaseTypeOK
  <2>6. \A u \in Tokens : Committed(money[u]) \in Int
    BY CommittedType DEF TypeOK, BaseTypeOK
  <2> HIDE DEF k
  <2> QED
    BY <1>1, <1>14, <2>1, <2>2, <2>4, <2>5, <2>6 DEF Booked
<1> QED
  BY <1>12, <1>13, <1>15
  DEF Safe, TypeOK, BaseTypeOK, ConfigTypeOK, configVars, CreateOrder

\* Marking and disputing move no money.
LEMMA PhaseStep ==
    ASSUME TypeOK, NEW k \in Keys, NEW by \in Accounts,
           MarkDelivered(by, k) \/ Dispute(by, k), UNCHANGED <<now, configVars>>
    PROVE  Safe /\ Booked(k)
<1>1. orders[k] \in Order /\ now \in Nat
  BY DEF MarkDelivered, Dispute, NoOrder, TypeOK, BaseTypeOK
<1>2. ASSUME MarkDelivered(by, k) PROVE orders' \in [Keys -> Order \cup {NoOrder}]
  <2> DEFINE marked == [orders[k] EXCEPT !.state = "Delivered",
                                         !.confirmBy = now + CONFIRM_WINDOW]
  <2>0. now + CONFIRM_WINDOW \in Nat
    BY <1>1, OrderAssumption
  <2>1. marked \in Order
    BY <1>1, <2>0 DEF Order, OpenStates
  <2>2. orders' = [orders EXCEPT ![k] = marked]
    BY <1>2 DEF MarkDelivered, TypeOK
  <2> QED
    BY <2>1, <2>2 DEF TypeOK
<1>3. ASSUME Dispute(by, k) PROVE orders' \in [Keys -> Order \cup {NoOrder}]
  <2> DEFINE disputed == [orders[k] EXCEPT !.state = "Disputed",
                                           !.resolveBy = now + DISPUTE_BACKSTOP]
  <2>0. now + DISPUTE_BACKSTOP \in Nat
    BY <1>1, OrderAssumption
  <2>1. disputed \in Order
    BY <1>1, <2>0 DEF Order, OpenStates
  <2>2. orders' = [orders EXCEPT ![k] = disputed]
    BY <1>3 DEF Dispute, TypeOK
  <2> QED
    BY <2>1, <2>2 DEF TypeOK
<1>4. UNCHANGED <<money, paused>>
  BY DEF MarkDelivered, Dispute
<1>5. Booked(k)
  <2> DEFINE r == orders'[k]
  <2>1. /\ r.state \in OpenStates /\ r.token = orders[k].token
        /\ Gross(r) = Gross(orders[k])
    BY <1>1 DEF MarkDelivered, Dispute, OpenStates, Gross, Order, TypeOK
  <2>2. orders[k].state \in OpenStates /\ \A j \in Keys : j # k => orders'[j] = orders[j]
    BY DEF MarkDelivered, Dispute, OpenStates, TypeOK
  <2>3. \A u \in Tokens : HeldBy(r, u) = HeldBy(orders[k], u)
    BY <2>1, <2>2 DEF HeldBy
  <2>4. \A u \in Tokens : HeldBy(orders[k], u) \in Nat /\ Committed(money[u]) \in Int
    BY <1>1, OpenOrder, CommittedType
    DEF HeldBy, MarkDelivered, Dispute, NoOrder, TypeOK, BaseTypeOK
  <2> HIDE DEF r
  <2> QED
    BY <1>4, <2>2, <2>3, <2>4 DEF Booked, r
<1> QED
  BY <1>2, <1>3, <1>4, <1>5, MoneyStutter
  DEF Safe, TypeOK, BaseTypeOK, ConfigTypeOK, configVars

-----------------------------------------------------------------------------

LEMMA OrderStep ==
    ASSUME TypeOK, OrderNext, UNCHANGED <<now, configVars>>
    PROVE  Safe /\ \E k \in Keys : Booked(k)
<1> DEFINE Goal == Safe /\ \E k \in Keys : Booked(k)
<1> Callers \subseteq Accounts
  BY BaseAssumption
<1>1. ASSUME NEW by \in Accounts, NEW k \in Keys,
             ConfirmReceipt(by, k) \/ Cancel(by, k) \/ ClaimTimeout(by, k)
      PROVE  Goal
  <2>1. Open(k)
    BY <1>1 DEF ConfirmReceipt, Cancel, ClaimTimeout, Open, OpenStates
  <2>2. Release(by, k) \/ Refund(by, k)
    BY <1>1 DEF ConfirmReceipt, Cancel, ClaimTimeout
  <2> QED
    BY <2>1, <2>2, ReleaseStep, RefundStep
<1>2. ASSUME NEW by \in Accounts, NEW k \in Keys, NEW toBuyer \in Splits,
             Resolve(by, k, toBuyer)
      PROVE  Goal
  BY <1>2, ResolveStep
<1>3. ASSUME NEW buyer \in Buyers, NEW id \in OrderIds, NEW s \in Sellers,
             NEW token \in Tokens, NEW product \in ProductAmounts,
             NEW shipping \in ShippingAmounts, NEW days \in HandlingChoices,
             NEW cap \in FlatCaps,
             CreateOrder(buyer, id, s, token, product, shipping, days, cap)
      PROVE  Goal
  <2>1. <<buyer, id>> \in Keys
    BY DEF Keys
  <2>2. Safe /\ Booked(<<buyer, id>>)
    BY <1>3, CreateStep
  <2> QED
    BY <2>1, <2>2
<1>4. ASSUME NEW by \in Accounts, NEW k \in Keys, MarkDelivered(by, k) \/ Dispute(by, k)
      PROVE  Goal
  BY <1>4, PhaseStep
<1> HIDE DEF Goal
<1>5. Goal
  BY <1>1, <1>2, <1>3, <1>4 DEF OrderNext
<1> QED
  BY <1>5 DEF Goal

\* TypeOK is inductive, and the steps that keep it keep the surplus and the books.
NothingBooked == orders' = orders /\ CommitmentsKept

LEMMA StepSafe ==
    ASSUME TypeOK, [Next]_vars
    PROVE  Safe /\ (NothingBooked \/ \E k \in Keys : Booked(k))
<1>1. CASE OrderNext /\ UNCHANGED <<now, configVars>>
  BY <1>1, OrderStep
<1>2. CASE BaseNext /\ UNCHANGED <<orders, configVars>>
  <2>1. BaseTypeOK' /\ (\A t \in Tokens : SurplusStep(t)) /\ CommitmentsKept
    BY <1>2, BaseStep, BaseKeepsCommitted DEF TypeOK
  <2> QED
    BY <1>2, <2>1 DEF Safe, NothingBooked, TypeOK, ConfigTypeOK, configVars
<1>3. CASE Tick /\ UNCHANGED <<orders, configVars>>
  BY <1>3, MoneyStutter
  DEF Safe, NothingBooked, CommitmentsKept, TypeOK, BaseTypeOK, ConfigTypeOK, configVars,
      Tick
<1>4. CASE ConfigNext /\ UNCHANGED <<orders, baseVars>>
  BY <1>4, ConfigStep, MoneyStutter
  DEF Safe, NothingBooked, CommitmentsKept, TypeOK, BaseTypeOK, baseVars
<1>5. CASE UNCHANGED vars
  BY <1>5, MoneyStutter
  DEF Safe, NothingBooked, CommitmentsKept, TypeOK, BaseTypeOK, ConfigTypeOK, vars
<1> QED
  BY <1>1, <1>2, <1>3, <1>4, <1>5 DEF Next

LEMMA InitSafe == Init => TypeOK /\ Solvent
<1> SUFFICES ASSUME Init PROVE TypeOK /\ Solvent
  OBVIOUS
<1>1. BaseTypeOK /\ \A t \in Tokens : Surplus(money[t]) = 0
  BY BaseStart DEF Init
<1>2. TypeOK
  BY <1>1, ConfigStart DEF Init, TypeOK
<1>3. ASSUME NEW t \in Tokens PROVE money[t].owed <= money[t].bal[Self]
  BY <1>1 DEF BaseTypeOK, Money, Surplus, Holders
<1> QED
  BY <1>2, <1>3 DEF Solvent

\* Every variable stays in its type: in particular no balance, no counter and
\* no claimable amount goes below zero, so no checked subtraction reverts a
\* settlement, and no recorded fee outgrows its 96 bits.
THEOREM TypeCorrect == Spec => []TypeOK
<1>1. Init => TypeOK
  BY InitSafe
<1>2. TypeOK /\ [Next]_vars => TypeOK'
  BY StepSafe DEF Safe
<1> QED
  BY <1>1, <1>2, PTL DEF Spec

\* No step of the contract, of its configuration or of the token takes from
\* what is held above the obligations, but for a rescue, which leaves exactly
\* the obligations.
THEOREM SurplusIsKept == Spec => SurplusKept
<1>1. TypeOK /\ [Next]_vars => [\A t \in Tokens : SurplusStep(t)]_money
  BY StepSafe DEF Safe
<1> QED
  BY <1>1, TypeCorrect, PTL DEF Spec, SurplusKept

\* The escrow holds at least what it owes, in every token, always: by induction
\* on the surplus, which starts at 0 and never falls below it.
THEOREM AlwaysSolvent == Spec => []Solvent
<1>1. Init => Solvent
  BY InitSafe
<1>2. TypeOK /\ Solvent /\ [Next]_vars => Solvent'
  BY StepSafe, SolventStep DEF Safe, TypeOK
<1> QED
  BY <1>1, <1>2, TypeCorrect, PTL DEF Spec

-----------------------------------------------------------------------------
(* The books: what is committed in a token is what the orders hold of it.    *)

Holding(book, t) == [k \in Keys |-> HeldBy(book[k], t)]
Ledger == \A t \in Tokens : Committed(money[t]) = SumOver(Holding(orders, t))

LEMMA KeysFinite == IsFiniteSet(Keys)
<1>1. IsFiniteSet(Buyers)
  BY OrderAssumption, BaseAssumption, FS_Subset
<1> QED
  BY <1>1, OrderAssumption, FS_Product DEF Keys

LEMMA HoldingType ==
    ASSUME NEW book \in [Keys -> Order \cup {NoOrder}], NEW t \in Tokens
    PROVE  Holding(book, t) \in [Keys -> Nat]
<1>1. ASSUME NEW k \in Keys PROVE HeldBy(book[k], t) \in Nat
  <2>1. CASE book[k] = NoOrder
    BY <2>1 DEF HeldBy, NoOrder, OpenStates
  <2>2. CASE book[k] \in Order
    BY <2>2 DEF HeldBy, Order, Gross
  <2> QED
    BY <2>1, <2>2
<1> QED
  BY <1>1 DEF Holding

\* The ledger is OwedIsExact, told by what is committed.
LEMMA LedgerIsOwed ==
    ASSUME TypeOK
    PROVE  Ledger <=> OwedIsExact
<1>1. ASSUME NEW t \in Tokens PROVE HeldFor(t) = SumOver(Holding(orders, t))
  <2>1. HeldFor(t) =
          SumOver([k \in Keys |->
                    IF Open(k) /\ orders[k].token = t THEN Gross(orders[k]) ELSE 0])
    BY DEF HeldFor, SumOver
  <2>2. [k \in Keys |-> IF Open(k) /\ orders[k].token = t THEN Gross(orders[k]) ELSE 0]
            = Holding(orders, t)
    BY DEF Holding, HeldBy, Open
  <2> QED
    BY <2>1, <2>2
<1>2. \A t \in Tokens : Unclaimed(t) = SumOver(money[t].claimable)
  BY DEF Unclaimed, SumOver
<1>3. \A t \in Tokens : /\ money[t].owed \in Nat
                        /\ SumOver(money[t].claimable) \in Nat
                        /\ SumOver(Holding(orders, t)) \in Nat
  BY HoldersFinite, KeysFinite, HoldingType, SumType DEF TypeOK, BaseTypeOK, Money
<1>4. \A t \in Tokens : Committed(money[t]) = money[t].owed - SumOver(money[t].claimable)
  BY DEF Committed
<1>5. ASSUME NEW t \in Tokens
      PROVE  Committed(money[t]) = SumOver(Holding(orders, t))
                 <=> money[t].owed = HeldFor(t) + Unclaimed(t)
  BY <1>1, <1>2, <1>3, <1>4
<1> QED
  BY <1>5 DEF Ledger, OwedIsExact

LEMMA LedgerStep == TypeOK /\ Ledger /\ [Next]_vars => Ledger'
<1> SUFFICES ASSUME TypeOK, Ledger, [Next]_vars, NEW t \in Tokens
             PROVE  Committed(money'[t]) = SumOver(Holding(orders', t))
  BY DEF Ledger
<1>1. TypeOK' /\ (NothingBooked \/ \E k \in Keys : Booked(k))
  BY StepSafe DEF Safe
<1>2. Committed(money[t]) = SumOver(Holding(orders, t))
  BY DEF Ledger
<1>3. CASE NothingBooked
  <2>1. Holding(orders', t) = Holding(orders, t)
    BY <1>3 DEF NothingBooked, Holding
  <2> QED
    BY <1>2, <1>3, <2>1 DEF NothingBooked, CommitmentsKept
<1>4. ASSUME NEW k \in Keys, Booked(k) PROVE Committed(money'[t]) = SumOver(Holding(orders', t))
  <2> DEFINE before == Holding(orders, t)
             after == Holding(orders', t)
  <2>1. before \in [Keys -> Nat]
    BY HoldingType DEF TypeOK
  <2>2. after \in [Keys -> Nat]
    BY <1>1, HoldingType DEF TypeOK
  <2>3. /\ before[k] = HeldBy(orders[k], t) /\ after[k] = HeldBy(orders'[k], t)
        /\ \A j \in Keys : j # k => after[j] = before[j]
    BY <1>4 DEF Holding, Booked
  <2>4. Committed(money'[t]) =
            Committed(money[t]) + HeldBy(orders'[k], t) - HeldBy(orders[k], t)
    BY <1>4 DEF Booked
  <2> HIDE DEF before, after
  <2>5. before \in [Keys -> Int] /\ after \in [Keys -> Int]
    BY <2>1, <2>2
  <2>6. SumOver(after) = SumOver(before) + after[k] - before[k]
    BY <2>3, <2>5, KeysFinite, SumChange
  <2> QED
    BY <1>2, <2>3, <2>4, <2>6 DEF before, after
<1> QED
  BY <1>1, <1>3, <1>4

LEMMA LedgerAlways == Spec => []Ledger
<1>1. Init => Ledger
  <2> SUFFICES ASSUME Init, NEW t \in Tokens PROVE Committed(money[t]) = SumOver(Holding(orders, t))
    BY DEF Ledger
  <2>1. Holding(orders, t) \in [Keys -> {0}]
    BY DEF Init, Holding, HeldBy, NoOrder, OpenStates
  <2> QED
    BY <2>1, KeysFinite, SumZero, NothingCommitted DEF Init
<1> QED
  BY <1>1, LedgerStep, TypeCorrect, PTL DEF Spec

\* owed is exactly what the open orders can still pay out and the payouts that
\* wait to be claimed: no order's ending, in whatever order they end, and no
\* blacklisting loses an obligation or doubles one.
THEOREM OwedAlwaysExact == Spec => []OwedIsExact
<1>1. TypeOK /\ Ledger => OwedIsExact
  BY LedgerIsOwed
<1> QED
  BY <1>1, LedgerAlways, TypeCorrect, PTL

-----------------------------------------------------------------------------
(* The order's record: what each step may do to it, and what follows. *)

\* A positive factor cancels, and so does a division, which rounds down.
LEMMA CancelFactor ==
    ASSUME NEW b \in Nat \ {0}, NEW d \in Nat, NEW q \in Nat, b * d <= b * q
    PROVE  d <= q
<1> SUFFICES ASSUME d > q PROVE FALSE
  OBVIOUS
<1>1. d - q - 1 \in Nat /\ d = q + 1 + (d - q - 1)
  OBVIOUS
<1>2. PICK e \in Nat : d = q + 1 + e
  BY <1>1
<1>3. b * d = b * q + b + b * e
  BY <1>2
<1>4. b * e \in Nat /\ b * q \in Nat
  BY <1>2
<1> QED
  BY <1>3, <1>4

LEMMA DivAtMost ==
    ASSUME NEW a \in Nat, NEW b \in Nat \ {0}, NEW q \in Nat, a <= b * q
    PROVE  a \div b \in Nat /\ a \div b <= q
<1> DEFINE d == a \div b
<1>1. d \in Nat /\ b * d <= a
  OBVIOUS
<1> HIDE DEF d
<1>2. b * d <= b * q
  <2>1. b * d \in Nat /\ b * q \in Nat
    BY <1>1
  <2> QED
    BY <1>1, <2>1
<1>3. d <= q
  BY <1>1, <1>2, CancelFactor
<1> QED
  BY <1>1, <1>3 DEF d

\* A rate within the cap takes a fee within the cap.
LEMMA BpsCapped ==
    ASSUME NEW amount \in Nat, NEW bps \in Nat, bps <= MAX_FEE_BPS
    PROVE  BpsOf(amount, bps) * BPS_DENOMINATOR <= MAX_FEE_BPS * amount
<1>1. amount * bps \in Nat /\ amount * bps <= 300 * amount
  BY DEF MAX_FEE_BPS
<1>2. ((amount * bps) \div 10000) * 10000 <= amount * bps
  BY <1>1
<1>3. (amount * bps) \div 10000 \in Nat
  BY <1>1
<1> QED
  BY <1>1, <1>2, <1>3 DEF BpsOf, BPS_DENOMINATOR, MAX_FEE_BPS

\* The recorded fee is at most MAX_FEE_BPS of the price.
FeeCapped(o) == o.merchantFee * BPS_DENOMINATOR <= MAX_FEE_BPS * o.product

\* The four ways a step writes an order's record.
Created(k, r) ==
    /\ orders[k] = NoOrder /\ FeeCapped(r) /\ Skim[r.token] = 0
    /\ r.state = "Funded" /\ r.deliverBy > now /\ r.confirmBy = 0 /\ r.resolveBy = 0
Marked(k, r) ==
    /\ orders[k].state = "Funded" /\ now <= orders[k].deliverBy
    /\ r = [orders[k] EXCEPT !.state = "Delivered", !.confirmBy = now + CONFIRM_WINDOW]
Contested(k, r) ==
    /\ orders[k].state = "Delivered" /\ now <= orders[k].confirmBy
    /\ r = [orders[k] EXCEPT !.state = "Disputed", !.resolveBy = now + DISPUTE_BACKSTOP]

\* Who may end an order, how, and when.
MayEnd(o, buyer, by, state) ==
    \/ state = "Released" /\ o.state \in {"Funded", "Delivered"} /\ by = buyer
    \/ state = "Released" /\ o.state = "Delivered" /\ now > o.confirmBy
    \/ state = "Refunded" /\ o.state = "Funded" /\ (by = o.seller \/ now > o.deliverBy)
    \/ state = "Refunded" /\ o.state = "Disputed" /\ now > o.resolveBy
    \/ state = "Resolved" /\ o.state = "Disputed" /\ by \in Resolvers
EndedBy(k, r) ==
    \E by \in Accounts, state \in FinalStates :
        /\ MayEnd(orders[k], Buyer(k), by, state)
        /\ r = [orders[k] EXCEPT !.state = state, !.endedBy = by]

Written(k, r) == Created(k, r) \/ Marked(k, r) \/ Contested(k, r) \/ EndedBy(k, r)

LEMMA EndWrites ==
    ASSUME TypeOK, NEW k \in Keys, NEW by \in Accounts, NEW state \in FinalStates,
           MayEnd(orders[k], Buyer(k), by, state), End(by, k, state)
    PROVE  \E r : orders' = [orders EXCEPT ![k] = r] /\ Written(k, r)
<1> DEFINE r == [orders[k] EXCEPT !.state = state, !.endedBy = by]
<1>1. orders' = [orders EXCEPT ![k] = r]
  BY DEF End, TypeOK
<1>2. EndedBy(k, r)
  BY DEF EndedBy
<1> HIDE DEF r
<1> QED
  BY <1>1, <1>2 DEF Written

\* An escrow call writes one order's record, in one of the four ways.
LEMMA OneWritten ==
    ASSUME TypeOK, OrderNext
    PROVE  \E k \in Keys : \E r : orders' = [orders EXCEPT ![k] = r] /\ Written(k, r)
<1> DEFINE Goal(k) == \E r : orders' = [orders EXCEPT ![k] = r] /\ Written(k, r)
<1> Callers \subseteq Accounts
  BY BaseAssumption
<1> USE DEF FinalStates
<1>1. ASSUME NEW by \in Accounts, NEW k \in Keys, ConfirmReceipt(by, k) PROVE Goal(k)
  BY <1>1, EndWrites DEF ConfirmReceipt, Release, MayEnd
<1>2. ASSUME NEW by \in Accounts, NEW k \in Keys, Cancel(by, k) PROVE Goal(k)
  BY <1>2, EndWrites DEF Cancel, Refund, MayEnd
<1>3. ASSUME NEW by \in Accounts, NEW k \in Keys, ClaimTimeout(by, k) PROVE Goal(k)
  BY <1>3, EndWrites DEF ClaimTimeout, Release, Refund, Passed, MayEnd
<1>4. ASSUME NEW by \in Accounts, NEW k \in Keys, NEW toBuyer \in Splits,
             Resolve(by, k, toBuyer)
      PROVE  Goal(k)
  BY <1>4, EndWrites DEF Resolve, MayEnd
<1>5. ASSUME NEW by \in Accounts, NEW k \in Keys, MarkDelivered(by, k) PROVE Goal(k)
  <2> DEFINE r == [orders[k] EXCEPT !.state = "Delivered",
                                    !.confirmBy = now + CONFIRM_WINDOW]
  <2>1. orders' = [orders EXCEPT ![k] = r]
    BY <1>5 DEF MarkDelivered, TypeOK
  <2>2. Marked(k, r)
    BY <1>5 DEF MarkDelivered, InTime, Marked
  <2> HIDE DEF r
  <2> QED
    BY <2>1, <2>2 DEF Written
<1>6. ASSUME NEW by \in Accounts, NEW k \in Keys, Dispute(by, k) PROVE Goal(k)
  <2> DEFINE r == [orders[k] EXCEPT !.state = "Disputed",
                                    !.resolveBy = now + DISPUTE_BACKSTOP]
  <2>1. orders' = [orders EXCEPT ![k] = r]
    BY <1>6 DEF Dispute, TypeOK
  <2>2. Contested(k, r)
    BY <1>6 DEF Dispute, InTime, Contested
  <2> HIDE DEF r
  <2> QED
    BY <2>1, <2>2 DEF Written
<1>7. ASSUME NEW buyer \in Buyers, NEW id \in OrderIds, NEW s \in Sellers,
             NEW token \in Tokens, NEW product \in ProductAmounts,
             NEW shipping \in ShippingAmounts, NEW days \in HandlingChoices,
             NEW cap \in FlatCaps,
             CreateOrder(buyer, id, s, token, product, shipping, days, cap)
      PROVE  <<buyer, id>> \in Keys /\ Goal(<<buyer, id>>)
  <2> DEFINE k == <<buyer, id>>
             r == [state |-> "Funded", seller |-> s, token |-> token,
                   merchantFee |-> BpsOf(product, OrderRate(token).bps),
                   product |-> product, shipping |-> shipping,
                   deliverBy |-> now + days * Day,
                   confirmBy |-> 0, resolveBy |-> 0, endedBy |-> NoOne]
  <2>1. k \in Keys
    BY DEF Keys
  <2>2. orders' = [orders EXCEPT ![k] = r] /\ orders[k] = NoOrder
    BY <1>7 DEF CreateOrder
  <2>3. r.state = "Funded" /\ r.confirmBy = 0 /\ r.resolveBy = 0
    OBVIOUS
  <2>4. r.deliverBy > now
    <3>1. days \in Nat \ {0} /\ Day \in Nat \ {0} /\ now \in Nat
      BY <1>7, OrderAssumption DEF CreateOrder, TypeOK, BaseTypeOK
    <3>2. days * Day \in Nat \ {0}
      BY <3>1
    <3> QED
      BY <3>1, <3>2
  <2>5. FeeCapped(r)
    <3>1. /\ product \in Nat /\ OrderRate(token) \in Rate
          /\ OrderRate(token).bps <= MAX_FEE_BPS
      BY <1>7, OrderAssumption DEF CreateOrder, Priced, OrderRate, TypeOK, ConfigTypeOK
    <3>2. OrderRate(token).bps \in Nat
      BY <3>1 DEF Rate
    <3>3. BpsOf(product, OrderRate(token).bps) * BPS_DENOMINATOR <= MAX_FEE_BPS * product
      BY <3>1, <3>2, BpsCapped
    <3> QED
      BY <3>3 DEF FeeCapped
  <2>6. Skim[r.token] = 0
    <3> DEFINE pulled == product + shipping + OrderRate(token).flatFee
    <3>1. product \in Nat \ {0} /\ shipping \in Nat /\ OrderRate(token).flatFee \in Nat
      BY <1>7, OrderAssumption
      DEF CreateOrder, Priced, RateConfigured, OrderRate, TypeOK, ConfigTypeOK, Rate
    <3>2. pulled \in Nat \ {0}
      BY <3>1
    <3>3. CanPull(token, AddOwed(money[token], product + shipping), buyer, pulled)
      BY <1>7 DEF CreateOrder
    <3> HIDE DEF pulled
    <3> QED
      BY <3>2, <3>3, PulledWhole
  <2> HIDE DEF r
  <2> QED
    BY <2>1, <2>2, <2>3, <2>4, <2>5, <2>6 DEF Created, Written
<1> QED
  BY <1>1, <1>2, <1>3, <1>4, <1>5, <1>6, <1>7 DEF OrderNext

\* A step either writes one record at an unmoving clock, or leaves all of them
\* while the clock may advance.
LEMMA OrdersStep ==
    ASSUME TypeOK, [Next]_vars
    PROVE  \/ /\ now' = now
              /\ \E k \in Keys : \E r : orders' = [orders EXCEPT ![k] = r] /\ Written(k, r)
           \/ orders' = orders /\ now' \in Nat /\ now' >= now
<1>1. CASE OrderNext /\ UNCHANGED <<now, configVars>>
  BY <1>1, OneWritten
<1>2. CASE Tick /\ UNCHANGED <<orders, configVars>>
  BY <1>2 DEF Tick, TypeOK, BaseTypeOK
<1>3. CASE BaseNext /\ UNCHANGED <<orders, configVars>>
  BY <1>3, BaseKeepsNow DEF TypeOK, BaseTypeOK
<1>4. CASE ConfigNext /\ UNCHANGED <<orders, baseVars>>
  BY <1>4 DEF baseVars, TypeOK, BaseTypeOK
<1>5. CASE UNCHANGED vars
  BY <1>5 DEF vars, TypeOK, BaseTypeOK
<1> QED
  BY <1>1, <1>2, <1>3, <1>4, <1>5 DEF Next

\* The invariant behind the two promises about time: what each state says of
\* the deadlines, and that every ending had its reason.
Phased(o, buyer) ==
    /\ o.deliverBy # 0
    /\ o.confirmBy <= o.deliverBy + CONFIRM_WINDOW
    /\ o.resolveBy <= o.confirmBy + DISPUTE_BACKSTOP
    /\ o.state = "Funded" => o.confirmBy = 0 /\ o.resolveBy = 0
    /\ o.state = "Delivered" => o.confirmBy # 0 /\ o.resolveBy = 0
    /\ o.state = "Disputed" => o.confirmBy # 0 /\ o.resolveBy # 0
    /\ o.state \in FinalStates => EndJustified(o, buyer)
AllPhased == \A k \in Keys : orders[k] # NoOrder => Phased(orders[k], Buyer(k))

LEMMA WrittenPhased ==
    ASSUME TypeOK, AllPhased, NEW k \in Keys, NEW r \in Order, Written(k, r)
    PROVE  Phased(r, Buyer(k))
<1> DEFINE o == orders[k]
<1> USE DEF Phased, EndJustified, OpenStates, FinalStates
<1>1. /\ r.deliverBy \in Nat /\ r.confirmBy \in Nat /\ r.resolveBy \in Nat
      /\ CONFIRM_WINDOW \in Nat \ {0} /\ DISPUTE_BACKSTOP \in Nat \ {0} /\ now \in Nat
  BY OrderAssumption DEF Order, TypeOK, BaseTypeOK
<1>2. CASE Created(k, r)
  BY <1>1, <1>2 DEF Created
<1>3. ASSUME Marked(k, r) \/ Contested(k, r) \/ EndedBy(k, r)
      PROVE  /\ o \in Order /\ Phased(o, Buyer(k))
             /\ o.deliverBy \in Nat /\ o.confirmBy \in Nat /\ o.resolveBy \in Nat
  <2>0. o.state \in {"Funded", "Delivered", "Disputed"}
    BY <1>3 DEF Marked, Contested, EndedBy, MayEnd
  <2>1. o # NoOrder
    BY <2>0 DEF NoOrder
  <2>2. o \in Order /\ Phased(o, Buyer(k))
    BY <2>1 DEF AllPhased, TypeOK
  <2> QED
    BY <2>2 DEF Order
<1>4. CASE Marked(k, r)
  <2>1. /\ r.state = "Delivered" /\ r.confirmBy = now + CONFIRM_WINDOW
        /\ r.deliverBy = o.deliverBy /\ r.resolveBy = o.resolveBy
    BY <1>3, <1>4 DEF Marked, Order
  <2> QED
    BY <1>1, <1>3, <1>4, <2>1 DEF Marked
<1>5. CASE Contested(k, r)
  <2>1. /\ r.state = "Disputed" /\ r.resolveBy = now + DISPUTE_BACKSTOP
        /\ r.deliverBy = o.deliverBy /\ r.confirmBy = o.confirmBy
    BY <1>3, <1>5 DEF Contested, Order
  <2> QED
    BY <1>1, <1>3, <1>5, <2>1 DEF Contested
<1>6. CASE EndedBy(k, r)
  <2>1. PICK by \in Accounts, state \in FinalStates :
            /\ MayEnd(o, Buyer(k), by, state)
            /\ r = [o EXCEPT !.state = state, !.endedBy = by]
    BY <1>6 DEF EndedBy
  <2>2. /\ r.state = state /\ r.endedBy = by /\ r.deliverBy = o.deliverBy
        /\ r.confirmBy = o.confirmBy /\ r.resolveBy = o.resolveBy
        /\ r.seller = o.seller
    BY <1>3, <2>1 DEF Order
  <2>3. o.state \in OpenStates
    BY <2>1 DEF MayEnd
  <2>4. /\ r.deliverBy # 0
        /\ r.confirmBy <= r.deliverBy + CONFIRM_WINDOW
        /\ r.resolveBy <= r.confirmBy + DISPUTE_BACKSTOP
    BY <1>3, <1>6, <2>2
  <2>5. EndJustified(r, Buyer(k))
    <3>1. CASE state = "Released"
      BY <1>1, <1>3, <1>6, <2>1, <2>2, <3>1 DEF MayEnd
    <3>2. CASE state = "Refunded"
      BY <1>1, <1>3, <1>6, <2>1, <2>2, <3>2 DEF MayEnd
    <3>3. CASE state = "Resolved"
      BY <1>1, <1>3, <1>6, <2>1, <2>2, <3>3 DEF MayEnd
    <3> QED
      BY <3>1, <3>2, <3>3
  <2> QED
    BY <2>2, <2>4, <2>5
<1> QED
  BY <1>2, <1>4, <1>5, <1>6 DEF Written

\* A reason for an ending stays one as time passes.
LEMMA PhasedLater ==
    ASSUME TypeOK, NEW k \in Keys, orders[k] # NoOrder, Phased(orders[k], Buyer(k)),
           now' \in Nat, now' >= now
    PROVE  Phased(orders[k], Buyer(k))'  \/ orders'[k] # orders[k]
<1> SUFFICES ASSUME orders'[k] = orders[k] PROVE Phased(orders[k], Buyer(k))'
  OBVIOUS
<1>1. /\ orders[k] \in Order /\ now \in Nat
      /\ orders[k].deliverBy \in Nat /\ orders[k].confirmBy \in Nat
      /\ orders[k].resolveBy \in Nat
  BY DEF TypeOK, BaseTypeOK, Order
<1> QED
  BY <1>1 DEF Phased, EndJustified, Buyer, FinalStates

LEMMA PhasedStep == TypeOK /\ AllPhased /\ [Next]_vars => AllPhased'
<1> SUFFICES ASSUME TypeOK, AllPhased, [Next]_vars, NEW k \in Keys, orders'[k] # NoOrder
             PROVE  Phased(orders[k], Buyer(k))'
  BY DEF AllPhased
<1>1. TypeOK' /\ now \in Nat
  BY StepSafe DEF Safe, TypeOK, BaseTypeOK
<1>2. CASE orders'[k] = orders[k] /\ now' \in Nat /\ now' >= now
  BY <1>2, PhasedLater DEF AllPhased
<1>3. ASSUME NEW j \in Keys, NEW r, orders' = [orders EXCEPT ![j] = r], Written(j, r),
             now' = now
      PROVE  Phased(orders[k], Buyer(k))'
  <2>1. CASE k # j
    BY <1>1, <1>3, <2>1, PhasedLater DEF AllPhased, TypeOK
  <2>2. CASE k = j
    <3>1. orders'[k] = r /\ r \in Order
      BY <1>1, <1>3, <2>2 DEF TypeOK
    <3>2. Phased(r, Buyer(k))
      BY <1>3, <2>2, <3>1, WrittenPhased
    <3> QED
      BY <1>3, <3>1, <3>2 DEF Phased, EndJustified, Buyer
  <2> QED
    BY <2>1, <2>2
<1> QED
  BY <1>1, <1>2, <1>3, OrdersStep DEF TypeOK

LEMMA PhasedAlways == Spec => []AllPhased
<1>1. Init => AllPhased
  BY DEF Init, AllPhased
<1> QED
  BY <1>1, PhasedStep, TypeCorrect, PTL DEF Spec

\* No party can stretch the clock: the windows start inside one another, so an
\* order's last deadline is at most its delivery deadline and two windows.
THEOREM ClockBounded == Spec => []ClockIsBounded
<1>1. TypeOK /\ AllPhased => ClockIsBounded
  BY DEF AllPhased, Phased, ClockIsBounded
<1> QED
  BY <1>1, PhasedAlways, TypeCorrect, PTL

\* Every ended order had its reason: the seller was paid because the buyer said
\* so or was silent too long, the buyer refunded because the seller said so or
\* a deadline was missed, and only a resolver split.
THEOREM EndsJustified == Spec => []EndsAreJustified
<1>1. TypeOK /\ AllPhased => EndsAreJustified
  <2> SUFFICES ASSUME AllPhased, NEW k \in Keys, Ended(k)
               PROVE  EndJustified(orders[k], Buyer(k))
    BY DEF EndsAreJustified
  <2>1. orders[k] # NoOrder
    BY DEF Ended, NoOrder, FinalStates
  <2> QED
    BY <2>1 DEF AllPhased, Phased, Ended
<1> QED
  BY <1>1, PhasedAlways, TypeCorrect, PTL

\* An order's terms are fixed at creation, its confirm deadline once it is set,
\* and all of its record once it has ended, whatever is configured meanwhile.
THEOREM TermsAreKept == Spec => NothingIsReopened
<1>1. TypeOK /\ AllPhased /\ [Next]_vars => [\A k \in Keys : TermsKept(k)]_vars
  <2> SUFFICES ASSUME TypeOK, AllPhased, [Next]_vars, NEW k \in Keys PROVE TermsKept(k)
    OBVIOUS
  <2>1. CASE orders'[k] = orders[k]
    BY <2>1 DEF TermsKept
  <2>2. ASSUME NEW r, orders' = [orders EXCEPT ![k] = r], Written(k, r)
        PROVE  TermsKept(k)
    <3>0. orders'[k] = r /\ TypeOK'
      BY <2>2, StepSafe DEF TypeOK, Safe
    <3>1. CASE Created(k, r)
      BY <3>0, <3>1 DEF Created, TermsKept, Ended, FinalStates, NoOrder
    <3>2. CASE Marked(k, r) \/ Contested(k, r) \/ EndedBy(k, r)
      <4>1. /\ orders[k] \in Order /\ Phased(orders[k], Buyer(k))
            /\ orders[k].state \in OpenStates /\ ~Ended(k)
        <5>1. orders[k].state \in OpenStates
          BY <3>2 DEF Marked, Contested, EndedBy, MayEnd, OpenStates
        <5>2. orders[k] # NoOrder /\ ~Ended(k)
          BY <5>1 DEF NoOrder, Ended, OpenStates, FinalStates
        <5> QED
          BY <5>1, <5>2 DEF AllPhased, TypeOK
      <4>2. r.state \in OpenStates \cup FinalStates /\ Terms(r) = Terms(orders[k])
        BY <3>2, <4>1
        DEF Marked, Contested, EndedBy, MayEnd, Terms, Order, OpenStates, FinalStates
      <4>3. orders[k].confirmBy # 0 => r.confirmBy = orders[k].confirmBy
        BY <3>2, <4>1 DEF Marked, Contested, EndedBy, Phased, Order
      <4>4. r # NoOrder
        BY <4>2 DEF NoOrder, OpenStates, FinalStates
      <4> QED
        BY <3>0, <4>1, <4>2, <4>3, <4>4 DEF TermsKept
    <3> QED
      BY <2>2, <3>1, <3>2 DEF Written
  <2> QED
    BY <2>1, <2>2, OrdersStep DEF TypeOK
<1> QED
  BY <1>1, PhasedAlways, TypeCorrect, PTL DEF Spec, NothingIsReopened

-----------------------------------------------------------------------------
(* No exit is stuck: what is owed covers every open order, and the fee       *)
(* recorded at creation leaves every split payable.                          *)

Whole(o) == Skim[o.token] = 0
AllCapped == \A k \in Keys :
    orders[k] # NoOrder => FeeCapped(orders[k]) /\ Whole(orders[k])

LEMMA CappedAlways == Spec => []AllCapped
<1>1. Init => AllCapped
  BY DEF Init, AllCapped
<1>2. TypeOK /\ AllCapped /\ [Next]_vars => AllCapped'
  <2> SUFFICES ASSUME TypeOK, AllCapped, [Next]_vars, NEW k \in Keys,
                      orders'[k] # NoOrder
               PROVE  FeeCapped(orders'[k]) /\ Whole(orders'[k])
    BY DEF AllCapped, FeeCapped, Whole
  <2>1. CASE orders'[k] = orders[k]
    BY <2>1 DEF AllCapped
  <2>2. ASSUME NEW r, orders' = [orders EXCEPT ![k] = r], Written(k, r)
        PROVE  FeeCapped(orders'[k]) /\ Whole(orders'[k])
    <3>0. orders'[k] = r
      BY <2>2 DEF TypeOK
    <3>1. CASE Created(k, r)
      BY <3>0, <3>1 DEF Created, Whole
    <3>2. CASE Marked(k, r) \/ Contested(k, r) \/ EndedBy(k, r)
      <4>1. orders[k] # NoOrder
        <5>1. orders[k].state \in {"Funded", "Delivered", "Disputed"}
          BY <3>2 DEF Marked, Contested, EndedBy, MayEnd
        <5> QED
          BY <5>1 DEF NoOrder
      <4>2. orders[k] \in Order /\ FeeCapped(orders[k]) /\ Whole(orders[k])
        BY <4>1 DEF AllCapped, TypeOK
      <4>3. /\ r.merchantFee = orders[k].merchantFee /\ r.product = orders[k].product
            /\ r.token = orders[k].token
        BY <3>2, <4>2 DEF Marked, Contested, EndedBy, Order
      <4> QED
        BY <3>0, <4>2, <4>3 DEF FeeCapped, Whole
    <3> QED
      BY <2>2, <3>1, <3>2 DEF Written
  <2> QED
    BY <2>1, <2>2, OrdersStep DEF TypeOK
<1> QED
  BY <1>1, <1>2, TypeCorrect, PTL DEF Spec

\* The pro rata fee of a split: within the recorded fee, within the part of the
\* price the seller keeps, and within MAX_FEE_BPS of that part.
LEMMA SplitBounds ==
    ASSUME NEW o \in Order, FeeCapped(o), NEW toBuyer \in Nat, toBuyer <= Gross(o)
    PROVE  /\ ResolvedFee(o, toBuyer) \in 0 .. o.merchantFee
           /\ ResolvedFee(o, toBuyer) <= Gross(o) - toBuyer
           /\ ResolvedFee(o, toBuyer) * BPS_DENOMINATOR
                 <= MAX_FEE_BPS * PriceKept(o, toBuyer)
<1> DEFINE kept == PriceKept(o, toBuyer)
           P == o.product
           mf == o.merchantFee
           fee == (mf * kept) \div P
<1>1. P \in Nat \ {0} /\ o.shipping \in Nat /\ mf \in Nat /\ Gross(o) = P + o.shipping
  BY OrderAssumption DEF Order, Gross
<1>2. /\ kept \in Nat /\ kept <= P /\ kept <= Gross(o) - toBuyer
      /\ kept = P - FromProduct(o, toBuyer)
  BY <1>1 DEF PriceKept, FromProduct
<1>3. ResolvedFee(o, toBuyer) = fee
  BY <1>2 DEF ResolvedFee
<1>4. mf * 10000 <= 300 * P
  BY DEF FeeCapped, BPS_DENOMINATOR, MAX_FEE_BPS
<1> HIDE DEF kept, P, mf
<1>5. mf <= P
  BY <1>1, <1>4
<1>6. mf * kept \in Nat /\ P * fee <= mf * kept
  <2>1. mf * kept \in Nat
    BY <1>1, <1>2
  <2> QED
    BY <1>1, <2>1
<1>7. mf * kept <= P * kept
  BY <1>1, <1>2, <1>5
<1>8. mf * kept <= P * mf
  BY <1>1, <1>2
<1>9. fee \in Nat /\ fee <= kept /\ fee <= mf
  <2> DEFINE x == mf * kept
  <2>1. x \in Nat /\ x <= P * kept /\ x <= P * mf
    BY <1>6, <1>7, <1>8
  <2> HIDE DEF x
  <2>2. x \div P \in Nat /\ x \div P <= kept /\ x \div P <= mf
    BY <1>1, <1>2, <2>1, DivAtMost
  <2> QED
    BY <2>2 DEF x
<1> HIDE DEF fee
<1>10. fee * 10000 <= 300 * kept
  <2>1. P * (fee * 10000) = (P * fee) * 10000
    BY <1>1, <1>9
  <2>2. (P * fee) * 10000 <= (mf * kept) * 10000
    BY <1>1, <1>6, <1>9
  <2>3. (mf * kept) * 10000 = (mf * 10000) * kept
    BY <1>1, <1>2
  <2>4. (mf * 10000) * kept <= (300 * P) * kept
    BY <1>1, <1>2, <1>4
  <2>5. (300 * P) * kept = P * (300 * kept)
    BY <1>1, <1>2
  <2>6. P * (fee * 10000) <= P * (300 * kept)
    <3>1. /\ P * fee \in Nat /\ mf * kept \in Nat /\ (300 * P) * kept \in Nat
      BY <1>1, <1>2, <1>9
    <3> QED
      BY <2>1, <2>2, <2>3, <2>4, <2>5, <3>1
  <2>7. fee * 10000 \in Nat /\ 300 * kept \in Nat
    BY <1>2, <1>9
  <2> QED
    BY <1>1, <2>6, <2>7, CancelFactor
<1> QED
  BY <1>1, <1>2, <1>3, <1>9, <1>10 DEF BPS_DENOMINATOR, MAX_FEE_BPS, kept, mf

\* What is owed covers each open order on its own.
LEMMA OpenIsOwed ==
    ASSUME TypeOK, Ledger, NEW k \in Keys, Open(k)
    PROVE  Gross(orders[k]) <= money[orders[k].token].owed
<1> DEFINE t == orders[k].token
           held == Holding(orders, t)
           m == money[t]
<1>1. t \in Tokens /\ m \in Money
  BY OpenIsOrder, OpenOrder DEF Order
<1>2. held \in [Keys -> Nat] /\ held[k] = Gross(orders[k])
  BY <1>1, HoldingType DEF TypeOK, Holding, HeldBy, Open
<1>3. Committed(m) = SumOver(held)
  BY <1>1 DEF Ledger
<1> HIDE DEF held, t
<1>4. held[k] <= SumOver(held) /\ SumOver(held) \in Nat /\ held[k] \in Nat
  BY <1>2, KeysFinite, SumMember, SumType
<1>5. SumOver(m.claimable) \in Nat /\ m.owed \in Nat
  BY <1>1, HoldersFinite, SumType DEF Money
<1> HIDE DEF m
<1> QED
  BY <1>2, <1>3, <1>4, <1>5 DEF Committed, m, t

\* No exit of an open order reverts on arithmetic, whatever the fees were when
\* it was created and whatever happened to the other orders: a confirmed, an
\* overdue or a disputed order can always be settled.
THEOREM ExitsAlwaysPayable == Spec => []ExitsPayable
<1>1. TypeOK /\ Ledger /\ AllCapped => ExitsPayable
  <2> SUFFICES ASSUME TypeOK, Ledger, AllCapped, NEW k \in Keys, Open(k)
               PROVE  /\ CanSubOwed(money[orders[k].token], Gross(orders[k]))
                      /\ orders[k].merchantFee <= Gross(orders[k])
                      /\ \A toBuyer \in 0 .. Gross(orders[k]) :
                            SplitPayable(orders[k], toBuyer)
    BY DEF ExitsPayable
  <2>1. orders[k] \in Order /\ FeeCapped(orders[k])
    BY OpenIsOrder DEF AllCapped, TypeOK
  <2>2. CanSubOwed(money[orders[k].token], Gross(orders[k]))
    BY OpenIsOwed DEF CanSubOwed
  <2>3. orders[k].merchantFee <= Gross(orders[k])
    <3>1. /\ orders[k].merchantFee \in Nat /\ orders[k].product \in Nat
          /\ orders[k].shipping \in Nat
      BY <2>1, OrderAssumption DEF Order
    <3> QED
      BY <2>1, <3>1 DEF FeeCapped, BPS_DENOMINATOR, MAX_FEE_BPS, Gross
  <2>4. ASSUME NEW toBuyer \in 0 .. Gross(orders[k])
        PROVE  SplitPayable(orders[k], toBuyer)
    <3>1. Gross(orders[k]) \in Nat
      BY <2>1 DEF Order, Gross
    <3>2. toBuyer \in Nat /\ toBuyer <= Gross(orders[k])
      BY <3>1
    <3> QED
      BY <2>1, <3>2, SplitBounds DEF SplitPayable
  <2> QED
    BY <2>2, <2>3, <2>4
<1> QED
  BY <1>1, LedgerAlways, CappedAlways, TypeCorrect, PTL

-----------------------------------------------------------------------------
(* What an ending pays.  The pull that opens an order proves its token skims *)
(* nothing, so each push adds exactly its amount to what its payee has.      *)

\* What every ending has in common.
LEMMA EndSettles ==
    ASSUME TypeOK, NEW k \in Keys, NEW by \in Accounts, NEW state \in FinalStates,
           Open(k), End(by, k, state), NEW m,
           money' = [money EXCEPT ![orders[k].token] = m],
           NEW toBuyer, NEW toSeller, NEW fee,
           \A a \in Accounts : Held(m, a) =
              Held(money[orders[k].token], a) + PaidOut(k, a, toBuyer, toSeller, fee)
    PROVE  EndsWith(k, toBuyer, toSeller, fee) /\ orders'[k].state = state
<1> DEFINE t == orders[k].token
<1>1. orders[k] \in Order /\ t \in Tokens /\ money \in [Tokens -> Money]
  BY OpenOrder, OpenIsOrder DEF Order, TypeOK, BaseTypeOK
<1>2. orders'[k] = [orders[k] EXCEPT !.state = state, !.endedBy = by]
  BY DEF End, TypeOK
<1>3. orders'[k].state = state /\ orders'[k].token = t
  BY <1>1, <1>2 DEF Order
<1>4. money'[t] = m
  BY <1>1
<1>5. \A a \in Accounts : money'[t].bal[a] + money'[t].claimable[a] =
          money[t].bal[a] + money[t].claimable[a] + PaidOut(k, a, toBuyer, toSeller, fee)
  BY <1>4 DEF Held
<1> QED
  BY <1>3, <1>5 DEF EndsWith, Wealth

\* The parties of an order, and what a record of its token may hold.
LEMMA OrderParties ==
    ASSUME TypeOK, NEW k \in Keys, orders[k] # NoOrder
    PROVE  /\ Buyer(k) \in Accounts /\ orders[k].seller \in Holders
           /\ feeRecipient \in Accounts
           /\ orders[k].token \in Tokens
           /\ orders[k].merchantFee \in Nat
  BY OrderAssumption DEF TypeOK, ConfigTypeOK, Order, Keys, Buyer

LEMMA ReleaseSettles ==
    ASSUME TypeOK, NEW k \in Keys, NEW by \in Accounts, Open(k), Whole(orders[k]),
           Release(by, k)
    PROVE  SettlesAsPromised(k)
<1> DEFINE o == orders[k]
           t == o.token
           gross == Gross(o)
           none == 0
           fee == o.merchantFee
           part == gross - o.merchantFee
           freed == SubOwed(money[t], gross)
           seller == Push(t, freed, o.seller, part)
           paid == Push(t, seller, feeRecipient, o.merchantFee)
<1>1. /\ t \in Tokens /\ Skim[t] = 0 /\ money[t] \in Money /\ gross \in Nat
      /\ o.seller \in Holders /\ feeRecipient \in Accounts
      /\ o.merchantFee \in Nat /\ part \in Nat
  BY OpenOrder, OpenIsOrder, OrderParties DEF Whole, Release
<1>0. Accounts \subseteq Holders
  BY DEF Holders
<1>2. freed \in Money
  BY <1>1, SubOwedSurplus DEF Release
<1>3. seller \in Money
  BY <1>1, <1>2, PushSurplus DEF Holders
<1>4. money' = [money EXCEPT ![t] = paid]
  BY DEF Release
<1>5. ASSUME NEW a \in Accounts
      PROVE  Held(paid, a) = Held(money[t], a)
                  + PaidOut(k, a, none, part, fee)
  <2>1. Held(freed, a) = Held(money[t], a) /\ Held(money[t], a) \in Nat
    BY <1>1, SubOwedHeld, HeldType
  <2>2. Held(seller, a) = Held(freed, a)
            + IF a = o.seller THEN part ELSE 0
    BY <1>0, <1>1, <1>2, PushHeld
  <2>3. Held(paid, a) = Held(seller, a)
            + IF a = feeRecipient THEN o.merchantFee ELSE 0
    BY <1>0, <1>1, <1>3, PushHeld
  <2> HIDE DEF freed, seller, paid, part
  <2> QED
    BY <1>1, <2>1, <2>2, <2>3 DEF PaidOut, Part
<1> HIDE DEF paid, part, none, fee
<1>6. \A a \in Accounts : Held(paid, a) = Held(money[t], a)
          + PaidOut(k, a, none, part, fee)
  BY <1>5
<1>7. End(by, k, "Released") /\ "Released" \in FinalStates
  BY DEF Release, FinalStates
<1>8. EndsWith(k, none, part, fee)
      /\ orders'[k].state = "Released"
  BY <1>4, <1>6, <1>7, EndSettles
<1> QED
  BY <1>8 DEF SettlesAsPromised, part, none, fee

LEMMA RefundSettles ==
    ASSUME TypeOK, NEW k \in Keys, NEW by \in Accounts, Open(k), Whole(orders[k]),
           Refund(by, k)
    PROVE  SettlesAsPromised(k)
<1> DEFINE o == orders[k]
           t == o.token
           gross == Gross(o)
           freed == SubOwed(money[t], gross)
           paid == Push(t, freed, Buyer(k), gross)
<1>1. /\ t \in Tokens /\ Skim[t] = 0 /\ money[t] \in Money /\ gross \in Nat
      /\ Buyer(k) \in Accounts
  BY OpenOrder, OpenIsOrder, OrderParties DEF Whole
<1>0. Accounts \subseteq Holders
  BY DEF Holders
<1>2. freed \in Money
  BY <1>1, SubOwedSurplus DEF Refund
<1>3. money' = [money EXCEPT ![t] = paid]
  BY DEF Refund
<1>4. ASSUME NEW a \in Accounts
      PROVE  Held(paid, a) = Held(money[t], a) + PaidOut(k, a, gross, 0, 0)
  <2>1. Held(freed, a) = Held(money[t], a) /\ Held(money[t], a) \in Nat
    BY <1>1, SubOwedHeld, HeldType
  <2>2. Held(paid, a) = Held(freed, a) + IF a = Buyer(k) THEN gross ELSE 0
    BY <1>0, <1>1, <1>2, PushHeld
  <2> HIDE DEF freed, paid, gross
  <2> QED
    BY <1>1, <2>1, <2>2 DEF PaidOut, Part
<1> HIDE DEF paid
<1>5. \A a \in Accounts : Held(paid, a) = Held(money[t], a) + PaidOut(k, a, gross, 0, 0)
  BY <1>4
<1>6. End(by, k, "Refunded") /\ "Refunded" \in FinalStates
  BY DEF Refund, FinalStates
<1>7. EndsWith(k, gross, 0, 0) /\ orders'[k].state = "Refunded"
  BY <1>3, <1>5, <1>6, EndSettles
<1> QED
  BY <1>7 DEF SettlesAsPromised

LEMMA ResolveSettles ==
    ASSUME TypeOK, NEW k \in Keys, NEW by \in Accounts, NEW toBuyer \in Splits,
           FeeCapped(orders[k]), Whole(orders[k]), Resolve(by, k, toBuyer)
    PROVE  SettlesAsPromised(k)
<1> DEFINE o == orders[k]
           t == o.token
           gross == Gross(o)
           fee == ResolvedFee(o, toBuyer)
           toSeller == gross - toBuyer - fee
           freed == SubOwed(money[t], gross)
           buyer == Push(t, freed, Buyer(k), toBuyer)
           seller == Push(t, buyer, o.seller, toSeller)
           paid == Push(t, seller, feeRecipient, fee)
<1>0. Open(k)
  BY DEF Resolve, Open, OpenStates
<1>1. /\ o \in Order /\ t \in Tokens /\ Skim[t] = 0 /\ money[t] \in Money
      /\ gross \in Nat /\ Buyer(k) \in Accounts /\ o.seller \in Holders
      /\ feeRecipient \in Accounts /\ o.merchantFee \in Nat
      /\ toBuyer \in Nat /\ toBuyer <= gross
  BY <1>0, OpenOrder, OpenIsOrder, OrderParties, OrderAssumption DEF Whole, Resolve
<1>2. /\ fee \in 0 .. o.merchantFee /\ fee <= gross - toBuyer
      /\ fee * BPS_DENOMINATOR <= MAX_FEE_BPS * PriceKept(o, toBuyer)
  BY <1>1, SplitBounds
<1>3. freed \in Money
  BY <1>1, SubOwedSurplus DEF Resolve
<1>4. money' = [money EXCEPT ![t] = paid]
  BY DEF Resolve
<1> HIDE DEF fee, gross
<1>5. fee \in Nat /\ toSeller \in Nat
  BY <1>1, <1>2
<1>6. toBuyer + toSeller + fee = gross
  BY <1>1, <1>5
<1> HIDE DEF toSeller
<1>7. buyer \in Money
  BY <1>1, <1>3, PushSurplus DEF Holders
<1>8. seller \in Money
  BY <1>1, <1>5, <1>7, PushSurplus DEF Holders
<1>9. ASSUME NEW a \in Accounts
      PROVE  Held(paid, a) = Held(money[t], a) + PaidOut(k, a, toBuyer, toSeller, fee)
  <2>1. Held(freed, a) = Held(money[t], a) /\ Held(money[t], a) \in Nat
    BY <1>1, SubOwedHeld, HeldType
  <2>2. Held(buyer, a) = Held(freed, a) + IF a = Buyer(k) THEN toBuyer ELSE 0
    BY <1>1, <1>3, PushHeld DEF Holders
  <2>3. Held(seller, a) = Held(buyer, a) + IF a = o.seller THEN toSeller ELSE 0
    BY <1>1, <1>5, <1>7, PushHeld
  <2>4. Held(paid, a) = Held(seller, a) + IF a = feeRecipient THEN fee ELSE 0
    BY <1>1, <1>5, <1>8, PushHeld DEF Holders
  <2> HIDE DEF freed, buyer, seller, paid
  <2> QED
    BY <1>1, <1>5, <2>1, <2>2, <2>3, <2>4 DEF PaidOut, Part
<1> HIDE DEF paid
<1>10. \A a \in Accounts : Held(paid, a) =
           Held(money[t], a) + PaidOut(k, a, toBuyer, toSeller, fee)
  BY <1>9
<1>11. End(by, k, "Resolved") /\ "Resolved" \in FinalStates
  BY DEF Resolve, FinalStates
<1>12. EndsWith(k, toBuyer, toSeller, fee) /\ orders'[k].state = "Resolved"
  BY <1>0, <1>4, <1>10, <1>11, EndSettles
<1>13. toBuyer \in 0 .. gross /\ FairSplit(o, toBuyer, toSeller, fee)
  BY <1>1, <1>2, <1>6 DEF FairSplit, gross
<1> QED
  BY <1>2, <1>12, <1>13 DEF SettlesAsPromised, toSeller, gross

\* A step ends at most the order it is about.
LEMMA OnlyEnding ==
    ASSUME TypeOK, AllCapped, NEW k \in Keys, Open(k), orders'[k].state \in FinalStates,
           [Next]_vars
    PROVE  SettlesAsPromised(k)
<1>0. /\ orders[k] # NoOrder /\ FeeCapped(orders[k]) /\ Whole(orders[k])
      /\ orders[k].state \notin FinalStates
  BY OpenIsOrder DEF AllCapped, Open, OpenStates, FinalStates
<1>1. orders'[k] # orders[k]
  BY <1>0
<1> Callers \subseteq Accounts
  BY BaseAssumption
<1>2. OrderNext
  BY <1>1 DEF Next, vars
<1>3. ASSUME NEW by \in Accounts, NEW j \in Keys,
             ConfirmReceipt(by, j) \/ Cancel(by, j) \/ ClaimTimeout(by, j)
      PROVE  SettlesAsPromised(k)
  <2>1. Release(by, j) \/ Refund(by, j)
    BY <1>3 DEF ConfirmReceipt, Cancel, ClaimTimeout
  <2>2. j = k
    BY <1>1, <2>1 DEF Release, Refund, End, TypeOK
  <2> QED
    BY <1>0, <2>1, <2>2, ReleaseSettles, RefundSettles
<1>4. ASSUME NEW by \in Accounts, NEW j \in Keys, NEW toBuyer \in Splits,
             Resolve(by, j, toBuyer)
      PROVE  SettlesAsPromised(k)
  <2>1. j = k
    BY <1>1, <1>4 DEF Resolve, End, TypeOK
  <2> QED
    BY <1>0, <1>4, <2>1, ResolveSettles
<1>5. ASSUME NEW buyer \in Buyers, NEW id \in OrderIds, NEW s \in Sellers,
             NEW token \in Tokens, NEW product \in ProductAmounts,
             NEW shipping \in ShippingAmounts, NEW days \in HandlingChoices,
             NEW cap \in FlatCaps,
             CreateOrder(buyer, id, s, token, product, shipping, days, cap)
      PROVE  FALSE
  <2>1. <<buyer, id>> # k
    BY <1>0, <1>5 DEF CreateOrder
  <2> QED
    BY <1>1, <1>5, <2>1 DEF CreateOrder, TypeOK
<1>6. ASSUME NEW by \in Accounts, NEW j \in Keys, MarkDelivered(by, j) \/ Dispute(by, j)
      PROVE  FALSE
  <2>1. j = k
    BY <1>1, <1>6 DEF MarkDelivered, Dispute, TypeOK
  <2>2. orders[k] \in Order
    BY <1>0 DEF TypeOK
  <2>3. orders'[k].state \in {"Delivered", "Disputed"}
    BY <1>6, <2>1, <2>2 DEF MarkDelivered, Dispute, TypeOK, Order
  <2> QED
    BY <2>3 DEF FinalStates
<1> QED
  BY <1>2, <1>3, <1>4, <1>5, <1>6 DEF OrderNext

\* Whatever ends an order pays its parties exactly the amount it held, a payee
\* the token refuses included, and leaves every other account as it was; a
\* split charges the seller at most MAX_FEE_BPS of what he keeps of the price.
THEOREM SettlesInFull == Spec => SettlementPaysInFull
<1>1. TypeOK /\ AllCapped /\ [Next]_vars => [SettlementStep]_vars
  BY OnlyEnding DEF SettlementStep, Ended
<1> QED
  BY <1>1, CappedAlways, TypeCorrect, PTL DEF Spec, SettlementPaysInFull

=============================================================================
