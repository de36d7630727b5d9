----------------------------- MODULE OrderEscrow -----------------------------
(***************************************************************************)
(* contracts/core/OrderEscrow.sol: a buyer's payment is held until the     *)
(* order is delivered, then the seller is paid minus the merchant fee.     *)
(*                                                                         *)
(*   Funded -> Delivered -> Disputed, each with a deadline of its own;     *)
(*   Released, Refunded and Resolved are final.                            *)
(*                                                                         *)
(* Every external function is one transaction, hence one action; `by` is   *)
(* _msgSender().  A revert is a guard.  createdAt is only reported, never  *)
(* read, so it is left out.                                                *)
(***************************************************************************)
EXTENDS EscrowBase, Functions

CONSTANTS
    Buyers, Sellers, Resolvers,
    OrderIds,
    ProductAmounts, ShippingAmounts, HandlingChoices, FlatCaps,
    Splits,             \* what resolvers may award the buyer
    FEATURE,            \* the FeeConfig key of orders
    Day, CONFIRM_WINDOW, DISPUTE_BACKSTOP,
    MIN_HANDLING_DAYS, MAX_HANDLING_DAYS,
    MaxUint96,          \* the widest merchant fee an order can record
    LastOpen            \* bound: no order is created after this time

VARIABLES orders        \* orders[<<buyer, orderId>>]

vars == <<orders, money, paused, now, rates, limits, feeRecipient>>

MAX_FEE_BPS == 300

\* orderKey: an id belongs to its buyer, so nobody can take it before them.
Keys == Buyers \X OrderIds
Buyer(k) == k[1]

OpenStates  == {"Funded", "Delivered", "Disputed"}
FinalStates == {"Released", "Refunded", "Resolved"}

NoOne == "no one"
NoOrder == [state |-> "None"]

\* endedBy is who sent the call that ended the order (the contract reports it
\* to the chain's log, not to its storage).  A deadline not set yet is 0.
\* The fee is a uint96; an order without a price is refused.
Order == [state : OpenStates \cup FinalStates, seller : Holders, token : Tokens,
          merchantFee : 0 .. MaxUint96, product : Nat \ {0}, shipping : Nat,
          deliverBy : Nat, confirmBy : Nat, resolveBy : Nat,
          endedBy : Accounts \cup {NoOne}]

\* An order id has 256 bits, so a buyer has finitely many.
ASSUME OrderAssumption ==
    /\ IsFiniteSet(OrderIds)
    /\ Buyers \subseteq Accounts
    /\ Resolvers \subseteq Accounts
    /\ Sellers \subseteq Holders
    /\ ProductAmounts \subseteq Nat /\ ShippingAmounts \subseteq Nat
    /\ HandlingChoices \subseteq Nat /\ FlatCaps \subseteq Nat /\ Splits \subseteq Nat
    /\ FEATURE \in Features
    /\ {Day, CONFIRM_WINDOW, DISPUTE_BACKSTOP} \subseteq Nat \ {0}
    /\ {MIN_HANDLING_DAYS, MAX_HANDLING_DAYS} \subseteq Nat \ {0}
    /\ MaxUint96 \in Nat /\ LastOpen \in Nat

Open(k)  == orders[k].state \in OpenStates
Ended(k) == orders[k].state \in FinalStates

Gross(o) == o.product + o.shipping

\* A deadline counts as met on its last second (_requirePassed and the checks
\* of markDelivered and dispute are each other's complement).
InTimeAlways(deadline)   == TRUE
InTime(deadline)         == now <= deadline
PassedAtOnce(deadline)   == now >= deadline
PassedUnpaused(deadline) == ~paused /\ now > deadline
Passed(deadline)         == now > deadline

-----------------------------------------------------------------------------

OrderRate(token) == rates[<<FEATURE, token>>]

\* Mutant: the fee is cast to 96 bits unchecked and no cap is read.
PricedUnchecked(token, product, shipping, maxFlatFee) ==
    /\ RateConfigured(FEATURE, token)
    /\ LimitsConfigured(token)
    /\ product + shipping <= limits[token].maxPerOrder
    /\ WithinOwedLimit(money[token], product + shipping, limits[token].maxOwed)

\* _priceAndReserve, its checks in one place.
Priced(token, product, shipping, maxFlatFee) ==
    /\ RateConfigured(FEATURE, token)
    /\ OrderRate(token).bps <= MAX_FEE_BPS
    /\ OrderRate(token).flatFee <= maxFlatFee
    /\ LimitsConfigured(token)
    /\ product + shipping <= limits[token].maxPerOrder
    /\ BpsOf(product, OrderRate(token).bps) <= MaxUint96
    /\ WithinOwedLimit(money[token], product + shipping, limits[token].maxOwed)

CreateOrder(buyer, id, seller, token, product, shipping, handlingDays, maxFlatFee) ==
    LET k     == <<buyer, id>>
        flat  == OrderRate(token).flatFee
        gross == product + shipping
        reserved == AddOwed(money[token], gross)
    IN  /\ ~paused
        /\ orders[k] = NoOrder
        /\ seller # buyer
        /\ product # 0
        /\ handlingDays \in MIN_HANDLING_DAYS .. MAX_HANDLING_DAYS
        /\ Priced(token, product, shipping, maxFlatFee)
        /\ CanPull(token, reserved, buyer, gross + flat)
        /\ orders' = [orders EXCEPT ![k] =
              [state |-> "Funded", seller |-> seller, token |-> token,
               merchantFee |-> BpsOf(product, OrderRate(token).bps),
               product |-> product, shipping |-> shipping,
               deliverBy |-> now + handlingDays * Day,
               confirmBy |-> 0, resolveBy |-> 0, endedBy |-> NoOne]]
        /\ money' = [money EXCEPT ![token] =
              Push(token, Pull(token, reserved, buyer, gross + flat), feeRecipient, flat)]
        /\ UNCHANGED paused

\* After deliverBy the refund is due: a late mark, which would restart the
\* clock, is refused.
MarkDelivered(by, k) ==
    /\ orders[k].state = "Funded"
    /\ by = orders[k].seller
    /\ InTime(orders[k].deliverBy)
    /\ orders' = [orders EXCEPT ![k].state = "Delivered",
                                ![k].confirmBy = now + CONFIRM_WINDOW]
    /\ UNCHANGED <<money, paused>>

Dispute(by, k) ==
    /\ orders[k].state = "Delivered"
    /\ by = Buyer(k)
    /\ InTime(orders[k].confirmBy)
    /\ orders' = [orders EXCEPT ![k].state = "Disputed",
                                ![k].resolveBy = now + DISPUTE_BACKSTOP]
    /\ UNCHANGED <<money, paused>>

-----------------------------------------------------------------------------
(* The endings.  Each takes the whole of the order's amount out of owed     *)
(* before it pays anyone.                                                   *)

End(by, k, state) ==
    orders' = [orders EXCEPT ![k].state = state, ![k].endedBy = by]

\* Mutant: the fee is worked out again from the rate of the day.
ReleaseAtTodaysRate(by, k) ==
    LET o == orders[k]
        t == o.token
        fee == BpsOf(o.product, OrderRate(t).bps)
        seller == Push(t, SubOwed(money[t], Gross(o)), o.seller, Gross(o) - fee)
    IN  /\ End(by, k, "Released")
        /\ money' = [money EXCEPT ![t] = Push(t, seller, feeRecipient, fee)]
        /\ UNCHANGED paused

\* _release: the merchant fee recorded at creation goes to today's recipient.
Release(by, k) ==
    LET o == orders[k]
        t == o.token
        freed  == SubOwed(money[t], Gross(o))
        seller == Push(t, freed, o.seller, Gross(o) - o.merchantFee)
    IN  /\ CanSubOwed(money[t], Gross(o))
        /\ o.merchantFee <= Gross(o)
        /\ End(by, k, "Released")
        /\ money' = [money EXCEPT ![t] = Push(t, seller, feeRecipient, o.merchantFee)]
        /\ UNCHANGED paused

\* _refund: the buyer gets all of it back.
Refund(by, k) ==
    LET o == orders[k]
        t == o.token
    IN  /\ CanSubOwed(money[t], Gross(o))
        /\ End(by, k, "Refunded")
        /\ money' = [money EXCEPT ![t] =
                        Push(t, SubOwed(@, Gross(o)), Buyer(k), Gross(o))]
        /\ UNCHANGED paused

ConfirmReceipt(by, k) ==
    /\ orders[k].state \in {"Funded", "Delivered"}
    /\ by = Buyer(k)
    /\ Release(by, k)

Cancel(by, k) ==
    /\ orders[k].state = "Funded"
    /\ by = orders[k].seller
    /\ Refund(by, k)

\* Anyone settles an order whose window has passed.
ClaimTimeout(by, k) ==
    \/ orders[k].state = "Funded"    /\ Passed(orders[k].deliverBy) /\ Refund(by, k)
    \/ orders[k].state = "Delivered" /\ Passed(orders[k].confirmBy) /\ Release(by, k)
    \/ orders[k].state = "Disputed"  /\ Passed(orders[k].resolveBy) /\ Refund(by, k)

\* The buyer's share comes out of the shipping first; the fee is pro rata on
\* the part of the price the seller keeps.
FromProduct(o, toBuyer) == IF toBuyer > o.shipping THEN toBuyer - o.shipping ELSE 0
FeeNotProRata(o, toBuyer) == o.merchantFee
ResolvedFee(o, toBuyer) ==
    (o.merchantFee * (o.product - FromProduct(o, toBuyer))) \div o.product

\* Checked arithmetic: the seller's part less the fee must not go below 0.
SplitPayable(o, toBuyer) == ResolvedFee(o, toBuyer) <= Gross(o) - toBuyer

Resolve(by, k, toBuyer) ==
    LET o == orders[k]
        t == o.token
        fee    == ResolvedFee(o, toBuyer)
        freed  == SubOwed(money[t], Gross(o))
        buyer  == Push(t, freed, Buyer(k), toBuyer)
        seller == Push(t, buyer, o.seller, Gross(o) - toBuyer - fee)
    IN  /\ by \in Resolvers
        /\ o.state = "Disputed"
        /\ toBuyer <= Gross(o)
        /\ CanSubOwed(money[t], Gross(o))
        /\ SplitPayable(o, toBuyer)
        /\ End(by, k, "Resolved")
        /\ money' = [money EXCEPT ![t] = Push(t, seller, feeRecipient, fee)]
        /\ UNCHANGED paused

-----------------------------------------------------------------------------

Init ==
    /\ orders = [k \in Keys |-> NoOrder]
    /\ BaseInit
    /\ ConfigInit

OrderNext ==
    \/ /\ now <= LastOpen
       /\ \E buyer \in Buyers, id \in OrderIds, seller \in Sellers, token \in Tokens,
             product \in ProductAmounts, shipping \in ShippingAmounts,
             days \in HandlingChoices, cap \in FlatCaps :
             CreateOrder(buyer, id, seller, token, product, shipping, days, cap)
    \/ \E by \in Accounts, k \in Keys :
          \/ MarkDelivered(by, k)
          \/ ConfirmReceipt(by, k)
          \/ Cancel(by, k)
          \/ Dispute(by, k)
    \/ \E by \in Callers, k \in Keys : ClaimTimeout(by, k)
    \/ \E by \in Accounts, k \in Keys, toBuyer \in Splits : Resolve(by, k, toBuyer)

Next ==
    \/ OrderNext /\ UNCHANGED <<now, configVars>>
    \/ BaseNext /\ UNCHANGED <<orders, configVars>>
    \/ Tick /\ UNCHANGED <<orders, configVars>>
    \/ ConfigNext /\ UNCHANGED <<orders, baseVars>>

Spec == Init /\ [][Next]_vars

\* Time passes, and whoever wants an overdue order settled gets a transaction
\* in (the backend's sweep does it for every order: order_timeout.go).
TimedOut(k) == \E by \in Callers : ClaimTimeout(by, k)
Fairness ==
    /\ WF_vars(Tick /\ UNCHANGED <<orders, configVars>>)
    /\ \A k \in Keys : WF_vars(TimedOut(k) /\ UNCHANGED <<now, configVars>>)

FairSpec == Spec /\ Fairness

-----------------------------------------------------------------------------
(* What the escrow promises. *)

\* Every variable holds a value its storage slot could hold.
TypeOK ==
    /\ BaseTypeOK
    /\ ConfigTypeOK
    /\ orders \in [Keys -> Order \cup {NoOrder}]

HeldFor(t) ==
    LET amount[k \in Keys] ==
          IF Open(k) /\ orders[k].token = t THEN Gross(orders[k]) ELSE 0
    IN  FoldFunction(+, 0, amount)

Unclaimed(t) == FoldFunction(+, 0, money[t].claimable)

\* owed is exactly what the open orders can still pay out plus the payouts
\* that could not be delivered: no ending, in whatever order the orders end
\* and whoever is blacklisted by then, loses or doubles an obligation.
OwedIsExact == \A t \in Tokens : money[t].owed = HeldFor(t) + Unclaimed(t)

\* An account's money in and out of its wallet: what it holds, and what it
\* may collect.
Wealth(t, a) == money[t].bal[a] + money[t].claimable[a]

Part(a, payee, amount) == IF a = payee THEN amount ELSE 0

\* The shares an order's funds may end in.
PaidOut(k, a, toBuyer, toSeller, fee) ==
    Part(a, Buyer(k), toBuyer) + Part(a, orders[k].seller, toSeller)
        + Part(a, feeRecipient, fee)

EndsWith(k, toBuyer, toSeller, fee) ==
    \A a \in Accounts : Wealth(orders[k].token, a)' =
        Wealth(orders[k].token, a) + PaidOut(k, a, toBuyer, toSeller, fee)

\* A resolver's split: it adds up, and the fee is at most MAX_FEE_BPS of the
\* part of the price the seller keeps.
PriceKept(o, toBuyer) ==
    IF Gross(o) - toBuyer < o.product THEN Gross(o) - toBuyer ELSE o.product
FairSplit(o, toBuyer, toSeller, fee) ==
    /\ toBuyer + toSeller + fee = Gross(o)
    /\ fee * BPS_DENOMINATOR <= MAX_FEE_BPS * PriceKept(o, toBuyer)

SettlesAsPromised(k) ==
    LET o     == orders[k]
        state == orders'[k].state
    IN  /\ state = "Released" => EndsWith(k, 0, Gross(o) - o.merchantFee, o.merchantFee)
        /\ state = "Refunded" => EndsWith(k, Gross(o), 0, 0)
        /\ state = "Resolved" =>
               \E toBuyer \in 0 .. Gross(o), fee \in 0 .. o.merchantFee :
                  LET toSeller == Gross(o) - toBuyer - fee
                  IN  /\ FairSplit(o, toBuyer, toSeller, fee)
                      /\ EndsWith(k, toBuyer, toSeller, fee)

\* The step that ends an order makes its parties richer by exactly what the
\* order held, blacklisted or not, even when one account is two of them, and
\* moves nobody else's money.
SettlementStep ==
    \A k \in Keys : Open(k) /\ (Ended(k))' => SettlesAsPromised(k)
SettlementPaysInFull == [][SettlementStep]_vars

\* Terms are fixed at creation; a final state is final; a deadline, once set,
\* does not move, whatever the configuration does meanwhile.
Terms(o) == <<o.seller, o.token, o.merchantFee, o.product, o.shipping, o.deliverBy>>
TermsKept(k) ==
    /\ orders[k] # NoOrder => orders'[k] # NoOrder /\ Terms(orders'[k]) = Terms(orders[k])
    /\ orders[k] # NoOrder /\ orders[k].confirmBy # 0 =>
           orders'[k].confirmBy = orders[k].confirmBy
    /\ Ended(k) => orders'[k] = orders[k]
NothingIsReopened == [][\A k \in Keys : TermsKept(k)]_vars

\* Why an order may end: the seller is paid because the buyer confirmed or let
\* the confirm window pass, the buyer is refunded because the seller cancelled
\* or a deadline that was never met has passed, and only a resolver splits.
EndJustified(o, buyer) ==
    /\ o.state = "Released" =>
           o.endedBy = buyer \/ (o.confirmBy # 0 /\ o.resolveBy = 0 /\ o.confirmBy < now)
    /\ o.state = "Refunded" =>
           \/ o.confirmBy = 0 /\ (o.endedBy = o.seller \/ o.deliverBy < now)
           \/ o.resolveBy # 0 /\ o.resolveBy < now
    /\ o.state = "Resolved" => o.resolveBy # 0 /\ o.endedBy \in Resolvers

EndsAreJustified == \A k \in Keys : Ended(k) => EndJustified(orders[k], Buyer(k))

\* No party can stretch the escrow's clock: each deadline starts inside the
\* window before it, so the last one is known when the order is created.
ClockIsBounded ==
    \A k \in Keys : LET o == orders[k] IN o # NoOrder =>
        /\ o.confirmBy <= o.deliverBy + CONFIRM_WINDOW
        /\ o.resolveBy <= o.confirmBy + DISPUTE_BACKSTOP
        /\ o.state = "Delivered" => o.confirmBy # 0
        /\ o.state = "Disputed"  => o.confirmBy # 0 /\ o.resolveBy # 0

\* No exit reverts on arithmetic: whatever is open can be taken out of owed,
\* and every split a resolver can choose is payable.
ExitsPayable ==
    \A k \in Keys : Open(k) =>
        /\ CanSubOwed(money[orders[k].token], Gross(orders[k]))
        /\ orders[k].merchantFee <= Gross(orders[k])
        /\ \A toBuyer \in 0 .. Gross(orders[k]) : SplitPayable(orders[k], toBuyer)

\* Every open order ends although no admin, buyer or seller ever acts, with
\* the escrow paused and its parties blacklisted or not.
EveryOrderEnds == \A k \in Keys : Open(k) ~> Ended(k)

=============================================================================
