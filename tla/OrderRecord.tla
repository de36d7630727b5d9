----------------------------- MODULE OrderRecord -----------------------------
(***************************************************************************)
(* The backend's record of one escrowed order: the row in the orders       *)
(* table, the HTTP handlers that write it (handlers/checkout_handler.go),  *)
(* the unpaid-order expiry (services/unpaid_order_expiry.go) and the       *)
(* deadline sweep (services/order_timeout.go), next to the order on the    *)
(* chain, which nobody has to tell the backend about.                      *)
(*                                                                         *)
(* A handler reads the row, often asks a node about the chain, and writes  *)
(* the row: two or three steps, with anything in between.  It can give up  *)
(* after any of them (the node cannot be read, the process stops).  A      *)
(* write whose UPDATE repeats a condition on the status is checked again   *)
(* when it lands; the others write what they decided on the row they read. *)
(***************************************************************************)
EXTENDS OrderLife, Naturals, FiniteSets

CONSTANTS
    Kind,           \* "product" or "service": services ship nothing, hold no stock
    Ops,            \* the handlers that are called
    Requests,       \* bound: how many calls are in flight at once
    SlowPayers      \* may a buyer pay more than UnpaidOrderTTL after preparing?

VARIABLES
    outcome,        \* what the last event on the chain says beyond the state
    row,            \* the orders row
    idle,           \* no payment activity on the row for UnpaidOrderTTL
    prepared,       \* the buyer holds a createOrder transaction to sign
    restored,       \* how often the stock came back (2: more than once)
    claim,          \* the sweep's own claimTimeout transaction
    calls,          \* calls[r]: the handler call in flight
    sweep           \* where the deadline sweep is

dbVars == <<row, idle, restored>>
chainVars == <<state, clock, outcome, claim, prepared>>
vars == <<state, clock, outcome, claim, prepared, row, idle, restored, calls, sweep>>

OrderOpenStatuses ==
    {"escrowed", "shipped", "delivered", "refund_requested", "cancel_requested"}
ClosedStatuses == {"completed", "refunded", "cancelled"}
Statuses == {"pending_payment"} \cup OrderOpenStatuses \cup ClosedStatuses

\* ValidNextStatusesForKind.
ProductNext == [s \in Statuses |->
    CASE s = "pending_payment"  -> {"escrowed", "cancelled"}
      [] s = "escrowed" -> {"shipped", "delivered", "refunded", "cancelled", "cancel_requested"}
      [] s = "shipped"          -> {"delivered", "refund_requested", "refunded"}
      [] s = "delivered"        -> {"completed", "refund_requested"}
      [] s = "refund_requested" -> {"refunded", "delivered", "completed"}
      [] s = "cancel_requested" -> {"cancelled", "escrowed", "refunded"}
      [] OTHER -> {}]
ServiceNext == [ProductNext EXCEPT !["escrowed"] =
    {"delivered", "completed", "refunded", "cancelled", "cancel_requested"},
    !["shipped"] = {}]
ValidNext(s) == IF Kind = "service" THEN ServiceNext[s] ELSE ProductNext[s]

\* release_tx_hash: "proof" stands for a transaction whose event for this
\* order was verified before it was written, "claim" for the sweep's own.
Row == [status : Statuses, disputed : BOOLEAN, shipped : BOOLEAN, delivered : BOOLEAN,
        confirmBy : BOOLEAN, resolveBy : BOOLEAN, hash : {"none", "proof", "claim"}]
PlacedOrder ==
    [status |-> "pending_payment", disputed |-> FALSE, shipped |-> FALSE, delivered |-> FALSE,
     confirmBy |-> FALSE, resolveBy |-> FALSE, hash |-> "none"]

\* A call remembers what it read of the row, what it means to write, and the
\* state the node answered with, if it asked.
AllOps == {"PrepareEscrow", "SubmitEscrow", "Expire", "CancelOrder", "CancelAsTreasury", "MarkShipped",
           "MarkDelivered", "RejectRefund", "SubmitConfirm", "SubmitRefund", "SubmitResolve",
           "Dismiss", "RequestCancel", "SubmitCancel", "RejectCancel", "RaiseDispute"}

ASSUME RecordAssumption ==
    /\ Kind \in {"product", "service"}
    /\ Ops \subseteq AllOps
    /\ SlowPayers \in BOOLEAN

NoCall == [op |-> "none"]
Call == [op : AllOps, from : Statuses, disputed : BOOLEAN, to : Statuses,
         saw : {"unread", "None"} \cup OpenStates \cup FinalStates]

NoSweep == [at |-> "idle"]
Sweep == [at : {"picked", "due", "sent"}, hash : {"none", "proof", "claim"}]
            \cup [at : {"settled", "recording"}, hash : {"none", "proof", "claim"}, saw : FinalStates]

TypeOK ==
    /\ LifeTypeOK
    /\ outcome \in {"none", "cancelled", "timeout", "to the buyer", "split"}
    /\ row \in Row /\ idle \in BOOLEAN /\ prepared \in BOOLEAN /\ restored \in 0 .. 2
    /\ claim \in {"none", "sent", "settled", "reverted"}
    /\ calls \in [Requests -> Call \cup {NoCall}]
    /\ sweep \in Sweep \cup {NoSweep}

-----------------------------------------------------------------------------
(* The chain.  The parties send their transactions whenever they like.      *)

\* The buyer signs createOrder, which PrepareEscrow built for them.
FundOrder ==
    /\ prepared
    /\ Create /\ UNCHANGED <<outcome, claim>>

Progress == (Deliver \/ RaiseOnChain \/ Confirm) /\ UNCHANGED <<outcome, claim>>
Cancelled == SellerCancel /\ outcome' = "cancelled" /\ UNCHANGED claim
ClaimedByOthers == Timeout /\ outcome' = "timeout" /\ UNCHANGED claim
Resolved ==
    /\ Decide
    /\ outcome' \in {"to the buyer", "split"}
    /\ UNCHANGED claim

\* The sweep's claim is mined: it settles the order, or comes too late.
ClaimMined ==
    /\ claim = "sent"
    /\ \/ Timeout /\ outcome' = "timeout" /\ claim' = "settled"
       \/ ~TimeoutDue /\ claim' = "reverted" /\ UNCHANGED <<state, clock, outcome>>

ChainNext ==
    /\ \/ FundOrder \/ Progress \/ Cancelled \/ ClaimedByOthers \/ Resolved \/ ClaimMined
       \/ TimePasses /\ UNCHANGED <<outcome, claim>>
    /\ UNCHANGED <<prepared, dbVars, calls, sweep>>

\* The events VerifyOrderEvent finds in a receipt, once and for ever.
HasEvent(event) ==
    \/ event = "OrderCreated"   /\ state # "None"
    \/ event = "OrderDelivered" /\ clock["confirm"] # "unset"
    \/ event = "OrderDisputed"  /\ clock["resolve"] # "unset"
    \/ event = "OrderReleased"  /\ state = "Released"
    \/ event = "OrderRefunded"  /\ state = "Refunded"
    \/ event = "OrderResolved"  /\ state = "Resolved"

\* Mutant: any refund passes for the seller's cancel.
RefundedSomehow == HasEvent("OrderRefunded")
SellerCancelled == HasEvent("OrderRefunded") /\ outcome = "cancelled"

-----------------------------------------------------------------------------
(* Writing the row. *)

Idle(r) == calls[r] = NoCall
Return(r) == calls' = [calls EXCEPT ![r] = NoCall]

\* RestoreOrderStock; the counter stops at 2.
Restock == restored' = IF Kind = "service" \/ restored = 2 THEN restored ELSE restored + 1

\* Mutants: the order is moved whatever its status is by now; a status an
\* escrowed order can have is forgotten.
IsOpenUnchecked == TRUE
IsOpenButDisputed == row.status \in OrderOpenStatuses \ {"refund_requested"}
IsOpen == row.status \in OrderOpenStatuses

NewHash(hash) == IF hash = "none" THEN row.hash ELSE hash

\* Mutants: the escrow's state is stored as a status; the stock is forgotten.
RecordReleasedAsState(hash) ==
    /\ row' = IF IsOpen THEN [row EXCEPT !.status = state, !.hash = NewHash(hash)] ELSE row
    /\ UNCHANGED <<idle, restored>>
RecordRefundedOnly(hash) ==
    /\ row' = IF IsOpen THEN [row EXCEPT !.status = "refunded", !.hash = NewHash(hash)] ELSE row
    /\ UNCHANGED <<idle, restored>>

\* recordReleased and recordRefunded: conditional on an open status.
RecordReleased(hash) ==
    /\ row' = IF IsOpen THEN [row EXCEPT !.status = "completed", !.hash = NewHash(hash)] ELSE row
    /\ UNCHANGED <<idle, restored>>

RecordRefunded(hash) ==
    /\ UNCHANGED idle
    /\ IF IsOpen
       THEN row' = [row EXCEPT !.status = "refunded", !.hash = NewHash(hash)] /\ Restock
       ELSE UNCHANGED <<row, restored>>

\* MarkOrderEscrowed: conditional on pending_payment.
MarkOrderEscrowed ==
    /\ row' = IF row.status = "pending_payment" THEN [row EXCEPT !.status = "escrowed"] ELSE row
    /\ UNCHANGED <<idle, restored>>

\* cancelPending: conditional on pending_payment.
CancelPending(stillIdle) ==
    /\ UNCHANGED idle
    /\ IF row.status = "pending_payment" /\ stillIdle
       THEN row' = [row EXCEPT !.status = "cancelled"] /\ Restock
       ELSE UNCHANGED <<row, restored>>

\* finishSellerCancel: conditional on the status the request read.
FinishSellerCancel(c) ==
    /\ UNCHANGED idle
    /\ IF row.status = c.from
       THEN row' = [row EXCEPT !.status = "cancelled", !.hash = "proof"] /\ Restock
       ELSE UNCHANGED <<row, restored>>

\* Updates on the row alone: no condition on what it holds by now.
Overwrite(newRow) == row' = newRow /\ UNCHANGED <<idle, restored>>

-----------------------------------------------------------------------------
(* A call starts: the handler reads the row and checks it. *)

\* Where DismissRequest puts an order whose request it dismisses: back to the
\* phase the row last recorded.
PhaseOfRow ==
    IF row.delivered THEN "delivered" ELSE IF row.shipped THEN "shipped" ELSE "escrowed"
Reverted == [s \in Statuses |->
    IF s = "refund_requested" THEN PhaseOfRow
    ELSE IF s = "cancel_requested" THEN "escrowed" ELSE s]

\* The checks each handler makes on the row it read. MarkDelivered also admits a
\* delivered order, whose call then writes nothing: the same as one that fails.
MayPay == "escrowed" \in ValidNext(row.status)
MayExpire == row.status = "pending_payment" /\ idle
MayCancelUnpaid == row.status = "pending_payment" /\ ~row.disputed
MayCancelPaid == row.status \in {"escrowed", "cancel_requested"} /\ ~row.disputed
MayShip == Kind = "product" /\ ~row.disputed /\ "shipped" \in ValidNext(row.status)
MayDeliver == ~row.disputed /\ "delivered" \in ValidNext(row.status)
MayRejectRefund == row.status = "refund_requested" /\ ~row.disputed
MayConfirm == ~row.disputed /\ "completed" \in ValidNext(row.status)
MayRefund == row.status \in {"escrowed", "delivered"}
MayJudge == row.disputed \/ row.status \in {"refund_requested", "cancel_requested"}
MayRequestCancel == row.status = "escrowed" /\ ~row.disputed
MayAnswerCancel == row.status = "cancel_requested" /\ ~row.disputed
MayRaiseDispute == ~row.disputed /\ row.status \in OrderOpenStatuses

\* Each route and the check its handler starts with.
Admits(op) ==
    \/ op \in {"PrepareEscrow", "SubmitEscrow"} /\ MayPay
    \/ op = "Expire" /\ MayExpire
    \/ op = "CancelOrder" /\ MayCancelUnpaid
    \/ op = "CancelAsTreasury" /\ MayCancelPaid
    \/ op = "MarkShipped" /\ MayShip
    \/ op = "MarkDelivered" /\ MayDeliver
    \/ op = "RejectRefund" /\ MayRejectRefund
    \/ op = "SubmitConfirm" /\ MayConfirm
    \/ op = "SubmitRefund" /\ MayRefund
    \/ op \in {"SubmitResolve", "Dismiss"} /\ MayJudge
    \/ op = "RequestCancel" /\ MayRequestCancel
    \/ op \in {"SubmitCancel", "RejectCancel"} /\ MayAnswerCancel
    \/ op = "RaiseDispute" /\ MayRaiseDispute

Begin(r, op) ==
    /\ Idle(r) /\ Admits(op)
    /\ calls' = [calls EXCEPT ![r] =
          [op |-> op, from |-> row.status, disputed |-> row.disputed,
           to |-> IF op = "Dismiss" THEN Reverted[row.status] ELSE row.status, saw |-> "unread"]]
    \* Reporting a payment is payment activity (TouchUnpaidOrder).
    /\ idle' = (idle /\ ~(op = "SubmitEscrow" /\ row.status = "pending_payment"))
    /\ UNCHANGED <<chainVars, row, restored, sweep>>

\* ReadOrder, for the handlers that decide on the state the escrow is in;
\* DismissRequest asks only for a dispute or a refund request.
AsksTheChain(c) ==
    \/ c.op \in {"SubmitEscrow", "Expire"}
    \/ c.op = "Dismiss" /\ (c.disputed \/ c.from = "refund_requested")

ReadChain(r) ==
    /\ ~Idle(r) /\ AsksTheChain(calls[r]) /\ calls[r].saw = "unread"
    /\ calls' = [calls EXCEPT ![r].saw = state]
    /\ UNCHANGED <<chainVars, dbVars, sweep>>

\* The handler fails: an error answer, or the process stops.
GiveUp(r) ==
    /\ ~Idle(r)
    /\ Return(r)
    /\ UNCHANGED <<chainVars, dbVars, sweep>>

-----------------------------------------------------------------------------
(* A call ends: the handler verifies what it was told and writes the row.   *)

\* getOrderForEscrow: the touch is conditional on pending_payment, and whether
\* it touched anything is not looked at.
PrepareEscrow(c) ==
    /\ prepared' = TRUE
    /\ idle' = (idle /\ row.status # "pending_payment")
    /\ UNCHANGED <<row, restored>>

SubmitEscrow(c) ==
    /\ HasEvent("OrderCreated") /\ c.saw \in OpenStates
    /\ MarkOrderEscrowed

\* Mutant: the UPDATE does not repeat that nobody is paying.
ExpireAnyway(c) ==
    \/ c.saw = "None" /\ CancelPending(TRUE)
    \/ c.saw \in OpenStates /\ MarkOrderEscrowed

\* The unpaid-order expiry (settle and reconcilePaid).
Expire(c) ==
    \/ c.saw = "None" /\ CancelPending(idle)
    \/ c.saw \in OpenStates /\ MarkOrderEscrowed

CancelOrder(c) == CancelPending(TRUE)

CancelAsTreasury(c) == SellerCancelled /\ FinishSellerCancel(c)
SubmitCancel(c)     == SellerCancelled /\ FinishSellerCancel(c)

MarkShipped(c) == Overwrite([row EXCEPT !.status = "shipped", !.shipped = TRUE])

\* Mutant: the seller's word is taken for the transaction.
MarkDeliveredUnproven(c) ==
    Overwrite([row EXCEPT !.status = "delivered", !.delivered = TRUE])

\* The confirm deadline is copied if the escrow can be read back.
MarkDelivered(c) ==
    /\ HasEvent("OrderDelivered")
    /\ \E copied \in {row.confirmBy, TRUE} :
          Overwrite([row EXCEPT !.status = "delivered", !.delivered = TRUE, !.confirmBy = copied])

RejectRefund(c)  == Overwrite([row EXCEPT !.status = "delivered"])
RequestCancel(c) == Overwrite([row EXCEPT !.status = "cancel_requested"])
RejectCancel(c)  == Overwrite([row EXCEPT !.status = "escrowed"])
RaiseDispute(c)  == Overwrite([row EXCEPT !.disputed = TRUE])

MayDismiss(c) == AsksTheChain(c) => c.saw \notin {"unread", "None", "Disputed"}

Dismiss(c) ==
    /\ MayDismiss(c)
    /\ Overwrite([row EXCEPT !.status = IF c.to = c.from THEN row.status ELSE c.to,
                             !.disputed = row.disputed /\ ~c.disputed])

SubmitConfirm(c) == HasEvent("OrderReleased") /\ RecordReleased("proof")

SubmitRefund(c) ==
    \/ /\ HasEvent("OrderDisputed")
       /\ Overwrite(IF row.status \in {"escrowed", "delivered"}
                    THEN [row EXCEPT !.status = "refund_requested", !.disputed = TRUE,
                                     !.resolveBy = TRUE]
                    ELSE row)
    \/ HasEvent("OrderRefunded") /\ RecordRefunded("proof")

\* SubmitAdminResolve records the chain's own split, not the request's.
SubmitResolve(c) ==
    /\ HasEvent("OrderResolved")
    /\ row' = [row EXCEPT !.status = IF outcome = "to the buyer" THEN "refunded" ELSE "completed",
                          !.hash = "proof", !.disputed = row.disputed /\ ~c.disputed]
    /\ IF outcome = "to the buyer" THEN Restock ELSE UNCHANGED restored
    /\ UNCHANGED idle

\* Each route and what its handler does with the row.
Ending(c) ==
    \/ c.op = "PrepareEscrow" /\ PrepareEscrow(c)
    \/ c.op = "SubmitEscrow" /\ SubmitEscrow(c)
    \/ c.op = "Expire" /\ Expire(c)
    \/ c.op = "CancelOrder" /\ CancelOrder(c)
    \/ c.op = "CancelAsTreasury" /\ CancelAsTreasury(c)
    \/ c.op = "MarkShipped" /\ MarkShipped(c)
    \/ c.op = "MarkDelivered" /\ MarkDelivered(c)
    \/ c.op = "RejectRefund" /\ RejectRefund(c)
    \/ c.op = "SubmitConfirm" /\ SubmitConfirm(c)
    \/ c.op = "SubmitRefund" /\ SubmitRefund(c)
    \/ c.op = "SubmitResolve" /\ SubmitResolve(c)
    \/ c.op = "Dismiss" /\ Dismiss(c)
    \/ c.op = "RequestCancel" /\ RequestCancel(c)
    \/ c.op = "SubmitCancel" /\ SubmitCancel(c)
    \/ c.op = "RejectCancel" /\ RejectCancel(c)
    \/ c.op = "RaiseDispute" /\ RaiseDispute(c)

Finish(r) ==
    /\ ~Idle(r)
    /\ Ending(calls[r])
    /\ calls[r].op # "PrepareEscrow" => UNCHANGED prepared
    /\ Return(r)
    /\ UNCHANGED <<state, clock, outcome, claim, sweep>>

-----------------------------------------------------------------------------
(* The payment clock of an unpaid order (orders.updated_at). *)

\* The expiry compares with a cutoff fixed when it started, so an order
\* touched since then stays too young for it.  Once the order is paid and
\* recorded nobody looks at this clock.
HourPasses ==
    /\ ~idle
    /\ state = "None" \/ row.status = "pending_payment"
    /\ \A r \in Requests : calls[r].op # "Expire"
    /\ idle' = TRUE
    /\ prepared' = (prepared /\ SlowPayers)
    /\ UNCHANGED <<state, clock, outcome, claim, row, restored, calls, sweep>>

-----------------------------------------------------------------------------
(* The deadline sweep.  Ticks of one worker never overlap (jobs/scheduler.go).*)

\* The latest deadline the row has recorded has passed.
RecordedDeadline ==
    IF row.resolveBy THEN "resolve" ELSE IF row.confirmBy THEN "confirm" ELSE "deliver"

SweepPick ==
    /\ sweep = NoSweep
    /\ IsOpen /\ Passed(RecordedDeadline)
    /\ sweep' = [at |-> "picked", hash |-> row.hash]
    /\ UNCHANGED <<chainVars, dbVars, calls>>

\* syncDeadlines.
SyncDeadlines ==
    row' = [row EXCEPT !.confirmBy = @ \/ clock["confirm"] # "unset",
                       !.resolveBy = @ \/ clock["resolve"] # "unset"]

SweepRead ==
    /\ sweep.at = "picked"
    /\ \/ /\ state \in FinalStates
          /\ sweep' = [at |-> "settled", hash |-> sweep.hash, saw |-> state]
          /\ UNCHANGED row
       \/ /\ state \in OpenStates
          /\ SyncDeadlines
          /\ sweep' = IF TimeoutDue THEN [at |-> "due", hash |-> sweep.hash] ELSE NoSweep
    /\ UNCHANGED <<chainVars, idle, restored, calls>>

\* claimTimeout, signed with the release key.  A retry is answered with the
\* transaction it sent the first time.
SweepSend ==
    /\ sweep.at = "due"
    /\ claim' = IF claim = "none" THEN "sent" ELSE claim
    /\ sweep' = [sweep EXCEPT !.at = "sent"]
    /\ UNCHANGED <<state, clock, outcome, prepared, dbVars, calls>>

SweepNote ==
    /\ sweep.at = "sent"
    /\ row' = IF row.hash = "none" THEN [row EXCEPT !.hash = "claim"] ELSE row
    /\ sweep' = NoSweep
    /\ UNCHANGED <<chainVars, idle, restored, calls>>

\* dropUnprovenClaimHash: only a receipt that can be read, and shows that the
\* claim did not settle the order, clears the hash.
Unproven == sweep.hash = "claim" /\ claim = "reverted"
SweepDrop ==
    /\ sweep.at = "settled"
    /\ \/ Unproven /\ row' = IF row.hash = "claim" THEN [row EXCEPT !.hash = "none"] ELSE row
       \/ UNCHANGED row
    /\ sweep' = [sweep EXCEPT !.at = "recording"]
    /\ UNCHANGED <<chainVars, idle, restored, calls>>

\* Mutant: a refund nobody reported is left to its submit as well.
SweepRecordReleases ==
    /\ sweep.at = "recording"
    /\ \/ sweep.saw = "Released" /\ RecordReleased("none")
       \/ sweep.saw # "Released" /\ UNCHANGED dbVars
    /\ sweep' = NoSweep
    /\ UNCHANGED <<chainVars, calls>>

\* SettleOrderFromChain; a resolver's split is left to its own submit.
SweepRecord ==
    /\ sweep.at = "recording"
    /\ \/ sweep.saw = "Released" /\ RecordReleased("none")
       \/ sweep.saw = "Refunded" /\ RecordRefunded("none")
       \/ sweep.saw = "Resolved" /\ UNCHANGED dbVars
    /\ sweep' = NoSweep
    /\ UNCHANGED <<chainVars, calls>>

\* The node cannot be read, the send fails, or the process stops.
SweepFails ==
    /\ sweep # NoSweep
    /\ sweep' = NoSweep
    /\ UNCHANGED <<chainVars, dbVars, calls>>

SweepNext ==
    SweepPick \/ SweepRead \/ SweepSend \/ SweepNote \/ SweepDrop \/ SweepRecord \/ SweepFails

-----------------------------------------------------------------------------

Init ==
    /\ LifeInit /\ outcome = "none" /\ claim = "none" /\ prepared = FALSE
    /\ row = PlacedOrder /\ idle = FALSE /\ restored = 0
    /\ calls = [r \in Requests |-> NoCall]
    /\ sweep = NoSweep

Next ==
    \/ ChainNext
    \/ HourPasses
    \/ \E r \in Requests : \/ \E op \in Ops : Begin(r, op)
                           \/ ReadChain(r) \/ Finish(r) \/ GiveUp(r)
    \/ SweepNext

Spec == Init /\ [][Next]_vars

\* Time passes, transactions are mined, and the sweep keeps running: a tick
\* may fail, but not every tick at the same step.
Fairness ==
    /\ WF_vars(TimePasses /\ UNCHANGED <<outcome, claim, prepared, dbVars, calls, sweep>>)
    /\ WF_vars(ClaimMined /\ UNCHANGED <<prepared, dbVars, calls, sweep>>)
    /\ WF_vars(SweepPick)
    /\ SF_vars(SweepRead) /\ SF_vars(SweepSend) /\ SF_vars(SweepNote)
    /\ SF_vars(SweepDrop) /\ SF_vars(SweepRecord)

FairSpec == Spec /\ Fairness

-----------------------------------------------------------------------------
(* What the record promises. *)

RefundedOnChain == state = "Refunded" \/ outcome = "to the buyer"

\* A closed row tells what the chain did, whatever was read and written in
\* between: completed means the seller was paid, refunded and cancelled that
\* the buyer has everything back (an order cancelled before its payment was
\* recorded has no transaction to show).
RecordIsProven ==
    /\ row.status = "completed" => state = "Released" \/ outcome = "split"
    /\ row.status = "refunded"  => RefundedOnChain
    /\ row.status = "cancelled" /\ row.hash # "none" => outcome = "cancelled"

\* The stock of an order recorded as paid comes back only if the buyer got
\* everything back, and has come back once the row says so.
StockFollowsMoney ==
    /\ row.status = "completed" => restored = 0
    /\ row.status \in OrderOpenStatuses /\ restored # 0 => RefundedOnChain
    /\ row.status \in {"refunded", "cancelled"} /\ Kind = "product" => restored # 0

\* A row says delivered only if the escrow's confirm window has started, and
\* asks for a refund only if the escrow has the dispute.
PhaseIsProven ==
    /\ row.status \in {"delivered", "refund_requested"} => HasEvent("OrderDelivered")
    /\ row.status = "refund_requested" => HasEvent("OrderDisputed")

\* The expiry never cancels an order the escrow holds the payment of, for a
\* buyer who pays within the hour: whatever it read of the chain is stale by
\* the time it writes, only the payment clock in its UPDATE is not.
ExpiresStep ==
    \A r \in Requests :
        /\ calls[r].op = "Expire" /\ row.status = "pending_payment"
        /\ row'.status = "cancelled" /\ calls'[r] = NoCall
        => state = "None"
ExpiryKeepsPaid == [][ExpiresStep]_vars

\* The stock comes back once, however the recorders race.
StockReturnsOnce == restored <= 1

\* A payment whose transaction the buyer was given is never made for an order
\* the expiry has cancelled.
NoPaymentAfterExpiry == state # "None" => row.status # "cancelled"

\* The sweep is the keeper the escrow's deadlines rely on: an order recorded
\* as paid ends on the chain although no party ever calls.
SweepEndsOrders ==
    (state \in OpenStates /\ row.status \in OrderOpenStatuses) ~> state \in FinalStates

\* Whoever settled the order, and whether or not they ever told the backend,
\* the record catches up (a resolver's split excepted).
PayoutsAreRecorded ==
    (state \in {"Released", "Refunded"} /\ row.status \in OrderOpenStatuses)
        ~> row.status \in ClosedStatuses
=============================================================================
