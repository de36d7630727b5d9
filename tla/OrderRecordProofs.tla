-------------------------- MODULE OrderRecordProofs --------------------------
(***************************************************************************)
(* Theorems about OrderRecord for any set of concurrent requests and any   *)
(* set of handlers.  What makes the record's promises inductive is what a  *)
(* call or a tick may still rely on of what it read: an event that         *)
(* happened stays, a final state stays, and nothing that decides on a paid *)
(* order is in flight while the order is unpaid.                           *)
(***************************************************************************)
EXTENDS OrderRecord, TLAPS

\* What the events of the order's life say about each other.
LifeIsTold ==
    /\ outcome = "cancelled" => state = "Refunded"
    /\ outcome = "timeout" => state \in {"Released", "Refunded"}
    /\ outcome \in {"to the buyer", "split"} => state = "Resolved"
    /\ state = "Resolved" => outcome \in {"to the buyer", "split"}
    /\ state = "Delivered" => clock["confirm"] # "unset"
    /\ state = "Disputed" => clock["confirm"] # "unset"
    /\ clock["resolve"] # "unset" => clock["confirm"] # "unset"

\* A tick that found the order settled found it as it still is.
SweepIsCurrent == sweep.at \in {"settled", "recording"} => sweep.saw = state

\* The payment was never recorded.
Unpaid ==
    \/ row.status = "pending_payment"
    \/ row.status = "cancelled" /\ outcome # "cancelled"

\* The handlers that run on an unpaid order; each of them is conditional.
UnpaidOps == {"none", "PrepareEscrow", "SubmitEscrow", "Expire", "CancelOrder"}

UnpaidIsUntouched ==
    Unpaid => /\ row.hash = "none" /\ ~row.disputed
              /\ sweep = NoSweep
              /\ \A r \in Requests : calls[r].op \in UnpaidOps

\* A call that puts an order back to delivered began on one that was.
CallIsJustified(c) ==
    /\ c.op = "RejectRefund" => clock["confirm"] # "unset"
    /\ c.op = "Dismiss" => \/ c.to = c.from
                           \/ c.to \in {"escrowed", "shipped"}
                           \/ c.to = "delivered" /\ clock["confirm"] # "unset"
CallsAreJustified == \A r \in Requests : CallIsJustified(calls[r])

\* The stock came back with the buyer's money, or for an order never paid.
StockIsJustified ==
    /\ restored # 0 => RefundedOnChain \/ row.status = "cancelled"
    /\ row.status = "pending_payment" => restored = 0

DeliveryIsProven == row.delivered => clock["confirm"] # "unset"

WrittenInv ==
    /\ row \in Row /\ idle \in BOOLEAN /\ restored \in 0 .. 2
    /\ UnpaidIsUntouched /\ StockIsJustified /\ DeliveryIsProven
    /\ RecordIsProven /\ StockFollowsMoney /\ PhaseIsProven

RecordInv ==
    /\ TypeOK /\ LifeIsTold /\ SweepIsCurrent /\ CallsAreJustified
    /\ WrittenInv

-----------------------------------------------------------------------------
(* The table of statuses. *)

\* An order not paid, or cancelled, goes nowhere a paid one goes.
LEMMA UnpaidNext ==
    /\ ValidNext("pending_payment") = {"escrowed", "cancelled"}
    /\ ValidNext("cancelled") = {}
<1>1. /\ ProductNext["pending_payment"] = {"escrowed", "cancelled"}
      /\ ProductNext["cancelled"] = {}
  BY ZenonT(30) DEF ProductNext, Statuses, OrderOpenStatuses, ClosedStatuses
<1>2. /\ DOMAIN ProductNext = Statuses
      /\ "pending_payment" \in Statuses /\ "cancelled" \in Statuses
  BY Zenon DEF ProductNext, Statuses, ClosedStatuses
<1>3. /\ ServiceNext["pending_payment"] = ProductNext["pending_payment"]
      /\ ServiceNext["cancelled"] = ProductNext["cancelled"]
  BY <1>2 DEF ServiceNext
<1> QED
  BY <1>1, <1>3 DEF ValidNext

\* What the row's own type gives everywhere.
LEMMA StatusNames ==
    /\ OrderOpenStatuses \subseteq Statuses /\ "pending_payment" \in Statuses
    /\ ClosedStatuses \subseteq Statuses
    /\ ClosedStatuses \cap OrderOpenStatuses = {}
    /\ "pending_payment" \notin OrderOpenStatuses \cup ClosedStatuses
  BY DEF Statuses, OrderOpenStatuses, ClosedStatuses

-----------------------------------------------------------------------------
(* The chain. *)

\* What every transaction leaves true of the chain: events stay, and a final
\* state stays with the outcome it was reached by.
ChainGrows ==
    /\ LifeTypeOK' /\ LifeIsTold'
    /\ outcome' \in {"none", "cancelled", "timeout", "to the buyer", "split"}
    /\ claim' \in {"none", "sent", "settled", "reverted"}
    /\ state \in FinalStates => state' = state /\ outcome' = outcome
    /\ clock["confirm"] # "unset" => clock'["confirm"] # "unset"
    /\ clock["resolve"] # "unset" => clock'["resolve"] # "unset"

LEMMA LifeStep ==
    ASSUME TypeOK, LifeIsTold, ChainNext
    PROVE  ChainGrows
<1> USE DEF TypeOK, LifeTypeOK, LifeIsTold, ChainGrows, OpenStates, FinalStates,
            Deadlines
<1>1. CASE FundOrder
  BY <1>1 DEF FundOrder, Create, Start
<1>2. CASE Progress
  <2>1. CASE Deliver /\ UNCHANGED <<outcome, claim>>
    BY <2>1 DEF Deliver, Start
  <2>2. CASE RaiseOnChain /\ UNCHANGED <<outcome, claim>>
    BY <2>2 DEF RaiseOnChain, Start
  <2>3. CASE Confirm /\ UNCHANGED <<outcome, claim>>
    BY <2>3 DEF Confirm
  <2> QED
    BY <1>2, <2>1, <2>2, <2>3 DEF Progress
<1>3. CASE Cancelled
  BY <1>3 DEF Cancelled, SellerCancel
<1>4. CASE ClaimedByOthers
  BY <1>4 DEF ClaimedByOthers, Timeout, TimeoutDue
<1>5. CASE Resolved
  BY <1>5 DEF Resolved, Decide
<1>6. CASE ClaimMined
  BY <1>6 DEF ClaimMined, Timeout, TimeoutDue
<1>7. CASE TimePasses /\ UNCHANGED <<outcome, claim>>
  <2>1. PICK D \in SUBSET {d \in Deadlines : Running(d)} :
           clock' = [d \in Deadlines |-> IF d \in D THEN "passed" ELSE clock[d]]
    BY <1>7 DEF TimePasses
  <2>2. state' = state
    BY <1>7 DEF TimePasses
  <2>3. \A d \in Deadlines : clock'[d] = "unset" <=> clock[d] = "unset"
    BY <2>1 DEF Running
  <2>4. clock' \in [Deadlines -> {"unset", "running", "passed"}]
    BY <2>1
  <2> QED
    BY <1>7, <2>2, <2>3, <2>4
<1> QED
  BY <1>1, <1>2, <1>3, <1>4, <1>5, <1>6, <1>7 DEF ChainNext

\* What a tick knows, by where it is.
LEMMA SweepHolds ==
    ASSUME sweep \in Sweep \cup {NoSweep}, sweep.at \in {"settled", "recording"}
    PROVE  sweep.saw \in FinalStates
<1>1. CASE sweep \in [at : {"picked", "due", "sent"}, hash : {"none", "proof", "claim"}]
  <2>1. sweep.at \in {"picked", "due", "sent"}
    BY <1>1
  <2> QED
    BY <2>1
<1>2. CASE sweep \in [at : {"settled", "recording"}, hash : {"none", "proof", "claim"},
                      saw : FinalStates]
  BY <1>2
<1>3. CASE sweep = NoSweep
  BY <1>3 DEF NoSweep
<1> QED
  BY <1>1, <1>2, <1>3 DEF Sweep

LEMMA ChainStep ==
    ASSUME RecordInv, ChainNext
    PROVE  RecordInv'
<1> USE DEF RecordInv
<1>1. ChainGrows
  BY LifeStep
<1>2. UNCHANGED <<prepared, row, idle, restored, calls, sweep>>
  BY DEF ChainNext, dbVars
<1>3. TypeOK'
  BY <1>1, <1>2 DEF TypeOK, ChainGrows
<1>4. SweepIsCurrent'
  <2>1. sweep.at \in {"settled", "recording"} => sweep.saw \in FinalStates
    BY SweepHolds DEF TypeOK
  <2> QED
    BY <1>1, <1>2, <2>1 DEF SweepIsCurrent, ChainGrows
<1>5. CallsAreJustified'
  BY <1>1, <1>2 DEF CallsAreJustified, CallIsJustified, ChainGrows
<1>6. /\ outcome = "cancelled" => outcome' = "cancelled"
      /\ RefundedOnChain => RefundedOnChain'
      /\ state = "Released" \/ outcome = "split" => state' = "Released" \/ outcome' = "split"
  BY <1>1 DEF ChainGrows, LifeIsTold, RefundedOnChain, FinalStates
<1>7. WrittenInv'
  <2> USE <1>2, <1>6 DEF WrittenInv
  <2>1. UnpaidIsUntouched'
    BY DEF UnpaidIsUntouched, Unpaid
  <2>2. StockIsJustified' /\ StockFollowsMoney'
    BY DEF StockIsJustified, StockFollowsMoney
  <2>3. DeliveryIsProven' /\ PhaseIsProven'
    BY <1>1 DEF DeliveryIsProven, PhaseIsProven, HasEvent, ChainGrows
  <2>4. RecordIsProven'
    BY DEF RecordIsProven
  <2> QED
    BY <2>1, <2>2, <2>3, <2>4
<1> QED
  BY <1>1, <1>3, <1>4, <1>5, <1>7 DEF ChainGrows

-----------------------------------------------------------------------------
(* Calls before they write. *)

\* A table of calls with one entry replaced.
LEMMA CallWritten ==
    ASSUME TypeOK, NEW r \in Requests, NEW c \in Call \cup {NoCall},
           calls' = [calls EXCEPT ![r] = c]
    PROVE  /\ calls' \in [Requests -> Call \cup {NoCall}]
           /\ calls'[r] = c
           /\ \A q \in Requests \ {r} : calls'[q] = calls[q]
  BY DEF TypeOK

\* A step that only replaces a call, by one that is justified.
LEMMA CallStep ==
    ASSUME RecordInv, NEW r \in Requests, NEW c \in Call \cup {NoCall},
           calls' = [calls EXCEPT ![r] = c],
           CallIsJustified(c), Unpaid => c.op \in UnpaidOps,
           idle' \in BOOLEAN, prepared' \in BOOLEAN,
           UNCHANGED <<state, clock, outcome, claim, row, restored, sweep>>
    PROVE  RecordInv'
<1> USE DEF RecordInv
<1>1. /\ calls' \in [Requests -> Call \cup {NoCall}]
      /\ calls'[r] = c
      /\ \A q \in Requests \ {r} : calls'[q] = calls[q]
  BY CallWritten
<1>2. TypeOK'
  BY <1>1 DEF TypeOK, LifeTypeOK
<1>3. LifeIsTold' /\ SweepIsCurrent'
  BY DEF LifeIsTold, SweepIsCurrent
<1>4. CallsAreJustified'
  BY <1>1 DEF CallsAreJustified, CallIsJustified
<1>5. UnpaidIsUntouched'
  BY <1>1 DEF UnpaidIsUntouched, Unpaid, WrittenInv
<1>6. /\ StockIsJustified' /\ DeliveryIsProven' /\ RecordIsProven'
      /\ StockFollowsMoney' /\ PhaseIsProven'
  BY DEF WrittenInv, StockIsJustified, DeliveryIsProven, RecordIsProven,
         StockFollowsMoney, PhaseIsProven, RefundedOnChain, HasEvent
<1> QED
  BY <1>2, <1>3, <1>4, <1>5, <1>6 DEF WrittenInv, TypeOK

LEMMA NoCallFits == NoCall \in Call \cup {NoCall} /\ CallIsJustified(NoCall)
                        /\ NoCall.op \in UnpaidOps
  BY DEF NoCall, CallIsJustified, UnpaidOps

LEMMA GiveUpStep ==
    ASSUME RecordInv, NEW r \in Requests, GiveUp(r)
    PROVE  RecordInv'
  BY NoCallFits, CallStep DEF GiveUp, Return, chainVars, dbVars, RecordInv, TypeOK

\* Only the handlers of unpaid orders admit one.
LEMMA AdmitsUnpaid ==
    ASSUME RecordInv, NEW op \in AllOps, Admits(op), Unpaid
    PROVE  op \in UnpaidOps
<1>1. row.status \in {"pending_payment", "cancelled"} /\ ~row.disputed
  BY DEF RecordInv, WrittenInv, UnpaidIsUntouched, Unpaid
<1> QED
  BY <1>1, UnpaidNext DEF Admits, MayPay, MayExpire, MayCancelUnpaid, MayCancelPaid, MayShip,
       MayDeliver, MayRejectRefund, MayConfirm, MayRefund, MayJudge, MayRequestCancel,
       MayAnswerCancel, MayRaiseDispute, UnpaidOps, OrderOpenStatuses

LEMMA BeginStep ==
    ASSUME RecordInv, NEW r \in Requests, NEW op \in Ops, Begin(r, op)
    PROVE  RecordInv'
<1> DEFINE c == [op |-> op, from |-> row.status, disputed |-> row.disputed,
                 to |-> IF op = "Dismiss" THEN Reverted[row.status] ELSE row.status,
                 saw |-> "unread"]
<1>1. op \in AllOps /\ row \in Row /\ row.status \in Statuses /\ row.disputed \in BOOLEAN
  BY RecordAssumption DEF RecordInv, TypeOK, Row
<1>2. PhaseOfRow \in {"escrowed", "shipped", "delivered"}
      /\ (PhaseOfRow = "delivered" => clock["confirm"] # "unset")
  BY DEF PhaseOfRow, RecordInv, WrittenInv, DeliveryIsProven
<1>3. \/ Reverted[row.status] = row.status
      \/ Reverted[row.status] = PhaseOfRow
      \/ Reverted[row.status] = "escrowed"
  BY <1>1 DEF Reverted
<1>4. Reverted[row.status] \in Statuses
  BY <1>1, <1>2, <1>3 DEF Statuses, OrderOpenStatuses
<1>5. c \in Call
  BY <1>1, <1>4 DEF Call
<1>6. CallIsJustified(c)
  <2>1. op = "RejectRefund" => clock["confirm"] # "unset"
    BY DEF Begin, Admits, MayRejectRefund, RecordInv, WrittenInv, PhaseIsProven, HasEvent
  <2> QED
    BY <1>2, <1>3, <2>1 DEF CallIsJustified
<1>7. Unpaid => c.op \in UnpaidOps
  BY <1>1, AdmitsUnpaid DEF Begin
<1>8. /\ calls' = [calls EXCEPT ![r] = c]
      /\ idle' \in BOOLEAN /\ prepared' \in BOOLEAN
      /\ UNCHANGED <<state, clock, outcome, claim, row, restored, sweep>>
  BY DEF Begin, chainVars, RecordInv, TypeOK
<1> HIDE DEF c
<1> QED
  BY <1>5, <1>6, <1>7, <1>8, CallStep

LEMMA ReadChainStep ==
    ASSUME RecordInv, NEW r \in Requests, ReadChain(r)
    PROVE  RecordInv'
<1> DEFINE c == [calls[r] EXCEPT !.saw = state]
<1>1. calls[r] \in Call
  BY DEF ReadChain, Idle, RecordInv, TypeOK
<1>2. /\ c \in Call /\ c.op = calls[r].op /\ c.to = calls[r].to
      /\ c.from = calls[r].from
  BY <1>1 DEF Call, RecordInv, TypeOK, LifeTypeOK
<1>3. CallIsJustified(c)
  BY <1>2 DEF CallIsJustified, RecordInv, CallsAreJustified
<1>4. Unpaid => c.op \in UnpaidOps
  BY <1>2 DEF RecordInv, WrittenInv, UnpaidIsUntouched
<1>5. /\ calls' = [calls EXCEPT ![r] = c]
      /\ UNCHANGED <<state, clock, outcome, claim, row, restored, sweep, idle, prepared>>
  BY DEF ReadChain, chainVars, dbVars
<1> HIDE DEF c
<1> QED
  BY <1>2, <1>3, <1>4, <1>5, CallStep DEF RecordInv, TypeOK

LEMMA HourStep ==
    ASSUME RecordInv, HourPasses
    PROVE  RecordInv'
<1>1. UNCHANGED <<state, clock, outcome, claim, row, restored, calls, sweep>>
      /\ idle' \in BOOLEAN /\ prepared' \in BOOLEAN
  BY RecordAssumption DEF HourPasses, RecordInv, TypeOK
<1>2. TypeOK'
  BY <1>1 DEF RecordInv, TypeOK, LifeTypeOK
<1>3. LifeIsTold' /\ SweepIsCurrent' /\ CallsAreJustified'
  BY <1>1 DEF RecordInv, LifeIsTold, SweepIsCurrent, CallsAreJustified, CallIsJustified
<1>4. WrittenInv'
  BY <1>1 DEF RecordInv, WrittenInv, UnpaidIsUntouched, Unpaid, StockIsJustified,
       DeliveryIsProven, RecordIsProven, StockFollowsMoney, PhaseIsProven,
       RefundedOnChain, HasEvent
<1> QED
  BY <1>2, <1>3, <1>4 DEF RecordInv

-----------------------------------------------------------------------------
(* Writes of the row. *)

\* What every write leaves true, whatever the row had become by then.
WriteIsJustified ==
    /\ row' \in Row /\ idle' \in BOOLEAN /\ restored' \in 0 .. 2
    /\ Unpaid' => Unpaid /\ row'.hash = "none" /\ ~row'.disputed
    /\ StockIsJustified' /\ DeliveryIsProven'
    /\ RecordIsProven' /\ StockFollowsMoney' /\ PhaseIsProven'

LEMMA ReleasedWrite ==
    ASSUME RecordInv, UNCHANGED <<state, clock, outcome>>,
           NEW hash \in {"none", "proof"}, RecordReleased(hash), state = "Released"
    PROVE  WriteIsJustified
<1>1. /\ row \in Row /\ idle' = idle /\ restored' = restored
      /\ row' = IF IsOpen THEN [row EXCEPT !.status = "completed", !.hash = NewHash(hash)]
                ELSE row
  BY DEF RecordReleased, RecordInv, WrittenInv
<1>2. CASE IsOpen
  <2>1. /\ row' \in Row /\ row'.status = "completed" /\ row'.delivered = row.delivered
    BY <1>1, <1>2 DEF Row, NewHash, Statuses, ClosedStatuses
  <2>2. restored = 0
    BY <1>2 DEF RecordInv, WrittenInv, StockIsJustified, RefundedOnChain, LifeIsTold,
                IsOpen, OrderOpenStatuses
  <2> QED
    BY <1>1, <2>1, <2>2
    DEF WriteIsJustified, RecordInv, WrittenInv, Unpaid, StockIsJustified,
        DeliveryIsProven, RecordIsProven, StockFollowsMoney, PhaseIsProven,
        OrderOpenStatuses
<1>3. CASE ~IsOpen
  BY <1>1, <1>3
  DEF WriteIsJustified, RecordInv, WrittenInv, Unpaid, UnpaidIsUntouched, StockIsJustified,
      DeliveryIsProven, RecordIsProven, StockFollowsMoney, PhaseIsProven,
      RefundedOnChain, HasEvent
<1> QED
  BY <1>2, <1>3

\* The stock is back after it was restored, if the order holds any.
LEMMA Restocked ==
    ASSUME restored \in 0 .. 2, Restock
    PROVE  restored' \in 0 .. 2 /\ (Kind # "service" => restored' # 0)
                /\ (restored # 0 => restored' # 0)
  BY DEF Restock

LEMMA RefundedWrite ==
    ASSUME RecordInv, UNCHANGED <<state, clock, outcome>>,
           NEW hash \in {"none", "proof"}, RecordRefunded(hash), state = "Refunded"
    PROVE  WriteIsJustified
<1>1. row \in Row /\ idle' = idle /\ restored \in 0 .. 2
  BY DEF RecordRefunded, RecordInv, WrittenInv
<1>2. CASE IsOpen
  <2>1. row' = [row EXCEPT !.status = "refunded", !.hash = NewHash(hash)] /\ Restock
    BY <1>2 DEF RecordRefunded
  <2>2. /\ row' \in Row /\ row'.status = "refunded" /\ row'.delivered = row.delivered
    BY <1>1, <2>1 DEF Row, NewHash, Statuses, ClosedStatuses
  <2>3. restored' \in 0 .. 2 /\ (Kind # "service" => restored' # 0)
    BY <1>1, <2>1, Restocked
  <2> QED
    BY <1>1, <2>2, <2>3
    DEF WriteIsJustified, RecordInv, WrittenInv, Unpaid, StockIsJustified, RefundedOnChain,
        DeliveryIsProven, RecordIsProven, StockFollowsMoney, PhaseIsProven,
        OrderOpenStatuses
<1>3. CASE ~IsOpen
  <2>1. row' = row /\ restored' = restored
    BY <1>3 DEF RecordRefunded
  <2> QED
    BY <1>1, <2>1
    DEF WriteIsJustified, RecordInv, WrittenInv, Unpaid, UnpaidIsUntouched, StockIsJustified,
        DeliveryIsProven, RecordIsProven, StockFollowsMoney, PhaseIsProven,
        RefundedOnChain, HasEvent
<1> QED
  BY <1>2, <1>3

\* A write that changes nothing but the payment clock.
LEMMA NothingWritten ==
    ASSUME RecordInv, UNCHANGED <<state, clock, outcome, row, restored>>, idle' \in BOOLEAN
    PROVE  WriteIsJustified
  BY DEF WriteIsJustified, RecordInv, WrittenInv, Unpaid, UnpaidIsUntouched, StockIsJustified,
         DeliveryIsProven, RecordIsProven, StockFollowsMoney, PhaseIsProven,
         RefundedOnChain, HasEvent

LEMMA EscrowedWrite ==
    ASSUME RecordInv, UNCHANGED <<state, clock, outcome>>, MarkOrderEscrowed
    PROVE  WriteIsJustified
<1>1. CASE row.status = "pending_payment"
  <2>1. row' = [row EXCEPT !.status = "escrowed"] /\ UNCHANGED <<idle, restored>>
    BY <1>1 DEF MarkOrderEscrowed
  <2>2. /\ row' \in Row /\ row'.status = "escrowed" /\ row'.delivered = row.delivered
    BY <2>1 DEF Row, RecordInv, WrittenInv, Statuses, OrderOpenStatuses
  <2>3. restored = 0
    BY <1>1 DEF RecordInv, WrittenInv, StockIsJustified
  <2> QED
    BY <2>1, <2>2, <2>3
    DEF WriteIsJustified, RecordInv, WrittenInv, Unpaid, StockIsJustified,
        DeliveryIsProven, RecordIsProven, StockFollowsMoney, PhaseIsProven
<1>2. CASE row.status # "pending_payment"
  BY <1>2, NothingWritten DEF MarkOrderEscrowed, RecordInv, WrittenInv
<1> QED
  BY <1>1, <1>2

LEMMA CancelledWrite ==
    ASSUME RecordInv, UNCHANGED <<state, clock, outcome>>, NEW stillIdle \in BOOLEAN,
           CancelPending(stillIdle)
    PROVE  WriteIsJustified
<1>1. CASE row.status = "pending_payment" /\ stillIdle
  <2>1. row' = [row EXCEPT !.status = "cancelled"] /\ Restock /\ idle' = idle
    BY <1>1 DEF CancelPending
  <2>2. /\ row' \in Row /\ row'.status = "cancelled" /\ row'.delivered = row.delivered
        /\ row'.hash = row.hash /\ row'.disputed = row.disputed
    BY <2>1 DEF Row, RecordInv, WrittenInv, Statuses, ClosedStatuses
  <2>3. restored' \in 0 .. 2 /\ (Kind # "service" => restored' # 0)
    BY <2>1, Restocked DEF RecordInv, WrittenInv
  <2>4. row.hash = "none" /\ ~row.disputed /\ Unpaid
    BY <1>1 DEF RecordInv, WrittenInv, UnpaidIsUntouched, Unpaid
  <2> QED
    BY <2>1, <2>2, <2>3, <2>4
    DEF WriteIsJustified, RecordInv, WrittenInv, StockIsJustified,
        DeliveryIsProven, RecordIsProven, StockFollowsMoney, PhaseIsProven, OrderOpenStatuses
<1>2. CASE ~(row.status = "pending_payment" /\ stillIdle)
  BY <1>2, NothingWritten DEF CancelPending, RecordInv, WrittenInv
<1> QED
  BY <1>1, <1>2

LEMMA SellerCancelWrite ==
    ASSUME RecordInv, UNCHANGED <<state, clock, outcome>>, NEW c,
           FinishSellerCancel(c), outcome = "cancelled"
    PROVE  WriteIsJustified
<1>1. CASE row.status = c.from
  <2>1. row' = [row EXCEPT !.status = "cancelled", !.hash = "proof"] /\ Restock /\ idle' = idle
    BY <1>1 DEF FinishSellerCancel
  <2>2. /\ row' \in Row /\ row'.status = "cancelled" /\ row'.delivered = row.delivered
    BY <2>1 DEF Row, RecordInv, WrittenInv, Statuses, ClosedStatuses
  <2>3. restored' \in 0 .. 2 /\ (Kind # "service" => restored' # 0)
    BY <2>1, Restocked DEF RecordInv, WrittenInv
  <2> QED
    BY <2>1, <2>2, <2>3
    DEF WriteIsJustified, RecordInv, WrittenInv, Unpaid, StockIsJustified,
        DeliveryIsProven, RecordIsProven, StockFollowsMoney, PhaseIsProven, OrderOpenStatuses
<1>2. CASE row.status # c.from
  BY <1>2, NothingWritten DEF FinishSellerCancel, RecordInv, WrittenInv
<1> QED
  BY <1>1, <1>2

\* An unconditional update of an order whose payment was recorded: whatever it
\* overwrites, the buyer's refund stays on the chain.
LEMMA PhaseWrite ==
    ASSUME RecordInv, UNCHANGED <<state, clock, outcome, idle, restored>>, ~Unpaid,
           row' \in Row, DeliveryIsProven', PhaseIsProven',
           \/ row'.status \in OrderOpenStatuses
           \/ row'.status = row.status /\ row'.hash = row.hash
    PROVE  WriteIsJustified
<1>1. CASE row'.status \in OrderOpenStatuses
  <2>1. restored # 0 => RefundedOnChain
    BY DEF RecordInv, WrittenInv, StockIsJustified, Unpaid, LifeIsTold, RefundedOnChain
  <2>2. row'.status # "pending_payment" /\ row'.status \notin ClosedStatuses
    BY <1>1, StatusNames
  <2> QED
    BY <1>1, <2>1, <2>2
    DEF WriteIsJustified, RecordInv, WrittenInv, Unpaid, StockIsJustified,
        RecordIsProven, StockFollowsMoney, RefundedOnChain, ClosedStatuses
<1>2. CASE row'.status = row.status /\ row'.hash = row.hash
  BY <1>2
  DEF WriteIsJustified, RecordInv, WrittenInv, Unpaid, StockIsJustified,
      RecordIsProven, StockFollowsMoney, RefundedOnChain
<1> QED
  BY <1>1, <1>2
-----------------------------------------------------------------------------
(* Calls that end. *)

\* Every handler's write is justified by what it verified, or by what the call
\* may still rely on of what it read.
LEMMA EndingWrites ==
    ASSUME RecordInv, NEW c \in Call, CallIsJustified(c),
           Unpaid => c.op \in UnpaidOps, Ending(c),
           UNCHANGED <<state, clock, outcome>>
    PROVE  WriteIsJustified
<1>1. /\ row \in Row /\ idle \in BOOLEAN /\ restored \in 0 .. 2
      /\ DeliveryIsProven /\ PhaseIsProven
  BY DEF RecordInv, WrittenInv
<1> DEFINE InPhase == /\ ~Unpaid /\ row' \in Row /\ UNCHANGED <<idle, restored>>
                      /\ DeliveryIsProven' /\ PhaseIsProven'
                      /\ \/ row'.status \in OrderOpenStatuses
                         \/ row'.status = row.status /\ row'.hash = row.hash
<1>2. ASSUME InPhase PROVE WriteIsJustified
  BY <1>2, PhaseWrite
<1>a. CASE c.op = "PrepareEscrow" /\ PrepareEscrow(c)
  <2>1. /\ row' = row /\ restored' = restored
        /\ idle' = (idle /\ row.status # "pending_payment")
    BY <1>a DEF PrepareEscrow
  <2>2. idle' \in BOOLEAN
    BY <2>1
  <2> QED
    BY <2>1, <2>2, NothingWritten
<1>b. CASE c.op = "SubmitEscrow" /\ SubmitEscrow(c)
  BY <1>b, EscrowedWrite DEF SubmitEscrow
<1>c. CASE c.op = "Expire" /\ Expire(c)
  BY <1>1, <1>c, EscrowedWrite, CancelledWrite DEF Expire
<1>d. CASE c.op = "CancelOrder" /\ CancelOrder(c)
  BY <1>d, CancelledWrite DEF CancelOrder
<1>e. CASE c.op = "CancelAsTreasury" /\ CancelAsTreasury(c)
  BY <1>e, SellerCancelWrite DEF CancelAsTreasury, SellerCancelled
<1>f. CASE c.op = "SubmitCancel" /\ SubmitCancel(c)
  BY <1>f, SellerCancelWrite DEF SubmitCancel, SellerCancelled
<1>g. CASE c.op = "SubmitConfirm" /\ SubmitConfirm(c)
  BY <1>g, ReleasedWrite DEF SubmitConfirm, HasEvent
<1>h. CASE c.op = "SubmitResolve" /\ SubmitResolve(c)
  <2>1. /\ state = "Resolved" /\ outcome \in {"to the buyer", "split"} /\ idle' = idle
        /\ row' = [row EXCEPT !.status = IF outcome = "to the buyer" THEN "refunded"
                                        ELSE "completed",
                              !.hash = "proof", !.disputed = row.disputed /\ ~c.disputed]
    BY <1>h DEF SubmitResolve, HasEvent, RecordInv, LifeIsTold
  <2>2. c.disputed \in BOOLEAN
    BY DEF Call
  <2>3. /\ row' \in Row /\ row'.delivered = row.delivered
        /\ row'.status = IF outcome = "to the buyer" THEN "refunded" ELSE "completed"
    BY <1>1, <2>1, <2>2 DEF Row, Statuses, ClosedStatuses
  <2>4. ~Unpaid
    BY <1>h DEF UnpaidOps
  <2>5. outcome = "split" => restored = 0
    BY <2>1, <2>4 DEF RecordInv, WrittenInv, StockIsJustified, RefundedOnChain, Unpaid
  <2>6. /\ restored' \in 0 .. 2
        /\ outcome = "to the buyer" => (Kind # "service" => restored' # 0)
        /\ outcome = "split" => restored' = 0
    BY <1>h, <1>1, <2>1, <2>5, Restocked DEF SubmitResolve
  <2>7. DeliveryIsProven' /\ PhaseIsProven' /\ ~Unpaid'
    BY <1>1, <2>3 DEF DeliveryIsProven, PhaseIsProven, HasEvent, Unpaid
  <2>8. RecordIsProven' /\ StockIsJustified' /\ StockFollowsMoney'
    <3>1. CASE outcome = "to the buyer"
      BY <2>3, <2>6, <3>1
      DEF RecordIsProven, StockIsJustified, StockFollowsMoney, RefundedOnChain, OrderOpenStatuses
    <3>2. CASE outcome = "split"
      BY <2>3, <2>6, <3>2
      DEF RecordIsProven, StockIsJustified, StockFollowsMoney, RefundedOnChain, OrderOpenStatuses
    <3> QED
      BY <2>1, <3>1, <3>2
  <2> QED
    BY <1>1, <2>1, <2>3, <2>6, <2>7, <2>8 DEF WriteIsJustified
<1>i. CASE c.op = "SubmitRefund" /\ SubmitRefund(c)
  <2>1. CASE HasEvent("OrderRefunded") /\ RecordRefunded("proof")
    BY <2>1, RefundedWrite DEF HasEvent
  <2>2. CASE /\ HasEvent("OrderDisputed")
             /\ Overwrite(IF row.status \in {"escrowed", "delivered"}
                          THEN [row EXCEPT !.status = "refund_requested", !.disputed = TRUE,
                                           !.resolveBy = TRUE]
                          ELSE row)
    <3>1. CASE row.status \in {"escrowed", "delivered"}
      BY <1>1, <1>2, <1>i, <2>2, <3>1
      DEF Overwrite, Row, Statuses, OrderOpenStatuses, DeliveryIsProven, PhaseIsProven,
          HasEvent, UnpaidOps, RecordInv, LifeIsTold
    <3>2. CASE row.status \notin {"escrowed", "delivered"}
      BY <1>1, <2>2, <3>2, NothingWritten DEF Overwrite
    <3> QED
      BY <3>1, <3>2
  <2> QED
    BY <1>i, <2>1, <2>2 DEF SubmitRefund
<1>j. CASE c.op = "MarkShipped" /\ MarkShipped(c)
  BY <1>1, <1>2, <1>j DEF MarkShipped, Overwrite, Row, Statuses, OrderOpenStatuses,
     DeliveryIsProven, PhaseIsProven, HasEvent, UnpaidOps
<1>k. CASE c.op = "MarkDelivered" /\ MarkDelivered(c)
  BY <1>1, <1>2, <1>k DEF MarkDelivered, Overwrite, Row, Statuses, OrderOpenStatuses,
     DeliveryIsProven, PhaseIsProven, HasEvent, UnpaidOps
<1>l. CASE c.op = "RejectRefund" /\ RejectRefund(c)
  BY <1>1, <1>2, <1>l DEF RejectRefund, Overwrite, Row, Statuses, OrderOpenStatuses,
     DeliveryIsProven, PhaseIsProven, HasEvent, UnpaidOps, CallIsJustified
<1>m. CASE c.op = "Dismiss" /\ Dismiss(c)
  <2>1. row' = [row EXCEPT !.status = IF c.to = c.from THEN row.status ELSE c.to,
                           !.disputed = row.disputed /\ ~c.disputed]
        /\ UNCHANGED <<idle, restored>>
    BY <1>m DEF Dismiss, Overwrite
  <2>2. c.disputed \in BOOLEAN /\ c.to \in Statuses
    BY DEF Call
  <2>3. /\ row' \in Row /\ row'.delivered = row.delivered /\ row'.hash = row.hash
        /\ row'.status = IF c.to = c.from THEN row.status ELSE c.to
    BY <1>1, <2>1, <2>2 DEF Row
  <2>4. \/ c.to = c.from
        \/ c.to \in {"escrowed", "shipped"}
        \/ c.to = "delivered" /\ clock["confirm"] # "unset"
    BY <1>m DEF CallIsJustified
  <2>5. DeliveryIsProven' /\ PhaseIsProven'
    BY <1>1, <2>3, <2>4 DEF DeliveryIsProven, PhaseIsProven, HasEvent
  <2> QED
    BY <1>2, <1>m, <2>1, <2>3, <2>4, <2>5 DEF UnpaidOps, OrderOpenStatuses
<1>n. CASE c.op = "RequestCancel" /\ RequestCancel(c)
  BY <1>1, <1>2, <1>n DEF RequestCancel, Overwrite, Row, Statuses, OrderOpenStatuses,
     DeliveryIsProven, PhaseIsProven, HasEvent, UnpaidOps
<1>o. CASE c.op = "RejectCancel" /\ RejectCancel(c)
  BY <1>1, <1>2, <1>o DEF RejectCancel, Overwrite, Row, Statuses, OrderOpenStatuses,
     DeliveryIsProven, PhaseIsProven, HasEvent, UnpaidOps
<1>p. CASE c.op = "RaiseDispute" /\ RaiseDispute(c)
  BY <1>1, <1>2, <1>p DEF RaiseDispute, Overwrite, Row,
     DeliveryIsProven, PhaseIsProven, HasEvent, UnpaidOps
<1> QED
  BY <1>a, <1>b, <1>c, <1>d, <1>e, <1>f, <1>g, <1>h, <1>i, <1>j, <1>k, <1>l, <1>m,
     <1>n, <1>o, <1>p DEF Ending

LEMMA FinishStep ==
    ASSUME RecordInv, NEW r \in Requests, Finish(r)
    PROVE  RecordInv'
<1>1. UNCHANGED <<state, clock, outcome, claim, sweep>>
  BY DEF Finish
<1>2. calls[r] \in Call /\ CallIsJustified(calls[r]) /\ (Unpaid => calls[r].op \in UnpaidOps)
  BY DEF Finish, Idle, RecordInv, TypeOK, CallsAreJustified, WrittenInv, UnpaidIsUntouched
<1>3. WriteIsJustified
  BY <1>1, <1>2, EndingWrites DEF Finish
<1>4. /\ calls' \in [Requests -> Call \cup {NoCall}]
      /\ calls'[r] = NoCall
      /\ \A q \in Requests \ {r} : calls'[q] = calls[q]
  BY CallWritten, NoCallFits DEF Finish, Return, RecordInv
<1>5. prepared' \in BOOLEAN
  BY DEF Finish, Ending, PrepareEscrow, RecordInv, TypeOK
<1>6. TypeOK'
  BY <1>1, <1>3, <1>4, <1>5 DEF RecordInv, TypeOK, LifeTypeOK, WriteIsJustified
<1>7. LifeIsTold' /\ SweepIsCurrent'
  BY <1>1 DEF RecordInv, LifeIsTold, SweepIsCurrent
<1>8. CallsAreJustified'
  BY <1>1, <1>4, NoCallFits DEF RecordInv, CallsAreJustified, CallIsJustified
<1>9. UnpaidIsUntouched'
  BY <1>1, <1>3, <1>4, NoCallFits
  DEF RecordInv, WrittenInv, WriteIsJustified, UnpaidIsUntouched
<1> QED
  BY <1>3, <1>6, <1>7, <1>8, <1>9 DEF RecordInv, WrittenInv, WriteIsJustified
-----------------------------------------------------------------------------
(* The sweep. *)

\* A step of a tick: it is not an unpaid order it works on.
LEMMA SweepWrites ==
    ASSUME RecordInv, UNCHANGED <<state, clock, outcome, prepared, calls>>,
           claim' \in {"none", "sent", "settled", "reverted"},
           sweep' \in Sweep \cup {NoSweep}, SweepIsCurrent', ~Unpaid, WriteIsJustified
    PROVE  RecordInv'
<1>1. TypeOK'
  BY DEF RecordInv, TypeOK, LifeTypeOK, WriteIsJustified
<1>2. LifeIsTold' /\ CallsAreJustified'
  BY DEF RecordInv, LifeIsTold, CallsAreJustified, CallIsJustified
<1>3. UnpaidIsUntouched'
  BY DEF WriteIsJustified, UnpaidIsUntouched
<1> QED
  BY <1>1, <1>2, <1>3 DEF RecordInv, WrittenInv, WriteIsJustified

\* A write that leaves the status, and whether the order was delivered.
LEMMA NotesWritten ==
    ASSUME RecordInv, UNCHANGED <<state, clock, outcome, idle, restored>>, ~Unpaid,
           row' \in Row, row'.status = row.status, row'.delivered = row.delivered,
           row.status \in OrderOpenStatuses \/ row'.hash \in {"none", row.hash}
    PROVE  WriteIsJustified
  BY DEF RecordInv, WrittenInv, WriteIsJustified, Unpaid, StockIsJustified, DeliveryIsProven,
         RecordIsProven, StockFollowsMoney, PhaseIsProven, RefundedOnChain, HasEvent,
         OrderOpenStatuses

LEMMA SweepStep ==
    ASSUME RecordInv, SweepNext
    PROVE  RecordInv'
<1>0. /\ row \in Row /\ idle \in BOOLEAN /\ sweep \in Sweep \cup {NoSweep}
      /\ claim \in {"none", "sent", "settled", "reverted"}
  BY DEF RecordInv, WrittenInv, TypeOK
<1>1. sweep # NoSweep => ~Unpaid
  BY DEF RecordInv, WrittenInv, UnpaidIsUntouched
<1>2. NoSweep.at = "idle"
  BY DEF NoSweep
<1>3. CASE SweepPick
  <2>1. ~Unpaid
    BY <1>3, StatusNames DEF SweepPick, IsOpen, Unpaid, OrderOpenStatuses
  <2>2. sweep' \in Sweep /\ sweep'.at = "picked"
    BY <1>0, <1>3 DEF SweepPick, Sweep, Row
  <2> QED
    BY <1>0, <1>3, <2>1, <2>2, NothingWritten, SweepWrites
    DEF SweepPick, chainVars, dbVars, SweepIsCurrent
<1>4. CASE SweepFails
  BY <1>0, <1>1, <1>2, <1>4, NothingWritten, SweepWrites
  DEF SweepFails, chainVars, dbVars, SweepIsCurrent
<1>5. CASE SweepSend
  <2>1. sweep' = [sweep EXCEPT !.at = "sent"] /\ sweep.at = "due"
    BY <1>5 DEF SweepSend
  <2>2. sweep' \in Sweep /\ sweep'.at = "sent"
    BY <1>0, <1>2, <2>1 DEF Sweep
  <2>3. UNCHANGED <<state, clock, outcome, prepared, row, idle, restored, calls>>
        /\ claim' \in {"none", "sent", "settled", "reverted"}
    BY <1>0, <1>5 DEF SweepSend, dbVars
  <2> QED
    BY <1>0, <1>1, <1>2, <2>1, <2>2, <2>3, NothingWritten, SweepWrites DEF SweepIsCurrent
<1>6. CASE SweepRead
  <2>1. ~Unpaid /\ sweep.at = "picked"
    BY <1>1, <1>2, <1>6 DEF SweepRead
  <2>2. UNCHANGED <<state, clock, outcome, claim, prepared, idle, restored, calls>>
    BY <1>6 DEF SweepRead, chainVars
  <2>3. sweep.hash \in {"none", "proof", "claim"}
    BY <1>0, <1>2, <2>1 DEF Sweep
  <2>4. CASE /\ state \in FinalStates /\ UNCHANGED row
             /\ sweep' = [at |-> "settled", hash |-> sweep.hash, saw |-> state]
    <3>1. sweep' \in Sweep /\ sweep'.saw = state'
      BY <2>2, <2>3, <2>4 DEF Sweep
    <3> QED
      BY <1>0, <2>1, <2>2, <2>4, <3>1, NothingWritten, SweepWrites DEF SweepIsCurrent
  <2>5. CASE /\ state \in OpenStates /\ SyncDeadlines
             /\ sweep' = IF TimeoutDue THEN [at |-> "due", hash |-> sweep.hash] ELSE NoSweep
    <3>1. sweep' \in Sweep \cup {NoSweep} /\ sweep'.at \notin {"settled", "recording"}
      BY <1>2, <2>3, <2>5 DEF Sweep
    <3>2. row' \in Row /\ row'.status = row.status /\ row'.delivered = row.delivered
          /\ row'.hash = row.hash
      BY <1>0, <2>5 DEF SyncDeadlines, Row
    <3> QED
      BY <1>0, <2>1, <2>2, <3>1, <3>2, NotesWritten, SweepWrites DEF SweepIsCurrent
  <2> QED
    BY <1>6, <2>4, <2>5 DEF SweepRead
<1>7. CASE SweepNote
  <2>1. ~Unpaid
    BY <1>1, <1>2, <1>7 DEF SweepNote
  <2>2. /\ UNCHANGED <<state, clock, outcome, claim, prepared, idle, restored, calls>>
        /\ sweep' = NoSweep
        /\ row' = IF row.hash = "none" THEN [row EXCEPT !.hash = "claim"] ELSE row
    BY <1>7 DEF SweepNote, chainVars
  <2>3. row' \in Row /\ row'.status = row.status /\ row'.delivered = row.delivered
    BY <1>0, <2>2 DEF Row
  <2>4. WriteIsJustified
    BY <1>0, <2>1, <2>2, <2>3
    DEF RecordInv, WrittenInv, WriteIsJustified, Unpaid, StockIsJustified, DeliveryIsProven,
        RecordIsProven, StockFollowsMoney, PhaseIsProven, RefundedOnChain, HasEvent
  <2> QED
    BY <1>0, <1>2, <2>1, <2>2, <2>4, SweepWrites DEF SweepIsCurrent
<1>8. CASE SweepDrop
  <2>1. ~Unpaid /\ sweep.at = "settled"
    BY <1>1, <1>2, <1>8 DEF SweepDrop
  <2>2. /\ UNCHANGED <<state, clock, outcome, claim, prepared, idle, restored, calls>>
        /\ sweep' = [sweep EXCEPT !.at = "recording"]
        /\ row' \in {row, [row EXCEPT !.hash = "none"]}
    BY <1>8 DEF SweepDrop, chainVars
  <2>3. row' \in Row /\ row'.status = row.status /\ row'.delivered = row.delivered
        /\ row'.hash \in {"none", row.hash}
    BY <1>0, <2>2 DEF Row
  <2>4. sweep \in [at : {"settled", "recording"}, hash : {"none", "proof", "claim"},
                   saw : FinalStates]
    BY <1>0, <1>2, <2>1 DEF Sweep
  <2>5. sweep' \in Sweep /\ sweep'.saw = sweep.saw
    BY <2>2, <2>4 DEF Sweep
  <2>6. SweepIsCurrent'
    BY <2>1, <2>2, <2>5 DEF RecordInv, SweepIsCurrent
  <2> QED
    BY <1>0, <2>1, <2>2, <2>3, <2>5, <2>6, NotesWritten, SweepWrites
<1>9. CASE SweepRecord
  <2>1. ~Unpaid /\ sweep.saw = state
    BY <1>1, <1>2, <1>9 DEF SweepRecord, RecordInv, SweepIsCurrent
  <2>2. UNCHANGED <<state, clock, outcome, claim, prepared, calls>> /\ sweep' = NoSweep
    BY <1>9 DEF SweepRecord, chainVars
  <2>3. CASE sweep.saw = "Released" /\ RecordReleased("none")
    BY <1>0, <1>2, <2>1, <2>2, <2>3, ReleasedWrite, SweepWrites DEF SweepIsCurrent
  <2>4. CASE sweep.saw = "Refunded" /\ RecordRefunded("none")
    BY <1>0, <1>2, <2>1, <2>2, <2>4, RefundedWrite, SweepWrites DEF SweepIsCurrent
  <2>5. CASE UNCHANGED dbVars
    BY <1>0, <1>2, <2>1, <2>2, <2>5, NothingWritten, SweepWrites DEF SweepIsCurrent, dbVars
  <2> QED
    BY <1>9, <2>3, <2>4, <2>5 DEF SweepRecord
<1> QED
  BY <1>3, <1>4, <1>5, <1>6, <1>7, <1>8, <1>9 DEF SweepNext

-----------------------------------------------------------------------------
(* The theorems. *)

LEMMA InitHolds ==
    ASSUME Init
    PROVE  RecordInv
<1> USE DEF Init, LifeInit, PlacedOrder, NoSweep
<1>2. TypeOK
  <2>1. LifeTypeOK
    BY DEF LifeTypeOK
  <2>2. row \in Row
    BY DEF Row, Statuses
  <2>3. calls \in [Requests -> Call \cup {NoCall}]
    BY NoCallFits
  <2>4. restored \in 0 .. 2
    OBVIOUS
  <2>5. idle \in BOOLEAN /\ prepared \in BOOLEAN
    BY Zenon
  <2>6. outcome = "none" /\ claim = "none" /\ sweep = NoSweep
    OBVIOUS
  <2> HIDE DEF Init, NoSweep
  <2> QED
    BY <2>1, <2>2, <2>3, <2>4, <2>5, <2>6 DEF TypeOK
<1>3. LifeIsTold /\ SweepIsCurrent
  BY DEF LifeIsTold, SweepIsCurrent, Deadlines
<1>4. CallsAreJustified
  BY NoCallFits DEF CallsAreJustified
<1>5. UnpaidIsUntouched
  BY NoCallFits DEF UnpaidIsUntouched
<1>6. row.status = "pending_payment" /\ restored = 0 /\ ~row.delivered
  OBVIOUS
<1> QED
  BY <1>2, <1>3, <1>4, <1>5, <1>6
  DEF RecordInv, WrittenInv, TypeOK, StockIsJustified, DeliveryIsProven, RecordIsProven,
      StockFollowsMoney, PhaseIsProven, OrderOpenStatuses

LEMMA NextStep ==
    ASSUME RecordInv, [Next]_vars
    PROVE  RecordInv'
<1>1. CASE UNCHANGED vars
  <2>1. UNCHANGED <<state, clock, outcome, claim, prepared, row, idle, restored, calls, sweep>>
    BY <1>1 DEF vars
  <2>2. TypeOK'
    BY <2>1 DEF RecordInv, TypeOK, LifeTypeOK
  <2>3. LifeIsTold' /\ SweepIsCurrent' /\ CallsAreJustified'
    BY <2>1 DEF RecordInv, LifeIsTold, SweepIsCurrent, CallsAreJustified, CallIsJustified
  <2>4. UnpaidIsUntouched'
    BY <2>1 DEF RecordInv, WrittenInv, UnpaidIsUntouched, Unpaid
  <2>5. WriteIsJustified
    BY <2>1, NothingWritten DEF RecordInv, WrittenInv
  <2> QED
    BY <2>2, <2>3, <2>4, <2>5 DEF RecordInv, WrittenInv, WriteIsJustified
<1> QED
  BY <1>1, ChainStep, HourStep, BeginStep, ReadChainStep, FinishStep, GiveUpStep, SweepStep
  DEF Next

LEMMA RecordInvariant == Spec => []RecordInv
  BY InitHolds, NextStep, PTL DEF Spec

\* The record and the calls in flight keep their shape, whatever the handlers,
\* the sweep and the chain do in between.
THEOREM TypeCorrect == Spec => []TypeOK
<1>1. RecordInv => TypeOK
  BY DEF RecordInv
<1> QED
  BY <1>1, RecordInvariant, PTL

\* A closed row tells what the chain did: the conditional UPDATEs of
\* recordReleased, recordRefunded, cancelPending and finishSellerCancel are
\* enough, however many handlers race with each other and with the sweep.
THEOREM RecordProven == Spec => []RecordIsProven
<1>1. RecordInv => RecordIsProven
  BY DEF RecordInv, WrittenInv
<1> QED
  BY <1>1, RecordInvariant, PTL

\* The stock follows the buyer's money through every handler that calls
\* RestoreOrderStock.
THEOREM StockFollows == Spec => []StockFollowsMoney
<1>1. RecordInv => StockFollowsMoney
  BY DEF RecordInv, WrittenInv
<1> QED
  BY <1>1, RecordInvariant, PTL

\* MarkDelivered and SubmitRefund verify the event before they write the phase,
\* and what RejectRefund and DismissRequest restore was verified before.
THEOREM PhaseAlwaysProven == Spec => []PhaseIsProven
<1>1. RecordInv => PhaseIsProven
  BY DEF RecordInv, WrittenInv
<1> QED
  BY <1>1, RecordInvariant, PTL
-----------------------------------------------------------------------------
(* The expiry.  While the payment clock has run out nobody can still sign the *)
(* payment, so what the expiry read of the chain is current when it writes.  *)

ExpiryInv ==
    row.status = "pending_payment" /\ idle =>
        /\ ~prepared
        /\ \A r \in Requests :
              calls[r].op = "Expire" /\ calls[r].saw = "None" => state = "None"

\* No handler and no tick makes an order unpaid again.
LEMMA PaidByHandler ==
    ASSUME RecordInv, NEW c, CallIsJustified(c), Ending(c), row'.status = "pending_payment"
    PROVE  row.status = "pending_payment" /\ idle' \in {idle, FALSE}
           /\ (c.op = "PrepareEscrow" => ~idle')
<1>1. row \in Row
  BY DEF RecordInv, WrittenInv
<1>2. CASE c.op = "PrepareEscrow"
  BY <1>2 DEF Ending, PrepareEscrow
<1>3. CASE c.op \in {"SubmitEscrow", "Expire", "CancelOrder"}
  BY <1>1, <1>3
  DEF Ending, SubmitEscrow, Expire, CancelOrder, MarkOrderEscrowed, CancelPending, Row
<1>4. CASE c.op \in {"CancelAsTreasury", "SubmitCancel"}
  BY <1>1, <1>4 DEF Ending, CancelAsTreasury, SubmitCancel, FinishSellerCancel, Row
<1>5. CASE c.op \in {"SubmitConfirm", "SubmitRefund", "SubmitResolve"}
  BY <1>1, <1>5
  DEF Ending, SubmitConfirm, SubmitRefund, SubmitResolve, RecordReleased, RecordRefunded,
      Overwrite, Row
<1>6. CASE c.op \in {"MarkShipped", "MarkDelivered", "RejectRefund", "RequestCancel",
                     "RejectCancel", "RaiseDispute"}
  BY <1>1, <1>6
  DEF Ending, MarkShipped, MarkDelivered, RejectRefund, RequestCancel, RejectCancel,
      RaiseDispute, Overwrite, Row
<1>7. CASE c.op = "Dismiss"
  BY <1>1, <1>7 DEF Ending, Dismiss, Overwrite, CallIsJustified, Row
<1> QED
  BY <1>2, <1>3, <1>4, <1>5, <1>6, <1>7 DEF Ending

LEMMA PaidBySweep ==
    ASSUME RecordInv, SweepNext
    PROVE  /\ row'.status = "pending_payment" => row.status = "pending_payment"
           /\ UNCHANGED <<idle, prepared, calls, state>>
<1>1. row \in Row
  BY DEF RecordInv, WrittenInv
<1> USE DEF chainVars, dbVars
<1>2. CASE SweepPick \/ SweepSend \/ SweepFails
  BY <1>2 DEF SweepPick, SweepSend, SweepFails
<1>3. CASE SweepRead \/ SweepNote \/ SweepDrop
  BY <1>1, <1>3 DEF SweepRead, SweepNote, SweepDrop, SyncDeadlines, Row
<1>4. CASE SweepRecord
  BY <1>1, <1>4 DEF SweepRecord, RecordReleased, RecordRefunded, Row
<1> QED
  BY <1>2, <1>3, <1>4 DEF SweepNext

LEMMA ExpiryStep ==
    ASSUME RecordInv, ExpiryInv, [Next]_vars, ~SlowPayers
    PROVE  ExpiryInv'
<1> SUFFICES ASSUME row'.status = "pending_payment", idle'
             PROVE  /\ ~prepared'
                    /\ \A q \in Requests :
                          calls'[q].op = "Expire" /\ calls'[q].saw = "None" => state' = "None"
  BY DEF ExpiryInv
<1>1. CASE ChainNext
  <2>1. /\ UNCHANGED <<row, idle, prepared, calls>> /\ ~prepared
        /\ \A q \in Requests :
              calls[q].op = "Expire" /\ calls[q].saw = "None" => state = "None"
    BY <1>1 DEF ChainNext, dbVars, ExpiryInv
  <2>2. state = "None" => state' = "None"
    BY <1>1, <2>1
    DEF ChainNext, FundOrder, Progress, Deliver, RaiseOnChain, Confirm, Cancelled, SellerCancel,
        ClaimedByOthers, Resolved, Decide, ClaimMined, Timeout, TimeoutDue, TimePasses
  <2> QED
    BY <2>1, <2>2
<1>2. CASE HourPasses
  BY <1>2 DEF HourPasses
<1>3. ASSUME NEW r \in Requests, NEW op \in Ops, Begin(r, op)
      PROVE  /\ ~prepared'
             /\ \A q \in Requests :
                   calls'[q].op = "Expire" /\ calls'[q].saw = "None" => state' = "None"
  <2>1. /\ UNCHANGED <<state, row, prepared>> /\ idle
        /\ \A q \in Requests : calls'[q] # calls[q] => calls'[q].saw = "unread"
    BY <1>3 DEF Begin, chainVars, RecordInv, TypeOK
  <2> QED
    BY <2>1 DEF ExpiryInv
<1>4. ASSUME NEW r \in Requests, ReadChain(r)
      PROVE  /\ ~prepared'
             /\ \A q \in Requests :
                   calls'[q].op = "Expire" /\ calls'[q].saw = "None" => state' = "None"
  <2>1. UNCHANGED <<state, row, prepared, idle>>
    BY <1>4 DEF ReadChain, chainVars, dbVars
  <2>2. /\ \A q \in Requests \ {r} : calls'[q] = calls[q]
        /\ calls'[r] = [calls[r] EXCEPT !.saw = state] /\ calls[r] \in Call
    BY <1>4 DEF ReadChain, Idle, RecordInv, TypeOK
  <2>3. calls'[r].saw = state
    BY <2>2 DEF Call
  <2> QED
    BY <2>1, <2>2, <2>3 DEF ExpiryInv
<1>5. ASSUME NEW r \in Requests, GiveUp(r) \/ Finish(r)
      PROVE  /\ ~prepared'
             /\ \A q \in Requests :
                   calls'[q].op = "Expire" /\ calls'[q].saw = "None" => state' = "None"
  <2>1. calls' = [calls EXCEPT ![r] = NoCall] /\ UNCHANGED state
    BY <1>5 DEF GiveUp, Finish, Return, chainVars
  <2>2. /\ \A q \in Requests \ {r} : calls'[q] = calls[q]
        /\ calls'[r] = NoCall /\ NoCall.op # "Expire"
    <3>1. NoCall.op # "Expire"
      BY DEF NoCall
    <3>2. /\ \A q \in Requests \ {r} : calls'[q] = calls[q]
          /\ calls'[r] = NoCall
      BY <2>1, CallWritten, NoCallFits DEF RecordInv
    <3> QED
      BY <3>1, <3>2
  <2>3. row.status = "pending_payment" /\ idle /\ UNCHANGED prepared
    <3>1. CASE GiveUp(r)
      BY <3>1 DEF GiveUp, chainVars, dbVars
    <3>2. CASE Finish(r)
      BY <3>2, PaidByHandler DEF Finish, RecordInv, CallsAreJustified
    <3> QED
      BY <1>5, <3>1, <3>2
  <2> QED
    BY <2>1, <2>2, <2>3 DEF ExpiryInv
<1>6. CASE SweepNext
  <2>1. row.status = "pending_payment" /\ UNCHANGED <<idle, prepared, calls, state>>
    BY <1>6, PaidBySweep
  <2> QED
    BY <2>1 DEF ExpiryInv
<1>7. CASE UNCHANGED vars
  <2>1. UNCHANGED <<state, row, idle, prepared, calls>>
    BY <1>7 DEF vars
  <2> QED
    BY <2>1 DEF ExpiryInv
<1> QED
  BY <1>1, <1>2, <1>3, <1>4, <1>5, <1>6, <1>7 DEF Next

LEMMA ExpiresOnlyUnpaid ==
    ASSUME RecordInv, ExpiryInv, [Next]_vars
    PROVE  ExpiresStep
<1> SUFFICES ASSUME NEW r \in Requests, calls[r].op = "Expire",
                    row.status = "pending_payment", row'.status = "cancelled",
                    calls'[r] = NoCall
             PROVE  state = "None"
  BY DEF ExpiresStep
<1>1. PICK q \in Requests : Finish(q) \/ (\E op \in Ops : Begin(q, op)) \/ ReadChain(q)
                             \/ GiveUp(q)
  <2>1. row' # row
    OBVIOUS
  <2>2. ~ChainNext /\ ~HourPasses /\ ~UNCHANGED vars
    BY <2>1 DEF ChainNext, dbVars, HourPasses, vars
  <2>3. calls' # calls
    BY DEF NoCall
  <2>4. ~SweepNext
    BY <2>3, PaidBySweep
  <2> QED
    BY <2>2, <2>4 DEF Next
<1>2. Finish(q)
  BY <1>1 DEF Begin, ReadChain, GiveUp, dbVars
<1>3. q = r
  <2>1. calls[r] # NoCall
    BY DEF NoCall
  <2>2. \A t \in Requests \ {q} : calls'[t] = calls[t]
    BY <1>2, CallWritten, NoCallFits DEF Finish, Return, RecordInv
  <2> QED
    BY <2>1, <2>2
<1>4. Expire(calls[r])
  BY <1>2, <1>3 DEF Finish, Ending
<1>5. calls[r].saw = "None" /\ idle
  BY <1>4 DEF Expire, CancelPending, MarkOrderEscrowed, RecordInv, WrittenInv, Row
<1> QED
  BY <1>5 DEF ExpiryInv

\* The expiry never cancels an order whose payment the escrow holds, if no
\* buyer pays more than UnpaidOrderTTL after preparing: the payment clock in
\* cancelPending's UPDATE makes up for the chain's answer being stale.
THEOREM ExpirySafe ==
    ASSUME ~SlowPayers
    PROVE  Spec => ExpiryKeepsPaid
<1>1. Init => ExpiryInv
  BY DEF Init, ExpiryInv
<1>2. RecordInv /\ ExpiryInv /\ [Next]_vars => ExpiryInv'
  BY ExpiryStep
<1>3. RecordInv /\ ExpiryInv /\ [Next]_vars => [ExpiresStep]_vars
  BY ExpiresOnlyUnpaid
<1> QED
  BY <1>1, <1>2, <1>3, RecordInvariant, PTL DEF Spec, ExpiryKeepsPaid
-----------------------------------------------------------------------------
(* The stock.  Where every call that runs repeats its condition in its        *)
(* UPDATE, whoever closes the order is the one that restocks it.              *)

\* The handlers whose writes are conditional, or leave the status alone.
Recorders ==
    {"PrepareEscrow", "SubmitEscrow", "Expire", "CancelOrder", "CancelAsTreasury",
     "SubmitConfirm", "SubmitRefund", "SubmitCancel", "RaiseDispute"}

\* The two that compare with the status they read read one of a paid order.
IsRecorder(c) ==
    /\ c.op \in Recorders \cup {"none"}
    /\ c.op \in {"CancelAsTreasury", "SubmitCancel"} => c.from \in OrderOpenStatuses

Restored == restored # 0 => restored = 1 /\ row.status \in ClosedStatuses
OnceInv == Restored /\ \A r \in Requests : IsRecorder(calls[r])

LEMMA RecordersWrite ==
    ASSUME RecordInv, Restored, NEW c, IsRecorder(c), Ending(c)
    PROVE  Restored'
<1>1. row \in Row /\ restored \in 0 .. 2
  BY DEF RecordInv, WrittenInv
<1>2. row.status \in OrderOpenStatuses \cup {"pending_payment"} => restored = 0
  BY StatusNames DEF Restored
<1>3. {"refunded", "cancelled", "completed"} = ClosedStatuses
  BY DEF ClosedStatuses
<1>4. CASE c.op = "PrepareEscrow"
  BY <1>4 DEF Ending, PrepareEscrow, Restored
<1>5. CASE c.op \in {"SubmitEscrow", "Expire", "CancelOrder"}
  <2>1. \/ UNCHANGED <<row, restored>>
        \/ row.status = "pending_payment" /\ UNCHANGED restored
        \/ /\ row.status = "pending_payment" /\ Restock
           /\ row' = [row EXCEPT !.status = "cancelled"]
    BY <1>5
    DEF Ending, SubmitEscrow, Expire, CancelOrder, MarkOrderEscrowed, CancelPending
  <2> QED
    BY <1>1, <1>2, <1>3, <2>1 DEF Restock, Restored, Row
<1>6. CASE c.op \in {"CancelAsTreasury", "SubmitCancel"}
  <2>1. \/ UNCHANGED <<row, restored>>
        \/ /\ row.status \in OrderOpenStatuses /\ Restock
           /\ row' = [row EXCEPT !.status = "cancelled", !.hash = "proof"]
    BY <1>6 DEF Ending, CancelAsTreasury, SubmitCancel, FinishSellerCancel, IsRecorder
  <2>2. \/ UNCHANGED <<row, restored>>
        \/ row.status \in OrderOpenStatuses /\ UNCHANGED restored
        \/ row.status \in OrderOpenStatuses /\ Restock /\ row'.status \in ClosedStatuses
    BY <1>1, <1>3, <2>1 DEF Row
  <2> QED
    BY <1>1, <1>2, <2>2 DEF Restock, Restored
<1>7. CASE c.op \in {"SubmitConfirm", "SubmitRefund"}
  <2>1. \/ UNCHANGED <<row, restored>>
        \/ row.status \in OrderOpenStatuses /\ UNCHANGED restored
        \/ /\ row.status \in OrderOpenStatuses /\ Restock
           /\ row' = [row EXCEPT !.status = "refunded", !.hash = "proof"]
    BY <1>7
    DEF Ending, SubmitConfirm, SubmitRefund, RecordReleased, RecordRefunded, IsOpen, NewHash,
        Overwrite, OrderOpenStatuses
  <2>2. \/ UNCHANGED <<row, restored>>
        \/ row.status \in OrderOpenStatuses /\ UNCHANGED restored
        \/ row.status \in OrderOpenStatuses /\ Restock /\ row'.status \in ClosedStatuses
    BY <1>1, <1>3, <2>1 DEF Row
  <2> QED
    BY <1>1, <1>2, <2>2 DEF Restock, Restored
<1>8. CASE c.op = "RaiseDispute"
  BY <1>1, <1>8 DEF Ending, RaiseDispute, Overwrite, Restored, Row
<1> QED
  BY <1>4, <1>5, <1>6, <1>7, <1>8 DEF Ending, IsRecorder, Recorders

LEMMA SweepWritesOnce ==
    ASSUME RecordInv, Restored, SweepNext
    PROVE  Restored'
<1>1. row \in Row /\ restored \in 0 .. 2
  BY DEF RecordInv, WrittenInv
<1>2. row.status \in OrderOpenStatuses => restored = 0
  BY StatusNames DEF Restored
<1>3. CASE SweepPick \/ SweepSend \/ SweepFails
  BY <1>3 DEF SweepPick, SweepSend, SweepFails, dbVars, Restored
<1>4. CASE SweepRead \/ SweepNote \/ SweepDrop
  BY <1>1, <1>4 DEF SweepRead, SweepNote, SweepDrop, SyncDeadlines, Row, Restored
<1>5. CASE SweepRecord
  <2>1. \/ UNCHANGED <<row, restored>>
        \/ row.status \in OrderOpenStatuses /\ UNCHANGED restored
        \/ /\ row.status \in OrderOpenStatuses /\ Restock
           /\ row' = [row EXCEPT !.status = "refunded", !.hash = NewHash("none")]
    BY <1>5 DEF SweepRecord, RecordReleased, RecordRefunded, IsOpen, dbVars
  <2>2. \/ UNCHANGED <<row, restored>>
        \/ row.status \in OrderOpenStatuses /\ UNCHANGED restored
        \/ row.status \in OrderOpenStatuses /\ Restock /\ row'.status \in ClosedStatuses
    BY <1>1, <2>1 DEF Row, ClosedStatuses
  <2> QED
    BY <1>1, <1>2, <2>2 DEF Restock, Restored
<1> QED
  BY <1>3, <1>4, <1>5 DEF SweepNext

LEMMA OnceStep ==
    ASSUME RecordInv, OnceInv, [Next]_vars, Ops \subseteq Recorders
    PROVE  OnceInv'
<1> USE DEF OnceInv
<1>1. CASE ChainNext \/ HourPasses \/ UNCHANGED vars
  BY <1>1 DEF ChainNext, HourPasses, vars, dbVars, Restored, IsRecorder
<1>2. ASSUME NEW r \in Requests, NEW op \in Ops, Begin(r, op)
      PROVE  OnceInv'
  <2>1. UNCHANGED <<row, restored>> /\ op \in Recorders /\ Admits(op)
    BY <1>2 DEF Begin
  <2>2. /\ \A q \in Requests \ {r} : calls'[q] = calls[q]
        /\ calls'[r].op = op /\ calls'[r].from = row.status
    BY <1>2 DEF Begin, RecordInv, TypeOK
  <2>3. op \in {"CancelAsTreasury", "SubmitCancel"} => row.status \in OrderOpenStatuses
    BY <2>1 DEF Admits, MayCancelPaid, MayAnswerCancel, OrderOpenStatuses
  <2> QED
    BY <2>1, <2>2, <2>3 DEF Restored, IsRecorder
<1>3. ASSUME NEW r \in Requests, ReadChain(r)
      PROVE  OnceInv'
  <2>1. UNCHANGED <<row, restored>>
    BY <1>3 DEF ReadChain, dbVars
  <2>2. /\ \A q \in Requests \ {r} : calls'[q] = calls[q]
        /\ calls'[r] = [calls[r] EXCEPT !.saw = state] /\ calls[r] \in Call
    BY <1>3 DEF ReadChain, Idle, RecordInv, TypeOK
  <2>3. calls'[r].op = calls[r].op /\ calls'[r].from = calls[r].from
    BY <2>2 DEF Call
  <2> QED
    BY <2>1, <2>2, <2>3 DEF Restored, IsRecorder
<1>4. ASSUME NEW r \in Requests, GiveUp(r) \/ Finish(r)
      PROVE  OnceInv'
  <2>1. /\ \A q \in Requests \ {r} : calls'[q] = calls[q]
        /\ calls'[r] = NoCall
    BY <1>4, CallWritten, NoCallFits DEF GiveUp, Finish, Return, RecordInv
  <2>2. Restored'
    <3>1. CASE GiveUp(r)
      BY <3>1 DEF GiveUp, dbVars, Restored
    <3>2. CASE Finish(r)
      BY <3>2, RecordersWrite DEF Finish
    <3> QED
      BY <1>4, <3>1, <3>2
  <2> QED
    BY <2>1, <2>2 DEF IsRecorder, NoCall
<1>5. CASE SweepNext
  <2>1. UNCHANGED calls
    BY <1>5, PaidBySweep
  <2>2. Restored'
    BY <1>5, SweepWritesOnce
  <2> QED
    BY <2>1, <2>2 DEF IsRecorder
<1> QED
  BY <1>1, <1>2, <1>3, <1>4, <1>5 DEF Next

\* What the recorders' comment says ("of two recorders racing only one acts",
\* order_settlement.go), for any number of them at once, the expiry and the
\* sweep: the stock comes back at most once.  It is false as soon as one handler
\* that writes unconditionally takes part.
THEOREM StockComesBackOnce ==
    ASSUME Ops \subseteq Recorders
    PROVE  Spec => []StockReturnsOnce
<1>1. Init => OnceInv
  BY DEF Init, OnceInv, Restored, IsRecorder, NoCall
<1>2. RecordInv /\ OnceInv /\ [Next]_vars => OnceInv'
  BY OnceStep
<1>3. RecordInv /\ OnceInv => StockReturnsOnce
  BY DEF OnceInv, Restored, StockReturnsOnce, RecordInv, WrittenInv
<1> QED
  BY <1>1, <1>2, <1>3, RecordInvariant, PTL DEF Spec

=============================================================================
