---------------------------- MODULE SellerPayout ----------------------------
(***************************************************************************)
(* The payout of one marketplace sale to the seller's bank: the machine     *)
(* (services/seller_payout_orchestrator.go, seller_payout_company.go), the  *)
(* operators' way through a parked one (seller_payout_admin.go,             *)
(* seller_payout_operator.go), and what they share: the legs                *)
(* (ramp_leg_store.go, leg_runner.go) and the Paycrest sales                *)
(* (paycrest_sell_fiat.go, paycrest_order_service.go).                      *)
(*                                                                          *)
(* Every read and write of the database is a step of its own where another  *)
(* process or a crash can come between; a thread keeps the row it loaded    *)
(* and acts on it.  Legs, sales and transfers are read when they are acted  *)
(* on.  What the machine waits for (the chain, Paycrest, the bank, a person *)
(* recording a release) is the environment.  A clock is a choice: a window, *)
(* a grace or a ceiling may have passed or not, and a tick that only waits  *)
(* takes no step.  Amounts are left out: what the properties tell apart of  *)
(* one is whether it is proven, and whether it covers what is owed.         *)
(***************************************************************************)
EXTENDS Naturals, FiniteSets

CONSTANTS
    Tickers,        \* the ticks that can run at once: one per process
    Operators,      \* the operators' calls that can run at once
    Forced,         \* do the operators force a retry after reading the chain?
    MaxLegs,        \* bound: attempts at one kind of leg
    MaxSales,       \* bound: Paycrest orders
    MaxRefs,        \* bound: generations of the company transfer's reference
    MaxFaults       \* bound: refusals, losses, crashes

ASSUME PayoutAssumption ==
    /\ Tickers \cap Operators = {}
    /\ Forced \in BOOLEAN
    /\ MaxLegs \in Nat /\ MaxSales \in Nat /\ MaxRefs \in Nat \ {0} /\ MaxFaults \in Nat

VARIABLES
    pay,            \* seller_payouts: the row
    leg,            \* ramp_legs: the payout's legs, by kind and attempt
    sale,           \* paycrest_orders: the payout's sales
    order,          \* what became of the marketplace order
    tx,             \* what became of each leg's transaction
    desk,           \* what became of each sale at Paycrest
    bank,           \* what became of each company transfer, by reference
    thread,
    faults

rowVars == <<pay, leg, sale>>
worldVars == <<order, tx, desk, bank>>
vars == <<pay, leg, sale, order, tx, desk, bank, thread, faults>>

Threads == Tickers \cup Operators
Kinds == {"bridge", "deposit", "refund"}
Legs == Kinds \X (1..MaxLegs)
NoLeg == <<"none", 0>>
Sales == 1..MaxSales
Refs == 1..MaxRefs

Over == {"paid", "paid_wallet", "cancelled"}
Moving == {"awaiting_release", "received", "bridging", "bridged", "selling", "ordered",
           "depositing", "deposited", "paying_wallet", "paying_company"}

\* gen counts from 1; ref and transfer name a generation, 0 is none.  attempts
\* stops at 2: only none, one and more are told apart.  received: the proven
\* amount.  byHand: the row was marked paid by an operator.
Row == [status : Moving \cup Over \cup {"needs_review"}, venue : {"paycrest", "company"},
        parked : Moving \cup {"none"}, safe : BOOLEAN, received : BOOLEAN,
        sale : 0..MaxSales, attempts : 0..2, gen : Refs, ref : 0..MaxRefs,
        transfer : 0..MaxRefs, paidAt : BOOLEAN, rebalanced : BOOLEAN, byHand : BOOLEAN]
\* approved: an approve is recorded.  sale: whose deposit address it pays.
Leg == [status : {"none", "pending", "confirmed", "failed"}, approved : BOOLEAN,
        sale : 0..MaxSales]
\* ended: refunded, expired or unmatched.  short: it would underpay the seller.
Sale == [status : {"none", "awaiting", "settled", "ended", "failed", "cancelled"},
         claimed : BOOLEAN, short : BOOLEAN]
Transaction == {"none", "flying", "done", "lost", "cancelled"}
Steps == {"idle", "loaded", "reserve", "claim", "send", "landed", "ask", "opened", "shortfall",
          "withdrawn", "request", "accepted", "refused", "funded"}
Thread == [pc : Steps, row : Row, leg : Legs \cup {NoLeg}, sale : 0..MaxSales]

NewRow(venue) ==
    [status |-> "awaiting_release", venue |-> venue, parked |-> "none", safe |-> FALSE,
     received |-> FALSE, sale |-> 0, attempts |-> 0, gen |-> 1, ref |-> 0, transfer |-> 0,
     paidAt |-> FALSE, rebalanced |-> FALSE, byHand |-> FALSE]
Idle == [pc |-> "idle", row |-> NewRow("paycrest"), leg |-> NoLeg, sale |-> 0]

Init ==
    /\ \E venue \in {"paycrest", "company"} : pay = NewRow(venue)
    /\ leg = [l \in Legs |-> [status |-> "none", approved |-> FALSE, sale |-> 0]]
    /\ sale = [s \in Sales |-> [status |-> "none", claimed |-> FALSE, short |-> FALSE]]
    /\ order = "open"
    /\ tx = [l \in Legs |-> "none"]
    /\ desk = [s \in Sales |-> "none"]
    /\ bank = [r \in Refs |-> "none"]
    /\ thread = [t \in Threads |-> Idle]
    /\ faults = 0

Is(l, status) == leg[l].status = status
\* SetTxHash runs in the lane's own transaction: a recorded hash is a sent call.
Sent(l) == tx[l] # "none"
Of(kind, status) == {l \in Legs : l[1] = kind /\ Is(l, status)}
Pending == {l \in Legs : Is(l, "pending")}
\* latestPendingLeg: the highest attempt of any kind.
IsLatest(l) == l \in Pending /\ \A m \in Pending : m[2] <= l[2]
\* A cancelled or failed sale is a refused attempt.
LiveSales == {s \in Sales : sale[s].status \in {"awaiting", "settled", "ended"}}
LiveTransfer(r) == r \in Refs /\ bank[r] \in {"pending", "paid"}

\* Mutant: an attempt whose outcome is unknown counts as refused.
CompanyNothingKnown(row) ==
    \/ row.attempts = 0
    \/ row.attempts = 1 /\ row.parked = "paying_company"
\* companyNothingSent: no attempt, or one the provider refused.
CompanyNothingSent(row) ==
    \/ row.attempts = 0
    \/ row.attempts = 1 /\ row.parked = "paying_company" /\ row.safe

At(t, pc) == thread[t].pc = pc
\* What a thread is about to decide on the row it loaded.
Holds(t, statuses) == At(t, "loaded") /\ thread[t].row.status \in statuses
Goto(t, state) == thread' = [thread EXCEPT ![t] = state]
Go(t, pc, row, l, s) == Goto(t, [pc |-> pc, row |-> row, leg |-> l, sale |-> s])
On(t, pc) == Go(t, pc, thread[t].row, thread[t].leg, thread[t].sale)
Stop(t) == Goto(t, Idle)
\* What is refused, lost or late counts as a fault.
Fault == faults < MaxFaults /\ faults' = faults + 1
NoFault == faults' = faults

\* move: only while the row is still in one of from.
Move(from, row) == pay' = IF pay.status \in from THEN row ELSE pay
To(status) == [pay EXCEPT !.status = status]

\* parkWith: from any state that moves; at is the status the thread knows of.
Park(t, at, safe) ==
    /\ Move(Moving, [pay EXCEPT !.status = "needs_review", !.parked = at, !.safe = safe])
    /\ Stop(t)
ParkRow(t, safe) == Park(t, thread[t].row.status, safe)

\* FailExpected, FailUnsent: a pending leg, if it still records what was read.
Ends(l, status) == leg' = [leg EXCEPT ![l] = [status |-> status, approved |-> leg[l].approved,
                                              sale |-> leg[l].sale]]
\* failLeg: a leg that recorded no transaction; one that did stays as it is.
FailUnsent(l) == IF Is(l, "pending") /\ ~Sent(l) THEN Ends(l, "failed") ELSE leg' = leg

-----------------------------------------------------------------------------
(* A tick. *)

\* Tick: every row that moves; one that awaits its release once the order ended.
Load(t) ==
    /\ t \in Tickers
    /\ At(t, "idle")
    /\ pay.status \in Moving
    /\ pay.status = "awaiting_release" => order # "open"
    /\ Go(t, "loaded", pay, NoLeg, 0)
    /\ UNCHANGED <<rowVars, worldVars, faults>>

\* Mutant: a deposit that may have left counts as nothing sent.
LanesSafeDepositing == {"awaiting_release", "received", "bridged", "ordered", "depositing"}
\* Advance: the treasury's lanes do not agree on their signer.
LanesSafe == {"awaiting_release", "received", "bridged"}
LanesDisagree(t) ==
    /\ t \in Tickers
    /\ Holds(t, Moving)
    /\ thread[t].row.venue = "company" => thread[t].row.status = "awaiting_release"
    /\ NoFault
    /\ ParkRow(t, thread[t].row.status \in LanesSafe)
    /\ UNCHANGED <<leg, sale, worldVars>>

\* awaitRelease, checkStale.
AwaitRelease(t) ==
    /\ t \in Tickers
    /\ Holds(t, {"awaiting_release"})
    /\ \/ order = "ended" /\ Move({"awaiting_release"}, To("cancelled")) /\ Stop(t)
       \/ /\ order = "released"
          /\ Move({"awaiting_release"}, [pay EXCEPT !.status = "received", !.received = TRUE])
          /\ Stop(t)
       \* Less than it was priced to pay, or resolved and never recorded.
       \/ order \in {"short", "unrecorded"} /\ ParkRow(t, TRUE)
       \* Completed with no hash: the next tick reads it.
       \/ order = "nohash" /\ pay' = pay /\ Stop(t)
    /\ NoFault
    /\ UNCHANGED <<leg, sale, worldVars>>

\* Mutant: a call past its ceiling is given up with the others.
RetiredLate(l) == tx[l] # "done"
\* recoverHashless, resumeBridgeAfterApprove: nothing was sent under the leg, and its
\* operation is retired.  followLeg: the lane cancelled the call.
Retired(l) == ~Sent(l) \/ tx[l] = "cancelled"

\* observeBridge, observeDeposit, observeWalletPayment on a pending leg.
Observe(t, l) ==
    /\ \/ Retired(l) /\ Ends(l, "failed") /\ Stop(t) /\ pay' = pay
       \* verifyTransfer proves it; a deposit at the address of the row's own sale.
       \/ /\ tx[l] = "done"
          /\ l[1] = "deposit" => leg[l].sale = thread[t].row.sale
          /\ Ends(l, "confirmed")
          /\ Go(t, "landed", thread[t].row, l, 0)
          /\ pay' = pay
       \* Refuted, or past the ceiling.
       \/ /\ \/ tx[l] = "lost"
             \/ tx[l] = "flying" /\ l[1] # "refund"
             \/ tx[l] = "done" /\ l[1] = "deposit" /\ leg[l].sale # thread[t].row.sale
          /\ ParkRow(t, FALSE) /\ leg' = leg
       \* It landed, and there is no Base lane to read it on.
       \/ tx[l] = "done" /\ l[1] = "bridge" /\ ParkRow(t, TRUE) /\ leg' = leg
       \/ tx[l] = "flying" /\ Stop(t) /\ UNCHANGED <<pay, leg>>
    /\ NoFault
    /\ UNCHANGED <<sale, worldVars>>

IsBridging(t) ==
    t \in Tickers /\ Holds(t, {"received", "bridging"}) /\ thread[t].row.venue = "paycrest"

\* advanceBridge: a pending leg is observed, a confirmed one ends the step, one that
\* broadcast is never retried, and only then a new attempt is started.
AdvanceBridge(t) ==
    /\ IsBridging(t)
    /\ Pending = {}
    /\ IF Of("bridge", "confirmed") # {}
       THEN Move({"received", "bridging"}, To("bridged")) /\ Stop(t)
       ELSE IF \E l \in Of("bridge", "failed") : Sent(l)
       THEN ParkRow(t, FALSE)
       ELSE \* The window since the first attempt may be over.
            \/ /\ Of("bridge", "failed") # {}
               /\ ParkRow(t, \A l \in Legs : ~Sent(l))
            \/ Go(t, "reserve", thread[t].row, NoLeg, 0) /\ pay' = pay
    /\ NoFault
    /\ UNCHANGED <<leg, sale, worldVars>>

\* startBridge before the leg: no lane, a cap, a kill switch.
BridgeRefused(t) ==
    /\ IsBridging(t)
    /\ Pending = {} /\ \A l \in Of("bridge", "failed") : ~Sent(l)
    /\ Of("bridge", "confirmed") = {}
    /\ NoFault
    /\ ParkRow(t, TRUE)
    /\ UNCHANGED <<leg, sale, worldVars>>

\* The latest pending leg is the step's own, or the payout parks.
ObservePending(t, l) ==
    /\ IsLatest(l)
    /\ \/ IsBridging(t) /\ l[1] = "bridge"
       \/ t \in Tickers /\ Holds(t, {"ordered", "depositing"}) /\ thread[t].row.sale # 0
          /\ l[1] = "deposit"
    /\ Observe(t, l)

UnexpectedLeg(t, l) ==
    /\ IsLatest(l)
    /\ \/ IsBridging(t) /\ l[1] # "bridge"
       \/ t \in Tickers /\ Holds(t, {"ordered", "depositing"}) /\ thread[t].row.sale # 0
          /\ l[1] # "deposit"
    /\ ParkRow(t, FALSE)
    /\ NoFault
    /\ UNCHANGED <<leg, sale, worldVars>>

\* What the reserve of this step is for.
KindOf(row) == CASE row.status = "needs_review" -> "refund"
                 [] row.status \in {"ordered", "depositing"} -> "deposit"
                 [] OTHER -> "bridge"

\* NextAttempt and Reserve.  Of two at one attempt the index leaves one, and the
\* other returns; one more index each for a pending refund and a live deposit.
Reserve(t) ==
    /\ At(t, "reserve")
    /\ LET kind == KindOf(thread[t].row) IN
       IF \/ kind = "refund" /\ Of(kind, "pending") # {}
          \/ kind = "deposit" /\ Of(kind, "pending") \cup Of(kind, "confirmed") # {}
       THEN Stop(t) /\ leg' = leg
       ELSE \E l \in Legs :
               /\ l[1] = kind /\ Is(l, "none")
               /\ \A m \in Legs : m[1] = kind /\ m[2] < l[2] => ~Is(m, "none")
               /\ leg' = [leg EXCEPT ![l] = [status |-> "pending", approved |-> FALSE,
                            sale |-> IF kind = "deposit" THEN thread[t].row.sale ELSE 0]]
               /\ Go(t, "claim", thread[t].row, l, 0)
    /\ NoFault
    /\ UNCHANGED <<pay, sale, worldVars>>

\* The status after the leg: a tick that lost it goes on, an operator's call does not.
Claim(t) ==
    /\ At(t, "claim")
    /\ CASE thread[t].leg[1] = "bridge" ->
              Move({"received", "bridging"}, To("bridging")) /\ On(t, "send") /\ leg' = leg
         [] thread[t].leg[1] = "deposit" ->
              Move({"ordered", "depositing"}, To("depositing")) /\ On(t, "send") /\ leg' = leg
         [] OTHER ->
              /\ Move({"needs_review"}, To("paying_wallet"))
              /\ IF pay.status = "needs_review" THEN On(t, "send") /\ leg' = leg
                 ELSE Stop(t) /\ FailUnsent(thread[t].leg)
    /\ NoFault
    /\ UNCHANGED <<sale, worldVars>>

\* The approve of a bridge, with its hash on the pending leg.
Approve(t) ==
    /\ At(t, "send")
    /\ LET l == thread[t].leg IN
       /\ l[1] = "bridge" /\ Is(l, "pending") /\ ~leg[l].approved
       /\ leg' = [leg EXCEPT ![l] = [status |-> "pending", approved |-> TRUE, sale |-> 0]]
    /\ NoFault
    /\ UNCHANGED <<pay, sale, worldVars, thread>>

\* executeBridgeLeg, TransferToken: committed with the leg's hash, or not at all.
Send(t) ==
    /\ At(t, "send")
    /\ LET l == thread[t].leg IN
       /\ Is(l, "pending") /\ ~Sent(l)
       /\ tx' = [tx EXCEPT ![l] = "flying"]
    /\ Stop(t)
    /\ NoFault
    /\ UNCHANGED <<rowVars, order, desk, bank>>

\* No quote, no route, a refusal of the lane or of the hook: failLeg.
SendRefused(t) ==
    /\ At(t, "send")
    /\ LET l == thread[t].leg IN
       /\ IF Is(l, "pending") /\ ~Sent(l) THEN Fault ELSE NoFault
       /\ FailUnsent(l)
       /\ IF l[1] = "refund" THEN On(t, "refused") ELSE Stop(t)
    /\ UNCHANGED <<pay, sale, worldVars>>

\* StartWalletPayment: a refused transfer sends the payout back to review.
WalletRefused(t) ==
    /\ At(t, "refused")
    /\ Move({"paying_wallet"}, To("needs_review"))
    /\ Stop(t)
    /\ NoFault
    /\ UNCHANGED <<leg, sale, worldVars>>

\* The leg is proven: the row follows.  A deposit's sale is claimed first.
Landed(t) ==
    /\ At(t, "landed")
    /\ CASE thread[t].leg[1] = "bridge" ->
              Move({"received", "bridging"}, To("bridged")) /\ Stop(t) /\ sale' = sale
         [] thread[t].leg[1] = "refund" ->
              Move({"paying_wallet"}, To("paid_wallet")) /\ Stop(t) /\ sale' = sale
         [] OTHER ->
              /\ sale' = [sale EXCEPT ![thread[t].row.sale] =
                            [status |-> @.status, claimed |-> TRUE, short |-> @.short]]
              /\ On(t, "funded") /\ pay' = pay
    /\ NoFault
    /\ UNCHANGED <<leg, worldVars>>

Funded(t) ==
    /\ At(t, "funded")
    /\ Move({"ordered", "depositing"}, To("deposited"))
    /\ Stop(t)
    /\ NoFault
    /\ UNCHANGED <<leg, sale, worldVars>>

-----------------------------------------------------------------------------
(* The sale at Paycrest. *)

\* openSell before Paycrest is asked: the payout is claimed.
OpenSell(t) ==
    /\ t \in Tickers
    /\ Holds(t, {"bridged"})
    /\ \* No confirmed bridge, or no venue took the sale inside the retry window.
       \/ ParkRow(t, FALSE)
       \/ /\ Of("bridge", "confirmed") # {}
          /\ Move({"bridged"}, To("selling"))
          /\ IF pay.status = "bridged"
             THEN Go(t, "ask", [thread[t].row EXCEPT !.status = "selling"], NoLeg, 0)
             ELSE Stop(t)
    /\ NoFault
    /\ UNCHANGED <<leg, sale, worldVars>>

\* CreateSellForFiat refuses: a shortfall, nothing sent, or an unknown outcome (an
\* order that has no row).
SaleRefused(t) ==
    /\ At(t, "ask")
    /\ \/ Move({"selling"}, To("bridged")) /\ Go(t, "shortfall", thread[t].row, NoLeg, 0)
       \/ Move({"selling"}, To("bridged")) /\ Stop(t)
       \/ Park(t, "selling", FALSE)
    /\ Fault
    /\ UNCHANGED <<leg, sale, worldVars>>

\* Back in bridged, so that a retry runs the sale again.
Shortfall(t) ==
    /\ At(t, "shortfall")
    /\ Park(t, "bridged", TRUE)
    /\ NoFault
    /\ UNCHANGED <<leg, sale, worldVars>>

\* openOfframp: the row of a new sale.  One that pays short is a fault of the rate.
SaleOpened(t) ==
    /\ At(t, "ask")
    /\ \E s \in Sales, short \in BOOLEAN :
          /\ sale[s].status = "none" /\ \A r \in Sales : r < s => sale[r].status # "none"
          /\ sale' = [sale EXCEPT ![s] = [status |-> "awaiting", claimed |-> FALSE,
                                          short |-> short]]
          /\ desk' = [desk EXCEPT ![s] = "open"]
          /\ IF short THEN Fault ELSE NoFault
          /\ Go(t, "opened", thread[t].row, NoLeg, s)
    /\ UNCHANGED <<pay, leg, order, tx, bank>>

CancelSale(s) == sale' = [sale EXCEPT ![s] = [status |-> "cancelled", claimed |-> FALSE,
                                              short |-> @.short]]
Cancellable(s) == sale[s].status = "awaiting" /\ ~sale[s].claimed

\* The naira is covered: the payout links its sale.  Short of it, the sale is
\* withdrawn (cancelShortOrder), and another may be opened at a lower fee; one that
\* cannot be withdrawn may be funded.
Opened(t) ==
    /\ At(t, "opened")
    /\ LET s == thread[t].sale IN
       \/ /\ ~sale[s].short
          /\ Move({"selling"}, [pay EXCEPT !.status = "ordered", !.sale = s])
          /\ Stop(t)
          /\ NoFault
          /\ sale' = sale
       \/ /\ sale[s].short
          /\ \/ /\ Cancellable(s) /\ CancelSale(s) /\ pay' = pay /\ NoFault
                /\ On(t, "withdrawn") \/ On(t, "ask")
             \/ /\ IF Cancellable(s) THEN Fault ELSE NoFault
                /\ Park(t, "selling", FALSE) /\ sale' = sale
    /\ UNCHANGED <<leg, worldVars>>

\* A withdrawn sale: the payout goes back for another one.
Withdrawn(t) ==
    /\ At(t, "withdrawn")
    /\ IF thread[t].row.status = "selling"
       THEN Move({"selling"}, To("bridged"))
       ELSE Move({"ordered", "depositing"}, [pay EXCEPT !.status = "bridged", !.sale = 0])
    /\ Stop(t)
    /\ NoFault
    /\ UNCHANGED <<leg, sale, worldVars>>

\* recoverSelling: the one live sale of the payout is adopted.
RecoverSelling(t) ==
    /\ t \in Tickers
    /\ Holds(t, {"selling"})
    /\ \/ \E s \in LiveSales : /\ LiveSales = {s}
                               /\ Move({"selling"}, [pay EXCEPT !.status = "ordered", !.sale = s])
                               /\ Stop(t)
       \/ Cardinality(LiveSales) # 1 /\ ParkRow(t, FALSE)
    /\ NoFault
    /\ UNCHANGED <<leg, sale, worldVars>>

\* Holds the row of a sale (paycrestOrder fails without one), and no leg is pending.
AtDeposit(t) ==
    t \in Tickers /\ Holds(t, {"ordered", "depositing"}) /\ thread[t].row.sale # 0 /\ Pending = {}

\* advanceDeposit: the deposit is done, or it is to be sent.
AdvanceDeposit(t) ==
    /\ AtDeposit(t)
    /\ LET s == thread[t].row.sale IN
       IF Of("deposit", "confirmed") # {}
       THEN Move({"ordered", "depositing"}, To("deposited")) /\ Stop(t) /\ sale' = sale
       ELSE IF sale[s].status # "awaiting" THEN ParkRow(t, FALSE) /\ sale' = sale
       ELSE IF desk[s] \in {"late", "expired"}
       \* CancelPayoutSale: the sale lapses before it is funded.
       THEN IF Cancellable(s)
            THEN CancelSale(s) /\ Go(t, "withdrawn", thread[t].row, NoLeg, s) /\ pay' = pay
            ELSE ParkRow(t, FALSE) /\ sale' = sale
       ELSE /\ sale' = sale
            \* No Base lane, no decimals; else the one deposit is reserved.
            /\ ParkRow(t, TRUE) \/ (Go(t, "reserve", thread[t].row, NoLeg, 0) /\ pay' = pay)
    /\ NoFault
    /\ UNCHANGED <<leg, worldVars>>

\* Mutant: a sale that ended is one that paid.
FollowSellToItsEnd(t) ==
    /\ t \in Tickers
    /\ Holds(t, {"deposited"}) /\ thread[t].row.sale # 0
    /\ LET status == sale[thread[t].row.sale].status IN
       \/ status \in {"settled", "ended"} /\ Move({"deposited"}, To("paid")) /\ Stop(t)
       \/ status \notin {"settled", "ended"} /\ ParkRow(t, FALSE)
       \/ status = "awaiting" /\ Stop(t) /\ pay' = pay
    /\ NoFault
    /\ UNCHANGED <<leg, sale, worldVars>>
\* followSell: settled is paid; any other end, or a day of waiting, parks.
FollowSell(t) ==
    /\ t \in Tickers
    /\ Holds(t, {"deposited"}) /\ thread[t].row.sale # 0
    /\ LET status == sale[thread[t].row.sale].status IN
       \/ status = "settled" /\ Move({"deposited"}, To("paid")) /\ Stop(t)
       \/ status # "settled" /\ ParkRow(t, FALSE)
       \/ status = "awaiting" /\ Stop(t) /\ pay' = pay
    /\ NoFault
    /\ UNCHANGED <<leg, sale, worldVars>>

-----------------------------------------------------------------------------
(* The company route, and the payment to the seller's wallet. *)

\* startCompany: no account, no float; else the attempt is claimed with its reference.
StartCompany(t) ==
    /\ t \in Tickers
    /\ Holds(t, {"received", "bridging"}) /\ thread[t].row.venue = "company"
    /\ LET ref == thread[t].row.gen IN
       \/ ParkRow(t, TRUE)
       \/ /\ Move({"received"}, [pay EXCEPT !.status = "paying_company", !.ref = ref,
                    !.attempts = IF pay.attempts = 2 THEN 2 ELSE pay.attempts + 1, !.transfer = 0])
          /\ IF pay.status = "received"
             THEN Go(t, "request", [thread[t].row EXCEPT !.status = "paying_company"], NoLeg, 0)
             ELSE Stop(t)
    /\ NoFault
    /\ UNCHANGED <<leg, sale, worldVars>>

\* InitiatePayout: accepted, refused, or its answer lost.  A reference that was used
\* makes no second transfer.
Request(t) ==
    /\ At(t, "request")
    /\ LET ref == thread[t].row.gen
           sent == [bank EXCEPT ![ref] = IF @ = "none" THEN "pending" ELSE @]
       IN \/ bank' = sent /\ On(t, "accepted") /\ pay' = pay /\ NoFault
          \/ bank' = bank /\ Park(t, "paying_company", TRUE) /\ NoFault
          \/ bank' \in {bank, sent} /\ Park(t, "paying_company", FALSE) /\ Fault
    /\ UNCHANGED <<leg, sale, order, tx, desk>>

\* The transfer's id, if the row is still in paying_company.
RecordId(t) ==
    /\ At(t, "accepted")
    /\ Move({"paying_company"}, [pay EXCEPT !.transfer = thread[t].row.gen])
    /\ Stop(t)
    /\ NoFault
    /\ UNCHANGED <<leg, sale, worldVars>>

\* observeCompany: the transfer is read back by the id on the row.
ObserveCompany(t) ==
    /\ t \in Tickers
    /\ Holds(t, {"paying_company"})
    /\ LET row == thread[t].row IN
       IF row.transfer = 0 \/ row.transfer # row.ref
       THEN \* Claimed and its outcome never recorded; not this attempt's transfer.
            ParkRow(t, FALSE)
       ELSE \/ /\ bank[row.transfer] = "paid"
               /\ Move({"paying_company"}, [pay EXCEPT !.status = "paid", !.paidAt = TRUE])
               /\ Stop(t)
            \/ bank[row.transfer] \in {"dead", "reversed"} /\ ParkRow(t, FALSE)
            \/ bank[row.transfer] = "pending" /\ Stop(t) /\ pay' = pay
    /\ NoFault
    /\ UNCHANGED <<leg, sale, worldVars>>

\* Mutant: it parks the status it finds.
FlagReversalAsFound ==
    /\ pay.ref # 0 /\ bank[pay.ref] = "reversed"
    /\ pay.status \in {"paid", "paying_company"}
    /\ pay' = [pay EXCEPT !.status = "needs_review", !.parked = pay.status,
                          !.safe = FALSE, !.paidAt = FALSE]
    /\ UNCHANGED <<leg, sale, worldVars, thread, faults>>
\* FlagCompanyReversal: the provider's webhook, which may never come.
FlagReversal ==
    /\ pay.ref # 0 /\ bank[pay.ref] = "reversed"
    /\ pay.status \in {"paid", "paying_company"}
    /\ pay' = [pay EXCEPT !.status = "needs_review", !.parked = "paying_company",
                          !.safe = FALSE, !.paidAt = FALSE]
    /\ UNCHANGED <<leg, sale, worldVars, thread, faults>>

\* observeWalletPayment.
ObserveWallet(t, l) ==
    /\ t \in Tickers
    /\ Holds(t, {"paying_wallet"})
    /\ l \in Of("refund", "pending")
    /\ Observe(t, l)

\* Mutant: a transfer that provably never left is waited for.
WalletForgotten(t) ==
    /\ t \in Tickers
    /\ Holds(t, {"paying_wallet"})
    /\ Of("refund", "pending") = {}
    /\ IF Of("refund", "confirmed") # {} THEN Move({"paying_wallet"}, To("paid_wallet")) ELSE pay' = pay
    /\ Stop(t)
    /\ NoFault
    /\ UNCHANGED <<leg, sale, worldVars>>
\* observeWalletPayment with no transfer to observe.
WalletOver(t) ==
    /\ t \in Tickers
    /\ Holds(t, {"paying_wallet"})
    /\ Of("refund", "pending") = {}
    /\ IF Of("refund", "confirmed") # {}
       THEN Move({"paying_wallet"}, To("paid_wallet")) /\ Stop(t)
       ELSE ParkRow(t, FALSE)
    /\ NoFault
    /\ UNCHANGED <<leg, sale, worldVars>>

-----------------------------------------------------------------------------
(* The operators. *)

LoadParked(t) ==
    /\ t \in Operators
    /\ At(t, "idle")
    /\ pay.status = "needs_review"
    /\ Go(t, "loaded", pay, NoLeg, 0)
    /\ UNCHANGED <<rowVars, worldVars, faults>>

\* A change of the row an operator makes, if it is still parked.
Decide(t, row) ==
    /\ Move({"needs_review"}, row)
    /\ Stop(t)
    /\ NoFault
    /\ UNCHANGED <<leg, sale, worldVars>>

\* Retry from anywhere but the company's transfer.
Retry(t) ==
    /\ t \in Operators
    /\ Holds(t, {"needs_review"})
    /\ LET row == thread[t].row IN
       /\ row.parked \notin {"none", "paying_company"}
       /\ row.safe \/ Forced
       /\ Decide(t, [pay EXCEPT !.safe = FALSE,
            !.status = IF row.parked = "selling" /\ LiveSales = {} THEN "bridged" ELSE row.parked])

\* Retry after a company transfer: one with an id must be dead; the operator who
\* forces the retry of one without has looked it up.  A new reference.
RetryCompany(t) ==
    /\ t \in Operators
    /\ Holds(t, {"needs_review"})
    /\ LET row == thread[t].row IN
       /\ row.parked = "paying_company"
       /\ row.safe \/ Forced
       /\ IF row.transfer # 0 THEN bank[row.transfer] \in {"dead", "reversed"}
          ELSE row.safe \/ ~LiveTransfer(row.ref)
       /\ pay.gen < MaxRefs
       /\ Decide(t, [pay EXCEPT !.safe = FALSE, !.status = "received", !.gen = pay.gen + 1,
                                !.transfer = 0, !.paidAt = FALSE])

\* hasLiveVenue.
LiveVenue(row) ==
    \/ row.venue = "company" /\ row.transfer # 0 /\ LiveTransfer(row.transfer)
    \/ row.sale # 0 /\ sale[row.sale].status = "awaiting"
    \/ Pending # {}

\* MarkPaid: the seller was paid outside the machine.
MarkPaid(t) ==
    /\ t \in Operators
    /\ Holds(t, {"needs_review"})
    /\ Forced \/ ~LiveVenue(thread[t].row)
    /\ Decide(t, [pay EXCEPT !.status = "paid", !.byHand = TRUE])

\* Every leg failed and recorded no transaction.
NothingSent(kinds) == \A l \in Legs : l[1] \in kinds /\ ~Is(l, "none") => Is(l, "failed") /\ ~Sent(l)

Cancel(t) ==
    /\ t \in Operators
    /\ Holds(t, {"needs_review"})
    /\ ~thread[t].row.received
    /\ NothingSent(Kinds)
    /\ (\E l \in Legs : ~Is(l, "none")) => thread[t].row.sale = 0
    /\ Decide(t, To("cancelled"))

\* StartWalletPayment, before its leg: the release proven, no sale, no transfer that
\* may have left, no bridge that broadcast, no deposit.
PayWallet(t) ==
    /\ t \in Operators
    /\ Holds(t, {"needs_review"})
    /\ LET row == thread[t].row IN
       /\ row.received /\ row.sale = 0
       /\ CompanyNothingSent(row)
       /\ NothingSent(Kinds) /\ \A l \in Legs : l[1] = "deposit" => Is(l, "none")
       /\ Go(t, "reserve", row, NoLeg, 0)
    /\ UNCHANGED <<rowVars, worldVars, faults>>

\* rerouteLoaded: only while the row is what every check was made on.
Reroute(t) ==
    /\ t \in Operators
    /\ Holds(t, {"needs_review"})
    /\ LET row == thread[t].row
           some == row.attempts > 0
       IN
       /\ row.sale = 0
       /\ CompanyNothingSent(row)
       /\ NothingSent(Kinds) /\ \A l \in Legs : ~leg[l].approved
       /\ some => pay.gen < MaxRefs
       /\ pay' = IF pay # row THEN pay
                 ELSE [pay EXCEPT
                   !.status = IF ~row.received \/ row.parked = "awaiting_release"
                              THEN "awaiting_release" ELSE "received",
                   !.venue = IF pay.venue = "company" THEN "paycrest" ELSE "company",
                   !.parked = "none", !.safe = FALSE, !.attempts = 0,
                   !.gen = IF some THEN pay.gen + 1 ELSE pay.gen,
                   !.transfer = IF some THEN 0 ELSE pay.transfer]
       /\ Stop(t)
    /\ NoFault
    /\ UNCHANGED <<leg, sale, worldVars>>

\* MarkRebalanced: what a paid company payout left in the treasury was moved back.
MarkRebalanced ==
    /\ pay.venue = "company" /\ pay.status = "paid" /\ pay.paidAt /\ ~pay.rebalanced
    /\ pay' = [pay EXCEPT !.rebalanced = TRUE]
    /\ UNCHANGED <<leg, sale, worldVars, thread, faults>>

\* The operator's call gives up: it is refused, or not made.
Leave(t) ==
    /\ t \in Operators
    /\ Holds(t, {"needs_review"})
    /\ Stop(t)
    /\ UNCHANGED <<rowVars, worldVars, faults>>

\* A process stops, or a read or a write fails, between two steps.
Crash(t) ==
    /\ ~At(t, "idle")
    /\ Stop(t)
    /\ Fault
    /\ UNCHANGED <<rowVars, worldVars>>

-----------------------------------------------------------------------------
(* The world. *)

\* The order ends: paid out to the treasury as priced or short, or on the chain alone,
\* or with no hash recorded, or not at all.
OrderEnds ==
    /\ order = "open"
    /\ order' \in {"released", "short", "unrecorded", "nohash", "ended"}
    /\ UNCHANGED <<rowVars, tx, desk, bank, thread, faults>>

\* A person records the release that the app never did.
ReleaseRecorded ==
    /\ order = "unrecorded"
    /\ order' = "released"
    /\ UNCHANGED <<rowVars, tx, desk, bank, thread, faults>>

\* A call is mined and does what it says.
Land(l) ==
    /\ tx[l] = "flying"
    /\ tx' = [tx EXCEPT ![l] = "done"]
    /\ UNCHANGED <<rowVars, order, desk, bank, thread, faults>>

\* It reverts or does not arrive, or the key lane cancels it.
Lose(l) ==
    /\ tx[l] = "flying"
    /\ tx' \in {[tx EXCEPT ![l] = "lost"], [tx EXCEPT ![l] = "cancelled"]}
    /\ Fault
    /\ UNCHANGED <<rowVars, order, desk, bank, thread>>

FundedAt(s) == \E l \in Legs : l[1] = "deposit" /\ leg[l].sale = s /\ tx[l] = "done"

\* Paycrest pays the bank what a funded sale buys, or returns the deposit.
Settle(s) ==
    /\ FundedAt(s)
    /\ \/ desk[s] \in {"open", "late"} /\ desk' \in {[desk EXCEPT ![s] = "paid"],
                                                     [desk EXCEPT ![s] = "refunded"]}
       \/ desk[s] = "expired" /\ desk' = [desk EXCEPT ![s] = "refunded"]
    /\ UNCHANGED <<rowVars, order, tx, bank, thread, faults>>

\* A sale is about to lapse; then it has.
Lapse(s) ==
    /\ \/ desk[s] = "open" /\ desk' = [desk EXCEPT ![s] = "late"] /\ Fault
       \/ desk[s] = "late" /\ desk' = [desk EXCEPT ![s] = "expired"] /\ NoFault
    /\ UNCHANGED <<rowVars, order, tx, bank, thread>>

\* Sync: a sale's row follows Paycrest until it is over.
Sync(s) ==
    /\ sale[s].status = "awaiting"
    /\ \E status \in CASE desk[s] = "paid" -> {"settled"}
                       [] desk[s] = "refunded" -> {"ended"}
                       [] desk[s] = "expired" -> {"ended", "failed"}
                       [] OTHER -> {} :
          sale' = [sale EXCEPT ![s] = [status |-> status, claimed |-> @.claimed,
                                       short |-> @.short]]
    /\ UNCHANGED <<pay, leg, worldVars, thread, faults>>

\* The bank pays the transfer or refuses it.
BankAnswers(r) ==
    /\ bank[r] = "pending"
    /\ bank' \in {[bank EXCEPT ![r] = "paid"], [bank EXCEPT ![r] = "dead"]}
    /\ UNCHANGED <<rowVars, order, tx, desk, thread, faults>>

\* It returns what it had taken.
BankReverses(r) ==
    /\ bank[r] = "paid"
    /\ bank' = [bank EXCEPT ![r] = "reversed"]
    /\ Fault
    /\ UNCHANGED <<rowVars, order, tx, desk, thread>>

-----------------------------------------------------------------------------

Tick(t) ==
    \/ Load(t) \/ LanesDisagree(t) \/ AwaitRelease(t) \/ AdvanceBridge(t) \/ BridgeRefused(t)
    \/ \E l \in Legs : ObservePending(t, l) \/ UnexpectedLeg(t, l) \/ ObserveWallet(t, l)
    \/ Approve(t) \/ Landed(t) \/ Funded(t) \/ OpenSell(t) \/ SaleRefused(t) \/ Shortfall(t)
    \/ SaleOpened(t) \/ Opened(t) \/ Withdrawn(t) \/ RecoverSelling(t) \/ AdvanceDeposit(t)
    \/ FollowSell(t) \/ StartCompany(t) \/ Request(t) \/ RecordId(t)
    \/ ObserveCompany(t) \/ WalletOver(t)

\* What both a tick and an operator's call do with a leg.
Transfer(t) == Reserve(t) \/ Claim(t) \/ Send(t) \/ SendRefused(t)

Operate(t) ==
    \/ LoadParked(t) \/ Retry(t) \/ RetryCompany(t) \/ MarkPaid(t) \/ Cancel(t) \/ PayWallet(t)
    \/ Reroute(t) \/ WalletRefused(t) \/ Leave(t)

World ==
    \/ OrderEnds \/ ReleaseRecorded \/ FlagReversal \/ MarkRebalanced
    \/ \E l \in Legs : Land(l) \/ Lose(l)
    \/ \E s \in Sales : Settle(s) \/ Lapse(s) \/ Sync(s)
    \/ \E r \in Refs : BankAnswers(r) \/ BankReverses(r)

Next ==
    \/ World
    \/ \E t \in Threads : Tick(t) \/ Transfer(t) \/ Operate(t) \/ Crash(t)

\* The worker ticks; the chain, Paycrest, the poller and the bank go on.
Fairness ==
    /\ \A t \in Tickers : WF_vars(Tick(t) \/ Transfer(t))
    /\ \A l \in Legs : WF_vars(Land(l))
    /\ \A s \in Sales : WF_vars(Settle(s)) /\ WF_vars(Sync(s))
    /\ \A r \in Refs : WF_vars(BankAnswers(r))

Spec == Init /\ [][Next]_vars
FairSpec == Spec /\ Fairness

-----------------------------------------------------------------------------

\* The rows, what the world made of what they stand for, and each thread's place.
TypeOK ==
    /\ pay \in Row
    /\ leg \in [Legs -> Leg]
    /\ sale \in [Sales -> Sale]
    /\ order \in {"open", "released", "short", "unrecorded", "nohash", "ended"}
    /\ tx \in [Legs -> Transaction]
    /\ desk \in [Sales -> {"none", "open", "late", "expired", "paid", "refunded"}]
    /\ bank \in [Refs -> {"none", "pending", "paid", "dead", "reversed"}]
    /\ thread \in [Threads -> Thread]
    /\ faults \in 0..MaxFaults

\* What reached the seller through the machine, and stayed.
PaidSales == {s \in Sales : desk[s] = "paid"}
PaidTransfers == {r \in Refs : bank[r] = "paid"}
PaidRefunds == {l \in Legs : l[1] = "refund" /\ tx[l] = "done"}

\* The seller is paid once: of every sale, every company transfer and every refund to
\* the wallet, over every retry, reroute and refund an operator makes, one stays paid.
\* What transferDead, companyNothingSent and the checks of StartWalletPayment and
\* rerouteLoaded are there for.
PaidOnce == Cardinality(PaidSales) + Cardinality(PaidTransfers) + Cardinality(PaidRefunds) <= 1

\* The treasury funds one sale: of all the deposits, one leaves (advanceDeposit: "at
\* most one deposit is ever live or done").
FundedOnce == \A l, m \in Legs : l[1] = "deposit" /\ m[1] = "deposit"
                                  /\ tx[l] = "done" /\ tx[m] = "done" => l = m

\* No state of the row says more than happened: bridged, deposited and paid stand on a
\* bridge that landed, a deposit that landed and a bank or a wallet that was paid, but
\* for the payout an operator marked paid; and paid_at on a transfer the bank made.
EndsAreProven ==
    /\ pay.status \in {"bridged", "selling", "ordered", "depositing", "deposited"} =>
         \E l \in Legs : l[1] = "bridge" /\ tx[l] = "done"
    /\ pay.status = "deposited" => \E l \in Legs : l[1] = "deposit" /\ tx[l] = "done"
    /\ pay.status = "paid_wallet" => PaidRefunds # {}
    /\ pay.status = "paid" /\ ~pay.byHand =>
         PaidSales # {} \/ \E r \in Refs : bank[r] \in {"paid", "reversed"}
    /\ pay.paidAt => \E r \in Refs : bank[r] \in {"paid", "reversed"}

\* What may still pay the seller, or has.
Alive ==
    \/ \E r \in Refs : LiveTransfer(r)
    \/ \E l \in Legs : l[1] # "bridge" /\ tx[l] \in {"flying", "done"}

\* parkSafe, which lets Retry go without force, is told only of a payout that nothing
\* sent can still pay ("an admin may retry it once the cause is fixed").
SafeParkIsSafe == pay.status = "needs_review" /\ pay.safe => ~Alive

\* The machine leaves nothing behind: whatever is refused, lost, reversed or crashes,
\* a payout that was released is paid, cancelled or handed to a person.  One that waits
\* for its release is left out: an order completed with no hash waits for ever
\* (awaitRelease, and ReleaseRecorded is a person's step).
PayoutsMove ==
    (pay.status \in Moving \ {"awaiting_release"}) ~> (pay.status \in Over \cup {"needs_review"})
=============================================================================
