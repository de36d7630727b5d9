------------------------- MODULE SellerPayoutProofs -------------------------
(***************************************************************************)
(* Theorems about SellerPayout for any number of ticks and operators at     *)
(* once, any number of legs, sales, references and faults.  What a status   *)
(* says is a fact about the chain, Paycrest or the bank that stays once it  *)
(* holds (Grows); so a row read long ago says nothing that has become       *)
(* false, and a thread may write what it concluded from it (Earned, Right). *)
(* The last part is about what happens as long as no two ticks and no two   *)
(* operators overlap at the payout: the seller is paid once.                *)
(***************************************************************************)
EXTENDS SellerPayout, FiniteSetTheorems, TLAPS

-----------------------------------------------------------------------------
(* Types. *)

Statuses == Moving \cup Over \cup {"needs_review"}

\* A payout starts as a row.
LEMMA NewRowType ==
    \A venue \in {"paycrest", "company"} : NewRow(venue) \in Row
  BY PayoutAssumption DEF NewRow, Row, Moving, Refs

LEMMA IdleType == Idle \in Thread
  BY NewRowType, PayoutAssumption DEF Idle, Thread, Steps

LEMMA ToType ==
    ASSUME pay \in Row, NEW status \in Statuses
    PROVE  To(status) \in Row
  BY DEF To, Row, Statuses

LEMMA MoveType ==
    ASSUME pay \in Row, NEW from, NEW row \in Row, Move(from, row)
    PROVE  pay' \in Row
  BY DEF Move

LEMMA GoType ==
    ASSUME thread \in [Threads -> Thread], NEW t \in Threads, NEW pc \in Steps, NEW row \in Row,
           NEW l \in Legs \cup {NoLeg}, NEW s \in 0..MaxSales, Go(t, pc, row, l, s)
    PROVE  thread' \in [Threads -> Thread]
  <1>1. [pc |-> pc, row |-> row, leg |-> l, sale |-> s] \in Thread
    BY DEF Thread
  <1> QED
    BY <1>1 DEF Go, Goto

LEMMA OnType ==
    ASSUME thread \in [Threads -> Thread], NEW t \in Threads, NEW pc \in Steps, On(t, pc)
    PROVE  thread' \in [Threads -> Thread]
  <1>1. thread[t].row \in Row /\ thread[t].leg \in Legs \cup {NoLeg}
        /\ thread[t].sale \in 0..MaxSales
    BY DEF Thread
  <1> QED
    BY <1>1, GoType DEF On

LEMMA StopType ==
    ASSUME thread \in [Threads -> Thread], NEW t \in Threads, Stop(t)
    PROVE  thread' \in [Threads -> Thread]
  BY IdleType DEF Stop, Goto

LEMMA ParkType ==
    ASSUME pay \in Row, thread \in [Threads -> Thread], NEW t \in Threads,
           NEW at \in Moving, NEW safe \in BOOLEAN, Park(t, at, safe)
    PROVE  pay' \in Row /\ thread' \in [Threads -> Thread]
  <1>1. [pay EXCEPT !.status = "needs_review", !.parked = at, !.safe = safe] \in Row
    BY DEF Row
  <1> QED
    BY <1>1, MoveType, StopType DEF Park

\* A thread that holds a row holds one of the program's, in the state it decides on.
LEMMA HoldsType ==
    ASSUME thread \in [Threads -> Thread], NEW t \in Threads, NEW S, Holds(t, S)
    PROVE  thread[t].row \in Row /\ thread[t].row.status \in S
  BY DEF Holds, Thread

LEMMA FaultType ==
    ASSUME faults \in 0..MaxFaults, Fault \/ NoFault
    PROVE  faults' \in 0..MaxFaults
  BY PayoutAssumption DEF Fault, NoFault

LEMMA EndsType ==
    ASSUME leg \in [Legs -> Leg], NEW l \in Legs, NEW status \in {"confirmed", "failed"},
           Ends(l, status)
    PROVE  leg' \in [Legs -> Leg]
  BY DEF Ends, Leg

\* Outside the legs there is nothing to fail.
LEMMA FailUnsentStays ==
    ASSUME leg \in [Legs -> Leg], NEW l, l \notin Legs, FailUnsent(l)
    PROVE  leg' = leg
  <1>1. CASE Ends(l, "failed")
    <2> DEFINE v == [status |-> "failed", approved |-> leg[l].approved, sale |-> leg[l].sale]
    <2>1. leg' = [leg EXCEPT ![l] = v]
      BY <1>1 DEF Ends
    <2> HIDE DEF v
    <2>2. leg' = [m \in Legs |-> IF m = l THEN v ELSE leg[m]]
      BY <2>1
    <2>3. leg = [m \in Legs |-> leg[m]]
      OBVIOUS
    <2> QED
      BY <2>2, <2>3
  <1> QED
    BY <1>1 DEF FailUnsent

LEMMA FailUnsentType ==
    ASSUME leg \in [Legs -> Leg], NEW l \in Legs \cup {NoLeg}, FailUnsent(l)
    PROVE  leg' \in [Legs -> Leg]
  BY EndsType, FailUnsentStays DEF FailUnsent

LEMMA InitType == Init => TypeOK
  BY NewRowType, IdleType, PayoutAssumption
     DEF Init, TypeOK, Leg, Sale, Transaction, Statuses

LEMMA TickTypes ==
    ASSUME TypeOK, NEW t \in Threads,
           \/ Load(t) \/ LanesDisagree(t) \/ AwaitRelease(t) \/ AdvanceBridge(t)
           \/ BridgeRefused(t) \/ Landed(t) \/ Funded(t)
    PROVE  TypeOK'
  <1> USE DEF rowVars, worldVars
  <1>1. CASE Load(t)
    <2>1. "loaded" \in Steps /\ 0 \in 0..MaxSales
      BY PayoutAssumption DEF Steps
    <2>2. thread' \in [Threads -> Thread]
      BY <1>1, <2>1, GoType DEF TypeOK, Load
    <2> QED
      BY <1>1, <2>2 DEF TypeOK, Load
  <1>2. CASE LanesDisagree(t)
    <2>1. thread[t].row.status \in Moving /\ (thread[t].row.status \in LanesSafe) \in BOOLEAN
      BY <1>2, HoldsType DEF TypeOK, LanesDisagree
    <2> QED
      BY <1>2, <2>1, ParkType, FaultType DEF TypeOK, LanesDisagree, ParkRow
  <1>3. CASE AwaitRelease(t)
    <2>1. thread[t].row.status \in Moving
      BY <1>3, HoldsType DEF TypeOK, AwaitRelease, Moving
    <2>2. To("cancelled") \in Row
          /\ [pay EXCEPT !.status = "received", !.received = TRUE] \in Row
      BY ToType DEF TypeOK, Row, Statuses, Over, Moving
    <2>3. pay' \in Row /\ thread' \in [Threads -> Thread]
      BY <1>3, <2>1, <2>2, ParkType, MoveType, StopType DEF TypeOK, AwaitRelease, ParkRow
    <2> QED
      BY <1>3, <2>3, FaultType DEF TypeOK, AwaitRelease
  <1>4. CASE AdvanceBridge(t)
    <2>1. thread[t].row \in Row /\ thread[t].row.status \in Moving
      BY <1>4, HoldsType DEF TypeOK, AdvanceBridge, IsBridging, Moving
    <2>2. To("bridged") \in Row
      BY ToType DEF TypeOK, Statuses, Moving
    <2>3. (\A l \in Legs : ~Sent(l)) \in BOOLEAN /\ 0 \in 0..MaxSales /\ "reserve" \in Steps
      BY PayoutAssumption DEF Steps
    <2>4. pay' \in Row /\ thread' \in [Threads -> Thread]
      BY <1>4, <2>1, <2>2, <2>3, ParkType, MoveType, StopType, GoType
         DEF TypeOK, AdvanceBridge, ParkRow
    <2> QED
      BY <1>4, <2>4, FaultType DEF TypeOK, AdvanceBridge
  <1>5. CASE BridgeRefused(t)
    <2>1. thread[t].row.status \in Moving
      BY <1>5, HoldsType DEF TypeOK, BridgeRefused, IsBridging, Moving
    <2> QED
      BY <1>5, <2>1, ParkType, FaultType DEF TypeOK, BridgeRefused, ParkRow
  <1>6. CASE Landed(t)
    <2>1. To("bridged") \in Row /\ To("paid_wallet") \in Row
      BY ToType DEF TypeOK, Statuses, Moving, Over
    <2>2. pay' \in Row /\ thread' \in [Threads -> Thread] /\ sale' \in [Sales -> Sale]
      <3>1. CASE thread[t].leg[1] = "bridge"
        BY <1>6, <2>1, <3>1, MoveType, StopType DEF TypeOK, Landed
      <3>2. CASE thread[t].leg[1] = "refund"
        BY <1>6, <2>1, <3>2, MoveType, StopType DEF TypeOK, Landed
      <3>3. CASE thread[t].leg[1] \notin {"bridge", "refund"}
        <4>1. On(t, "funded") /\ pay' = pay
              /\ sale' = [sale EXCEPT ![thread[t].row.sale] =
                            [status |-> @.status, claimed |-> TRUE, short |-> @.short]]
          BY <1>6, <3>3 DEF Landed
        <4>2. "funded" \in Steps
          BY DEF Steps
        <4> QED
          BY <4>1, <4>2, OnType DEF TypeOK, Sale
      <3> QED
        BY <3>1, <3>2, <3>3
    <2> QED
      BY <1>6, <2>2, FaultType DEF TypeOK, Landed
  <1>7. CASE Funded(t)
    <2>1. To("deposited") \in Row
      BY ToType DEF TypeOK, Statuses, Moving
    <2> QED
      BY <1>7, <2>1, MoveType, StopType, FaultType DEF TypeOK, Funded
  <1> QED
    BY <1>1, <1>2, <1>3, <1>4, <1>5, <1>6, <1>7

LEMMA ObserveType ==
    ASSUME TypeOK, NEW t \in Threads, NEW l \in Legs, thread[t].row.status \in Moving,
           thread[t].row \in Row, Observe(t, l)
    PROVE  TypeOK'
  <1>1. "landed" \in Steps /\ 0 \in 0..MaxSales
    BY PayoutAssumption DEF Steps
  <1>2. pay' \in Row /\ thread' \in [Threads -> Thread] /\ leg' \in [Legs -> Leg]
    <2>1. CASE Retired(l) /\ Ends(l, "failed") /\ Stop(t) /\ pay' = pay
      BY <2>1, EndsType, StopType DEF TypeOK
    <2>2. CASE Ends(l, "confirmed") /\ Go(t, "landed", thread[t].row, l, 0) /\ pay' = pay
      BY <1>1, <2>2, EndsType, GoType DEF TypeOK
    <2>3. CASE \E safe \in BOOLEAN : ParkRow(t, safe) /\ leg' = leg
      BY <2>3, ParkType DEF TypeOK, ParkRow
    <2>4. CASE Stop(t) /\ UNCHANGED <<pay, leg>>
      BY <2>4, StopType DEF TypeOK
    <2> QED
      BY <2>1, <2>2, <2>3, <2>4 DEF Observe
  <1> QED
    BY <1>2, FaultType DEF TypeOK, Observe, worldVars

LEMMA LegTypes ==
    ASSUME TypeOK, NEW t \in Threads,
           \/ \E l \in Legs : ObservePending(t, l) \/ UnexpectedLeg(t, l) \/ ObserveWallet(t, l)
           \/ Reserve(t) \/ Claim(t) \/ Approve(t) \/ Send(t) \/ SendRefused(t)
    PROVE  TypeOK'
  <1> USE DEF rowVars, worldVars
  <1>1. ASSUME NEW l \in Legs, ObservePending(t, l) \/ ObserveWallet(t, l)
        PROVE  TypeOK'
    <2>1. Observe(t, l) /\ thread[t].row.status \in Moving /\ thread[t].row \in Row
      BY <1>1, HoldsType DEF TypeOK, ObservePending, ObserveWallet, IsBridging, Moving
    <2> QED
      BY <2>1, ObserveType
  <1>2. ASSUME NEW l \in Legs, UnexpectedLeg(t, l)
        PROVE  TypeOK'
    <2>1. thread[t].row.status \in Moving
      BY <1>2, HoldsType DEF TypeOK, UnexpectedLeg, IsBridging, Moving
    <2> QED
      BY <1>2, <2>1, ParkType, FaultType DEF TypeOK, UnexpectedLeg, ParkRow
  <1>3. CASE Reserve(t)
    <2> DEFINE kind == KindOf(thread[t].row)
               new == [status |-> "pending", approved |-> FALSE,
                       sale |-> IF kind = "deposit" THEN thread[t].row.sale ELSE 0]
    <2>1. thread[t].row \in Row /\ "claim" \in Steps /\ 0 \in 0..MaxSales
      BY PayoutAssumption DEF TypeOK, Thread, Steps
    <2>2. new \in Leg
      BY <2>1 DEF Leg, Row
    <2>3. thread' \in [Threads -> Thread] /\ leg' \in [Legs -> Leg]
      <3>1. CASE Stop(t) /\ leg' = leg
        BY <3>1, StopType DEF TypeOK
      <3>2. CASE \E l \in Legs : /\ leg' = [leg EXCEPT ![l] = new]
                                 /\ Go(t, "claim", thread[t].row, l, 0)
        BY <2>1, <2>2, <3>2, GoType DEF TypeOK
      <3> QED
        BY <1>3, <3>1, <3>2 DEF Reserve
    <2> QED
      BY <1>3, <2>3, FaultType DEF TypeOK, Reserve
  <1>4. CASE Claim(t)
    <2>1. To("bridging") \in Row /\ To("depositing") \in Row /\ To("paying_wallet") \in Row
          /\ "send" \in Steps
      BY ToType DEF TypeOK, Statuses, Moving, Steps
    <2>2. thread[t].leg \in Legs \cup {NoLeg}
      BY DEF TypeOK, Thread
    <2>3. pay' \in Row /\ thread' \in [Threads -> Thread] /\ leg' \in [Legs -> Leg]
      <3>1. CASE thread[t].leg[1] = "bridge"
        BY <1>4, <2>1, <3>1, MoveType, OnType DEF TypeOK, Claim
      <3>2. CASE thread[t].leg[1] = "deposit"
        BY <1>4, <2>1, <3>2, MoveType, OnType DEF TypeOK, Claim
      <3>3. CASE thread[t].leg[1] \notin {"bridge", "deposit"}
        <4>1. /\ Move({"needs_review"}, To("paying_wallet"))
              /\ On(t, "send") \/ Stop(t)
              /\ leg' = leg \/ FailUnsent(thread[t].leg)
          BY <1>4, <3>3 DEF Claim
        <4>2. leg' \in [Legs -> Leg]
          BY <2>2, <4>1, FailUnsentType DEF TypeOK
        <4> QED
          BY <2>1, <4>1, <4>2, MoveType, OnType, StopType DEF TypeOK
      <3> QED
        BY <3>1, <3>2, <3>3
    <2> QED
      BY <1>4, <2>3, FaultType DEF TypeOK, Claim
  <1>5. CASE Approve(t)
    <2>1. leg' \in [Legs -> Leg]
      <3> DEFINE new == [status |-> "pending", approved |-> TRUE, sale |-> 0]
      <3>1. new \in Leg
        BY PayoutAssumption DEF Leg
      <3>2. leg' = [leg EXCEPT ![thread[t].leg] = new]
        BY <1>5 DEF Approve
      <3> HIDE DEF new
      <3> QED
        BY <3>1, <3>2 DEF TypeOK
    <2> QED
      BY <1>5, <2>1, FaultType DEF TypeOK, Approve
  <1>6. CASE Send(t)
    <2>1. tx' \in [Legs -> Transaction]
      BY <1>6 DEF TypeOK, Send, Transaction
    <2> QED
      BY <1>6, <2>1, StopType, FaultType DEF TypeOK, Send
  <1>7. CASE SendRefused(t)
    <2>1. "refused" \in Steps
      BY DEF Steps
    <2>2. thread' \in [Threads -> Thread]
      BY <1>7, <2>1, StopType, OnType DEF TypeOK, SendRefused
    <2>3. leg' \in [Legs -> Leg]
      <3>1. thread[t].leg \in Legs \cup {NoLeg} /\ FailUnsent(thread[t].leg)
        BY <1>7 DEF TypeOK, Thread, SendRefused
      <3> QED
        BY <3>1, FailUnsentType DEF TypeOK
    <2> QED
      BY <1>7, <2>2, <2>3, FaultType DEF TypeOK, SendRefused
  <1> QED
    BY <1>1, <1>2, <1>3, <1>4, <1>5, <1>6, <1>7

LEMMA SellTypes ==
    ASSUME TypeOK, NEW t \in Threads,
           \/ OpenSell(t) \/ SaleRefused(t) \/ Shortfall(t) \/ SaleOpened(t) \/ Opened(t)
           \/ Withdrawn(t) \/ RecoverSelling(t) \/ AdvanceDeposit(t) \/ FollowSell(t)
    PROVE  TypeOK'
  <1> USE DEF worldVars
  <1>1. /\ To("selling") \in Row /\ To("bridged") \in Row /\ To("deposited") \in Row
        /\ To("paid") \in Row
        /\ \A s \in Sales : [pay EXCEPT !.status = "ordered", !.sale = s] \in Row
        /\ [pay EXCEPT !.status = "bridged", !.sale = 0] \in Row
    <2>1. /\ To("selling") \in Row /\ To("bridged") \in Row /\ To("deposited") \in Row
          /\ To("paid") \in Row
      BY ToType DEF TypeOK, Statuses, Moving, Over
    <2>2. \A s \in 0..MaxSales : [pay EXCEPT !.status = "ordered", !.sale = s] \in Row
      BY DEF TypeOK, Moving, Row
    <2>3. \A s \in 0..MaxSales : [pay EXCEPT !.status = "bridged", !.sale = s] \in Row
      BY DEF TypeOK, Moving, Row
    <2>4. Sales \subseteq 0..MaxSales /\ 0 \in 0..MaxSales
      BY PayoutAssumption DEF Sales
    <2> QED
      BY <2>1, <2>2, <2>3, <2>4
  <1>2. /\ "selling" \in Moving /\ "bridged" \in Moving
        /\ {"ask", "shortfall", "opened", "withdrawn", "reserve"} \subseteq Steps
        /\ 0 \in 0..MaxSales /\ Sales \subseteq 0..MaxSales
    BY PayoutAssumption DEF Moving, Steps, Sales
  <1>3. thread[t].row \in Row /\ thread[t].sale \in 0..MaxSales
    BY DEF TypeOK, Thread
  <1>4. ASSUME NEW s \in Sales, CancelSale(s)
        PROVE  sale' \in [Sales -> Sale]
    BY <1>4 DEF TypeOK, CancelSale, Sale
  <1>5. CASE OpenSell(t)
    <2>1. [thread[t].row EXCEPT !.status = "selling"] \in Row
      BY <1>3 DEF Row, Moving
    <2>2. CASE ParkRow(t, FALSE)
      <3>1. thread[t].row.status \in Moving
        BY <1>5, HoldsType DEF TypeOK, OpenSell, Moving
      <3> QED
        BY <1>5, <2>2, <3>1, ParkType, FaultType DEF TypeOK, OpenSell, ParkRow
    <2>3. CASE Move({"bridged"}, To("selling"))
               /\ (Go(t, "ask", [thread[t].row EXCEPT !.status = "selling"], NoLeg, 0) \/ Stop(t))
      <3>1. pay' \in Row /\ thread' \in [Threads -> Thread]
        BY <1>1, <1>2, <2>1, <2>3, MoveType, GoType, StopType DEF TypeOK
      <3> QED
        BY <1>5, <3>1, FaultType DEF TypeOK, OpenSell
    <2> QED
      BY <1>5, <2>2, <2>3 DEF OpenSell
  <1>6. CASE SaleRefused(t)
    <2>1. pay' \in Row /\ thread' \in [Threads -> Thread]
      BY <1>1, <1>2, <1>3, <1>6, MoveType, GoType, StopType, ParkType DEF TypeOK, SaleRefused
    <2> QED
      BY <1>6, <2>1, FaultType DEF TypeOK, SaleRefused
  <1>7. CASE Shortfall(t)
    BY <1>2, <1>7, ParkType, FaultType DEF TypeOK, Shortfall
  <1>8. CASE SaleOpened(t)
    <2>1. PICK s \in Sales, short \in BOOLEAN :
            /\ sale' = [sale EXCEPT ![s] = [status |-> "awaiting", claimed |-> FALSE,
                                            short |-> short]]
            /\ desk' = [desk EXCEPT ![s] = "open"]
            /\ IF short THEN Fault ELSE NoFault
            /\ Go(t, "opened", thread[t].row, NoLeg, s)
      BY <1>8 DEF SaleOpened
    <2>2. sale' \in [Sales -> Sale]
      BY <2>1 DEF TypeOK, Sale
    <2>3. desk' \in [Sales -> {"none", "open", "late", "expired", "paid", "refunded"}]
      BY <2>1 DEF TypeOK
    <2>4. thread' \in [Threads -> Thread]
      BY <1>2, <1>3, <2>1, GoType DEF TypeOK
    <2>5. faults' \in 0..MaxFaults
      BY <2>1, FaultType DEF TypeOK
    <2> QED
      BY <1>8, <2>2, <2>3, <2>4, <2>5 DEF TypeOK, SaleOpened
  <1>9. CASE Opened(t)
    <2> DEFINE s == thread[t].sale
    <2>1. faults' \in 0..MaxFaults /\ UNCHANGED <<leg, worldVars>>
      BY <1>9, FaultType DEF TypeOK, Opened
    <2>2. pay' \in Row /\ thread' \in [Threads -> Thread] /\ sale' \in [Sales -> Sale]
      <3>1. CASE /\ Move({"selling"}, [pay EXCEPT !.status = "ordered", !.sale = s])
                 /\ Stop(t) /\ sale' = sale
        <4>1. [pay EXCEPT !.status = "ordered", !.sale = s] \in Row
          BY <1>3 DEF TypeOK, Row, Moving
        <4> QED
          BY <3>1, <4>1, MoveType, StopType DEF TypeOK
      <3>2. CASE /\ CancelSale(s) /\ (On(t, "withdrawn") \/ On(t, "ask")) /\ pay' = pay
        <4>1. sale' \in [Sales -> Sale]
          BY <1>4, <3>2 DEF TypeOK, CancelSale
        <4> QED
          BY <1>2, <3>2, <4>1, OnType DEF TypeOK
      <3>3. CASE Park(t, "selling", FALSE) /\ sale' = sale
        BY <1>2, <3>3, ParkType DEF TypeOK
      <3> QED
        BY <1>9, <3>1, <3>2, <3>3 DEF Opened
    <2> QED
      BY <2>1, <2>2 DEF TypeOK
  <1>10. CASE Withdrawn(t)
    <2>1. pay' \in Row /\ thread' \in [Threads -> Thread]
      BY <1>1, <1>10, MoveType, StopType DEF TypeOK, Withdrawn
    <2> QED
      BY <1>10, <2>1, FaultType DEF TypeOK, Withdrawn
  <1>11. CASE RecoverSelling(t)
    <2>1. thread[t].row.status \in Moving
      BY <1>11, HoldsType DEF TypeOK, RecoverSelling, Moving
    <2>2. pay' \in Row /\ thread' \in [Threads -> Thread]
      BY <1>1, <1>11, <2>1, MoveType, StopType, ParkType
         DEF TypeOK, RecoverSelling, ParkRow, LiveSales
    <2> QED
      BY <1>11, <2>2, FaultType DEF TypeOK, RecoverSelling
  <1>12. CASE AdvanceDeposit(t)
    <2> DEFINE s == thread[t].row.sale
    <2>1. thread[t].row.status \in Moving /\ s \in Sales
      BY <1>3, <1>12, HoldsType, PayoutAssumption
         DEF TypeOK, AdvanceDeposit, AtDeposit, Moving, Row, Sales
    <2>2. pay' \in Row /\ thread' \in [Threads -> Thread] /\ sale' \in [Sales -> Sale]
      <3>1. CASE Move({"ordered", "depositing"}, To("deposited")) /\ Stop(t) /\ sale' = sale
        BY <1>1, <3>1, MoveType, StopType DEF TypeOK
      <3>2. CASE \E safe \in BOOLEAN : ParkRow(t, safe) /\ sale' = sale
        BY <2>1, <3>2, ParkType DEF TypeOK, ParkRow
      <3>3. CASE CancelSale(s) /\ Go(t, "withdrawn", thread[t].row, NoLeg, s) /\ pay' = pay
        BY <1>2, <1>3, <1>4, <2>1, <3>3, GoType DEF TypeOK
      <3>4. CASE sale' = sale /\ Go(t, "reserve", thread[t].row, NoLeg, 0) /\ pay' = pay
        BY <1>2, <1>3, <3>4, GoType DEF TypeOK
      <3> QED
        BY <1>12, <3>1, <3>2, <3>3, <3>4 DEF AdvanceDeposit
    <2> QED
      BY <1>12, <2>2, FaultType DEF TypeOK, AdvanceDeposit
  <1>13. CASE FollowSell(t)
    <2>1. thread[t].row.status \in Moving
      BY <1>13, HoldsType DEF TypeOK, FollowSell, Moving
    <2>2. pay' \in Row /\ thread' \in [Threads -> Thread]
      BY <1>1, <1>13, <2>1, MoveType, StopType, ParkType DEF TypeOK, FollowSell, ParkRow
    <2> QED
      BY <1>13, <2>2, FaultType DEF TypeOK, FollowSell
  <1> QED
    BY <1>5, <1>6, <1>7, <1>8, <1>9, <1>10, <1>11, <1>12, <1>13

LEMMA CompanyTypes ==
    ASSUME TypeOK, NEW t \in Threads,
           \/ StartCompany(t) \/ Request(t) \/ RecordId(t) \/ ObserveCompany(t)
           \/ WalletOver(t) \/ WalletRefused(t)
    PROVE  TypeOK'
  <1> USE DEF worldVars
  <1>1. /\ To("paid_wallet") \in Row /\ To("needs_review") \in Row
        /\ [pay EXCEPT !.status = "paid", !.paidAt = TRUE] \in Row
        /\ \A g \in Refs : [pay EXCEPT !.transfer = g] \in Row
    <2>1. To("paid_wallet") \in Row /\ To("needs_review") \in Row
      BY ToType DEF TypeOK, Statuses, Moving, Over
    <2>2. [pay EXCEPT !.status = "paid", !.paidAt = TRUE] \in Row
      BY DEF TypeOK, Over, Row
    <2>3. \A g \in 0..MaxRefs : [pay EXCEPT !.transfer = g] \in Row
      BY DEF TypeOK, Row
    <2>4. Refs \subseteq 0..MaxRefs
      BY PayoutAssumption DEF Refs
    <2> QED
      BY <2>1, <2>2, <2>3, <2>4
  <1>2. /\ "paying_company" \in Moving /\ {"request", "accepted"} \subseteq Steps
        /\ 0 \in 0..MaxSales
    BY PayoutAssumption DEF Moving, Steps
  <1>3. thread[t].row \in Row /\ thread[t].row.gen \in Refs
    BY DEF TypeOK, Thread, Row
  <1>4. CASE StartCompany(t)
    <2> DEFINE ref == thread[t].row.gen
               attempts == IF pay.attempts = 2 THEN 2 ELSE pay.attempts + 1
               started == [pay EXCEPT !.status = "paying_company", !.ref = ref,
                                      !.attempts = attempts, !.transfer = 0]
    <2>1. thread[t].row.status \in Moving
      BY <1>4, HoldsType DEF TypeOK, StartCompany, Moving
    <2>2. started \in Row
      <3>1. pay.attempts \in 0..2
        BY DEF TypeOK, Row
      <3>2. ref \in 0..MaxRefs /\ 0 \in 0..MaxRefs /\ attempts \in 0..2
        BY <1>3, <3>1, PayoutAssumption DEF Refs
      <3> HIDE DEF ref, attempts
      <3> QED
        BY <3>2 DEF TypeOK, Row, Moving
    <2>3. [thread[t].row EXCEPT !.status = "paying_company"] \in Row
      BY <1>3 DEF Row, Moving
    <2>4. pay' \in Row /\ thread' \in [Threads -> Thread]
      <3>1. CASE ParkRow(t, TRUE)
        BY <2>1, <3>1, ParkType DEF TypeOK, ParkRow
      <3>2. CASE /\ Move({"received"}, started)
                 /\ \/ Go(t, "request", [thread[t].row EXCEPT !.status = "paying_company"], NoLeg, 0)
                    \/ Stop(t)
        BY <1>2, <2>2, <2>3, <3>2, MoveType, GoType, StopType DEF TypeOK
      <3> QED
        BY <1>4, <3>1, <3>2 DEF StartCompany
    <2> QED
      BY <1>4, <2>4, FaultType DEF TypeOK, StartCompany
  <1>5. CASE Request(t)
    <2> DEFINE ref == thread[t].row.gen
               sent == [bank EXCEPT ![ref] = IF @ = "none" THEN "pending" ELSE @]
    <2>1. sent \in [Refs -> {"none", "pending", "paid", "dead", "reversed"}]
      BY <1>3 DEF TypeOK
    <2>2. bank' \in {bank, sent}
      BY <1>5 DEF Request
    <2>3. pay' \in Row /\ thread' \in [Threads -> Thread]
      BY <1>2, <1>5, OnType, ParkType DEF TypeOK, Request
    <2> QED
      BY <1>5, <2>1, <2>2, <2>3, FaultType DEF TypeOK, Request
  <1>6. CASE RecordId(t)
    BY <1>1, <1>3, <1>6, MoveType, StopType, FaultType DEF TypeOK, RecordId
  <1>7. CASE ObserveCompany(t)
    <2>1. thread[t].row.status \in Moving
      BY <1>7, HoldsType DEF TypeOK, ObserveCompany, Moving
    <2>2. pay' \in Row /\ thread' \in [Threads -> Thread]
      BY <1>1, <1>7, <2>1, MoveType, StopType, ParkType DEF TypeOK, ObserveCompany, ParkRow
    <2> QED
      BY <1>7, <2>2, FaultType DEF TypeOK, ObserveCompany
  <1>8. CASE WalletOver(t)
    <2>1. thread[t].row.status \in Moving
      BY <1>8, HoldsType DEF TypeOK, WalletOver, Moving
    <2>2. pay' \in Row /\ thread' \in [Threads -> Thread]
      BY <1>1, <1>8, <2>1, MoveType, StopType, ParkType DEF TypeOK, WalletOver, ParkRow
    <2> QED
      BY <1>8, <2>2, FaultType DEF TypeOK, WalletOver
  <1>9. CASE WalletRefused(t)
    BY <1>1, <1>9, MoveType, StopType, FaultType DEF TypeOK, WalletRefused
  <1> QED
    BY <1>4, <1>5, <1>6, <1>7, <1>8, <1>9

LEMMA OperatorTypes ==
    ASSUME TypeOK, NEW t \in Threads,
           \/ LoadParked(t) \/ Retry(t) \/ RetryCompany(t) \/ MarkPaid(t) \/ Cancel(t)
           \/ PayWallet(t) \/ Reroute(t) \/ Leave(t) \/ Crash(t)
    PROVE  TypeOK'
  <1> USE DEF rowVars, worldVars
  <1>1. thread[t].row \in Row /\ 0 \in 0..MaxSales /\ {"loaded", "reserve"} \subseteq Steps
    BY PayoutAssumption DEF TypeOK, Thread, Steps
  <1>2. ASSUME NEW row \in Row, Decide(t, row)
        PROVE  TypeOK'
    BY <1>2, MoveType, StopType, FaultType DEF TypeOK, Decide
  <1>3. CASE LoadParked(t)
    <2>1. thread' \in [Threads -> Thread]
      BY <1>1, <1>3, GoType DEF TypeOK, LoadParked
    <2> QED
      BY <1>3, <2>1 DEF TypeOK, LoadParked
  <1>4. CASE Retry(t)
    <2> DEFINE row == thread[t].row
               to == IF row.parked = "selling" /\ LiveSales = {} THEN "bridged" ELSE row.parked
    <2>1. to \in Moving
      BY <1>1, <1>4 DEF Retry, Row, Moving
    <2>2. [pay EXCEPT !.safe = FALSE, !.status = to] \in Row
      BY <2>1 DEF TypeOK, Row
    <2> QED
      BY <1>2, <1>4, <2>2 DEF Retry
  <1>5. CASE RetryCompany(t)
    <2>1. pay.gen + 1 \in Refs
      BY <1>5, PayoutAssumption DEF TypeOK, RetryCompany, Row, Refs
    <2>2. [pay EXCEPT !.safe = FALSE, !.status = "received", !.gen = pay.gen + 1,
                      !.transfer = 0, !.paidAt = FALSE] \in Row
      <3> DEFINE gen == pay.gen + 1
      <3>1. gen \in Refs /\ 0 \in 0..MaxRefs
        BY <2>1, PayoutAssumption
      <3> HIDE DEF gen
      <3>2. [pay EXCEPT !.safe = FALSE, !.status = "received", !.gen = gen,
                        !.transfer = 0, !.paidAt = FALSE] \in Row
        BY <3>1 DEF TypeOK, Row, Moving
      <3> QED
        BY <3>2 DEF gen
    <2> QED
      BY <1>2, <1>5, <2>2 DEF RetryCompany
  <1>6. CASE MarkPaid(t)
    <2>1. [pay EXCEPT !.status = "paid", !.byHand = TRUE] \in Row
      BY DEF TypeOK, Row, Over
    <2> QED
      BY <1>2, <1>6, <2>1 DEF MarkPaid
  <1>7. CASE Cancel(t)
    <2>1. To("cancelled") \in Row
      BY ToType DEF TypeOK, Statuses, Over
    <2> QED
      BY <1>2, <1>7, <2>1 DEF Cancel
  <1>8. CASE PayWallet(t)
    <2>1. thread' \in [Threads -> Thread]
      BY <1>1, <1>8, GoType DEF TypeOK, PayWallet
    <2> QED
      BY <1>8, <2>1 DEF TypeOK, PayWallet
  <1>9. CASE Reroute(t)
    <2> DEFINE row == thread[t].row
               some == row.attempts > 0
               status == IF ~row.received \/ row.parked = "awaiting_release"
                         THEN "awaiting_release" ELSE "received"
               venue == IF pay.venue = "company" THEN "paycrest" ELSE "company"
               gen == IF some THEN pay.gen + 1 ELSE pay.gen
               transfer == IF some THEN 0 ELSE pay.transfer
    <2>1. status \in Moving /\ venue \in {"paycrest", "company"}
      BY DEF Moving
    <2>2. gen \in Refs /\ transfer \in 0..MaxRefs /\ 0 \in 0..2
      BY <1>9, PayoutAssumption DEF TypeOK, Reroute, Row, Refs
    <2>3. [pay EXCEPT !.status = status, !.venue = venue, !.parked = "none", !.safe = FALSE,
                      !.attempts = 0, !.gen = gen, !.transfer = transfer] \in Row
      <3> HIDE DEF status, venue, gen, transfer
      <3> QED
        BY <2>1, <2>2 DEF TypeOK, Row
    <2>4. pay' \in Row
      BY <1>9, <2>3 DEF TypeOK, Reroute
    <2> QED
      BY <1>9, <2>4, StopType, FaultType DEF TypeOK, Reroute
  <1>10. CASE Leave(t)
    BY <1>10, StopType DEF TypeOK, Leave
  <1>11. CASE Crash(t)
    BY <1>11, StopType, FaultType DEF TypeOK, Crash
  <1> QED
    BY <1>3, <1>4, <1>5, <1>6, <1>7, <1>8, <1>9, <1>10, <1>11

LEMMA WorldTypes ==
    ASSUME TypeOK, World
    PROVE  TypeOK'
  <1> USE DEF rowVars, worldVars
  <1>1. CASE OrderEnds \/ ReleaseRecorded
    BY <1>1 DEF TypeOK, OrderEnds, ReleaseRecorded
  <1>2. CASE FlagReversal
    <2>1. [pay EXCEPT !.status = "needs_review", !.parked = "paying_company",
                      !.safe = FALSE, !.paidAt = FALSE] \in Row
      BY DEF TypeOK, Row, Moving
    <2> QED
      BY <1>2, <2>1 DEF TypeOK, FlagReversal
  <1>3. CASE MarkRebalanced
    <2>1. [pay EXCEPT !.rebalanced = TRUE] \in Row
      BY DEF TypeOK, Row
    <2> QED
      BY <1>3, <2>1 DEF TypeOK, MarkRebalanced
  <1>4. ASSUME NEW l \in Legs, Land(l) \/ Lose(l)
        PROVE  TypeOK'
    <2>1. tx' \in [Legs -> Transaction]
      BY <1>4 DEF TypeOK, Land, Lose, Transaction
    <2>2. faults' \in 0..MaxFaults
      BY <1>4, FaultType DEF TypeOK, Land, Lose
    <2> QED
      BY <1>4, <2>1, <2>2 DEF TypeOK, Land, Lose
  <1>5. ASSUME NEW s \in Sales, Settle(s) \/ Lapse(s)
        PROVE  TypeOK'
    <2>1. desk' \in [Sales -> {"none", "open", "late", "expired", "paid", "refunded"}]
      BY <1>5 DEF TypeOK, Settle, Lapse
    <2>2. faults' \in 0..MaxFaults
      BY <1>5, FaultType DEF TypeOK, Settle, Lapse
    <2> QED
      BY <1>5, <2>1, <2>2 DEF TypeOK, Settle, Lapse
  <1>6. ASSUME NEW s \in Sales, Sync(s)
        PROVE  TypeOK'
    <2>1. PICK status \in {"settled", "ended", "failed"} :
            sale' = [sale EXCEPT ![s] = [status |-> status, claimed |-> @.claimed,
                                         short |-> @.short]]
      <3>1. CASE desk[s] = "paid"
        BY <1>6, <3>1 DEF Sync
      <3>2. CASE desk[s] = "refunded"
        BY <1>6, <3>2 DEF Sync
      <3>3. CASE desk[s] = "expired"
        BY <1>6, <3>3 DEF Sync
      <3>4. CASE desk[s] \notin {"paid", "refunded", "expired"}
        BY <1>6, <3>4 DEF Sync
      <3> QED
        BY <3>1, <3>2, <3>3, <3>4
    <2>2. sale' \in [Sales -> Sale]
      BY <2>1 DEF TypeOK, Sale
    <2> QED
      BY <1>6, <2>2 DEF TypeOK, Sync
  <1>7. ASSUME NEW r \in Refs, BankAnswers(r) \/ BankReverses(r)
        PROVE  TypeOK'
    <2>1. bank' \in [Refs -> {"none", "pending", "paid", "dead", "reversed"}]
      BY <1>7 DEF TypeOK, BankAnswers, BankReverses
    <2>2. faults' \in 0..MaxFaults
      BY <1>7, FaultType DEF TypeOK, BankAnswers, BankReverses
    <2> QED
      BY <1>7, <2>1, <2>2 DEF TypeOK, BankAnswers, BankReverses
  <1> QED
    BY <1>1, <1>2, <1>3, <1>4, <1>5, <1>6, <1>7 DEF World

\* Every reachable row, leg, sale and thread has its type (TypeOK): no attempt,
\* reference or status leaves the range the code gives it.
THEOREM PayoutTypes == Spec => []TypeOK
  <1>1. TypeOK /\ [Next]_vars => TypeOK'
    <2> SUFFICES ASSUME TypeOK, [Next]_vars PROVE TypeOK'
      OBVIOUS
    <2>1. CASE World
      BY <2>1, WorldTypes
    <2>2. ASSUME NEW t \in Threads, Tick(t)
          PROVE  TypeOK'
      BY <2>2, TickTypes, LegTypes, SellTypes, CompanyTypes DEF Tick
    <2>3. ASSUME NEW t \in Threads, Transfer(t)
          PROVE  TypeOK'
      BY <2>3, LegTypes DEF Transfer
    <2>4. ASSUME NEW t \in Threads, Operate(t) \/ Crash(t)
          PROVE  TypeOK'
      BY <2>4, OperatorTypes, CompanyTypes DEF Operate
    <2>5. CASE UNCHANGED vars
      BY <2>5 DEF vars, TypeOK
    <2> QED
      BY <2>1, <2>2, <2>3, <2>4, <2>5 DEF Next
  <1> QED
    BY <1>1, InitType, PTL DEF Spec

-----------------------------------------------------------------------------
(* What the rows stand on. *)

BridgeDone == \E l \in Legs : l[1] = "bridge" /\ tx[l] = "done"
DepositDone == \E l \in Legs : l[1] = "deposit" /\ tx[l] = "done"
RefundDone == PaidRefunds # {}
SalePaid == PaidSales # {}
TransferPaid == \E r \in Refs : bank[r] \in {"paid", "reversed"}

\* A leg's status says what became of its transaction; one deposit at most is live.
LegsAreRight ==
    \A l \in Legs :
       /\ Is(l, "none") => tx[l] = "none"
       /\ Is(l, "confirmed") => tx[l] = "done"
       /\ l[1] = "deposit" /\ Is(l, "failed") => tx[l] \in {"none", "cancelled"}
Live(l) == l[1] = "deposit" /\ (Is(l, "pending") \/ Is(l, "confirmed"))
OneDeposit == \A l, m \in Legs : Live(l) /\ Live(m) => l = m

SalesAreRight ==
    \A s \in Sales :
       /\ sale[s].status = "none" => desk[s] = "none"
       /\ sale[s].status = "settled" => desk[s] = "paid"

\* A status, on the row or noted when it was parked, that says money has moved.
Proven(status) ==
    /\ status \in {"bridged", "selling", "ordered", "depositing", "deposited"} => BridgeDone
    /\ status = "deposited" => DepositDone
Earned(row) ==
    /\ Proven(row.status) /\ Proven(row.parked)
    /\ row.status = "paid_wallet" => RefundDone
    /\ row.status = "paid" /\ ~row.byHand => SalePaid \/ TransferPaid
    /\ row.paidAt => TransferPaid

\* A thread acts on a row that was earned when it was read, and on what it has seen.
Right(th) ==
    /\ Earned(th.row)
    /\ th.pc \in {"ask", "shortfall", "opened"} => th.row.status = "selling"
    /\ th.pc \in {"landed", "funded"} => th.leg \in Legs /\ tx[th.leg] = "done"
    /\ th.pc = "funded" => th.leg[1] = "deposit"

PayoutInv ==
    /\ TypeOK /\ LegsAreRight /\ OneDeposit /\ SalesAreRight
    /\ Earned(pay)
    /\ \A t \in Threads : Right(thread[t])

\* What happened stays.
Grows ==
    /\ \A l \in Legs : tx[l] = "done" => tx'[l] = "done"
    /\ \A r \in Refs : bank[r] \in {"paid", "reversed"} => bank'[r] \in {"paid", "reversed"}
    /\ \A s \in Sales : desk[s] = "paid" => desk'[s] = "paid"

\* Most steps leave the legs and the world as they are.
LEMMA RowSteps ==
    ASSUME NEW t \in Threads,
           \/ Load(t) \/ LanesDisagree(t) \/ AwaitRelease(t) \/ AdvanceBridge(t)
           \/ BridgeRefused(t) \/ Landed(t) \/ Funded(t)
           \/ OpenSell(t) \/ SaleRefused(t) \/ Shortfall(t) \/ Opened(t) \/ Withdrawn(t)
           \/ RecoverSelling(t) \/ AdvanceDeposit(t) \/ FollowSell(t) \/ StartCompany(t)
           \/ RecordId(t) \/ ObserveCompany(t) \/ WalletOver(t) \/ WalletRefused(t)
           \/ LoadParked(t) \/ Retry(t) \/ RetryCompany(t) \/ MarkPaid(t) \/ Cancel(t)
           \/ PayWallet(t) \/ Reroute(t) \/ Leave(t) \/ Crash(t)
    PROVE  UNCHANGED <<leg, tx, desk, bank>>
  BY DEF Load, LanesDisagree, AwaitRelease, AdvanceBridge, BridgeRefused, Landed, Funded,
         OpenSell, SaleRefused, Shortfall, Opened, Withdrawn, RecoverSelling, AdvanceDeposit,
         FollowSell, StartCompany, RecordId, ObserveCompany, WalletOver, WalletRefused,
         LoadParked, Retry, RetryCompany, MarkPaid, Cancel, PayWallet, Reroute, Leave, Crash,
         Decide, rowVars, worldVars

LEMMA LegSteps ==
    ASSUME NEW t \in Threads,
           \/ \E l \in Legs : ObservePending(t, l) \/ UnexpectedLeg(t, l) \/ ObserveWallet(t, l)
           \/ Reserve(t) \/ Claim(t) \/ Approve(t) \/ SendRefused(t)
    PROVE  UNCHANGED <<sale, tx, desk, bank>>
  BY DEF ObservePending, UnexpectedLeg, ObserveWallet, Observe, Reserve, Claim, Approve,
         SendRefused, worldVars

LEMMA WorldGrows ==
    ASSUME TypeOK, SalesAreRight, [Next]_vars
    PROVE  Grows
  <1> USE DEF rowVars, worldVars
  <1>1. CASE UNCHANGED <<tx, desk, bank>>
    BY <1>1 DEF Grows
  <1>2. ASSUME NEW t \in Threads, Send(t)
        PROVE  Grows
    BY <1>2 DEF Send, Sent, Grows, TypeOK
  <1>3. ASSUME NEW t \in Threads, SaleOpened(t)
        PROVE  Grows
    BY <1>3 DEF SaleOpened, SalesAreRight, Grows, TypeOK
  <1>4. ASSUME NEW t \in Threads, Request(t)
        PROVE  Grows
    <2> DEFINE ref == thread[t].row.gen
               sent == [bank EXCEPT ![ref] = IF @ = "none" THEN "pending" ELSE @]
    <2>1. bank' \in {bank, sent} /\ UNCHANGED <<tx, desk>>
      BY <1>4 DEF Request
    <2> QED
      BY <2>1 DEF Grows, TypeOK
  <1>5. CASE World
    <2>1. CASE OrderEnds \/ ReleaseRecorded \/ FlagReversal \/ MarkRebalanced
      BY <2>1 DEF OrderEnds, ReleaseRecorded, FlagReversal, MarkRebalanced, Grows
    <2>2. ASSUME NEW l \in Legs, Land(l) \/ Lose(l)
          PROVE  Grows
      BY <2>2 DEF Land, Lose, Grows, TypeOK
    <2>3. ASSUME NEW s \in Sales, Settle(s) \/ Lapse(s) \/ Sync(s)
          PROVE  Grows
      BY <2>3 DEF Settle, Lapse, Sync, Grows, TypeOK
    <2>4. ASSUME NEW r \in Refs, BankAnswers(r) \/ BankReverses(r)
          PROVE  Grows
      BY <2>4 DEF BankAnswers, BankReverses, Grows, TypeOK
    <2> QED
      BY <1>5, <2>1, <2>2, <2>3, <2>4 DEF World
  <1>6. ASSUME NEW t \in Threads, Tick(t) \/ Transfer(t) \/ Operate(t) \/ Crash(t)
        PROVE  Grows
    BY <1>1, <1>2, <1>3, <1>4, <1>6, RowSteps, LegSteps DEF Tick, Transfer, Operate
  <1>7. CASE UNCHANGED vars
    BY <1>1, <1>7 DEF vars
  <1> QED
    BY <1>5, <1>6, <1>7 DEF Next

\* A leg that ends: it was pending, and failed only with nothing sent or cancelled.
LEMMA EndsAreRight ==
    ASSUME TypeOK, LegsAreRight, OneDeposit, NEW l \in Legs, NEW status \in {"confirmed", "failed"},
           Ends(l, status), Is(l, "pending"), tx' = tx,
           status = "confirmed" => tx[l] = "done",
           status = "failed" => tx[l] \in {"none", "cancelled"}
    PROVE  LegsAreRight' /\ OneDeposit'
  <1>1. /\ leg'[l].status = status
        /\ \A m \in Legs : m # l => leg'[m] = leg[m]
    BY DEF Ends, TypeOK
  <1>2. LegsAreRight'
    BY <1>1 DEF LegsAreRight, Is
  <1>3. \A m \in Legs : Live(m)' => Live(m)
    BY <1>1 DEF Live, Is
  <1> QED
    BY <1>2, <1>3 DEF OneDeposit

LEMMA FailUnsentIsRight ==
    ASSUME TypeOK, LegsAreRight, OneDeposit, NEW l \in Legs \cup {NoLeg}, FailUnsent(l), tx' = tx,
           l \notin Legs => leg' = leg
    PROVE  LegsAreRight' /\ OneDeposit'
  <1>1. CASE leg' = leg
    BY <1>1 DEF LegsAreRight, OneDeposit, Live, Is
  <1>2. CASE l \in Legs /\ Is(l, "pending") /\ ~Sent(l) /\ Ends(l, "failed")
    BY <1>2, EndsAreRight DEF Sent
  <1> QED
    BY <1>1, <1>2 DEF FailUnsent

LEMMA ObserveIsRight ==
    ASSUME TypeOK, LegsAreRight, OneDeposit, NEW t \in Threads, NEW l \in Legs,
           Is(l, "pending"), Observe(t, l)
    PROVE  LegsAreRight' /\ OneDeposit'
  <1>1. tx' = tx
    BY DEF Observe, worldVars
  <1>2. CASE Retired(l) /\ Ends(l, "failed")
    BY <1>1, <1>2, EndsAreRight DEF Retired, Sent
  <1>3. CASE tx[l] = "done" /\ Ends(l, "confirmed")
    BY <1>1, <1>3, EndsAreRight
  <1>4. CASE leg' = leg
    BY <1>1, <1>4 DEF LegsAreRight, OneDeposit, Live, Is
  <1> QED
    BY <1>2, <1>3, <1>4 DEF Observe

\* Of two deposits only one is live, and a leg's status says what its call did.
LEMMA LegsStayRight ==
    ASSUME TypeOK, LegsAreRight, OneDeposit, [Next]_vars
    PROVE  LegsAreRight' /\ OneDeposit'
  <1> USE DEF worldVars, rowVars
  <1>1. CASE UNCHANGED <<leg, tx>>
    BY <1>1 DEF LegsAreRight, OneDeposit, Live, Is
  <1>2. ASSUME NEW t \in Threads, NEW l \in Legs,
               ObservePending(t, l) \/ UnexpectedLeg(t, l) \/ ObserveWallet(t, l)
        PROVE  LegsAreRight' /\ OneDeposit'
    <2>1. CASE UnexpectedLeg(t, l)
      BY <1>1, <2>1 DEF UnexpectedLeg
    <2>2. CASE ObservePending(t, l) \/ ObserveWallet(t, l)
      <3>1. Is(l, "pending") /\ Observe(t, l)
        BY <2>2 DEF ObservePending, ObserveWallet, IsLatest, Pending, Of
      <3> QED
        BY <3>1, ObserveIsRight
    <2> QED
      BY <1>2, <2>1, <2>2
  <1>3. ASSUME NEW t \in Threads, Reserve(t)
        PROVE  LegsAreRight' /\ OneDeposit'
    <2> DEFINE kind == KindOf(thread[t].row)
               new == [status |-> "pending", approved |-> FALSE,
                       sale |-> IF kind = "deposit" THEN thread[t].row.sale ELSE 0]
    <2>1. tx' = tx
      BY <1>3 DEF Reserve
    <2>2. CASE leg' = leg
      BY <1>1, <2>1, <2>2
    <2>3. CASE leg' # leg
      <3>1. PICK l \in Legs : /\ l[1] = kind /\ Is(l, "none")
                              /\ leg' = [leg EXCEPT ![l] = new]
        BY <1>3, <2>3 DEF Reserve
      <3>2. kind = "deposit" => Of(kind, "pending") \cup Of(kind, "confirmed") = {}
        BY <1>3, <2>3 DEF Reserve
      <3>3. new.status = "pending"
        OBVIOUS
      <3> HIDE DEF kind, new
      <3>4. /\ leg'[l].status = "pending"
            /\ \A m \in Legs : m # l => leg'[m] = leg[m]
        BY <3>1, <3>3 DEF TypeOK
      <3>5. LegsAreRight'
        BY <2>1, <3>4 DEF LegsAreRight, Is
      <3>6. \A m \in Legs : Live(m)' => m = l \/ Live(m)
        BY <3>4 DEF Live, Is
      <3>7. Live(l)' => \A m \in Legs : ~Live(m)
        BY <3>1, <3>2 DEF Live, Of, Is
      <3> QED
        BY <3>5, <3>6, <3>7 DEF OneDeposit
    <2> QED
      BY <2>2, <2>3
  <1>4. ASSUME NEW t \in Threads, Claim(t) \/ SendRefused(t)
        PROVE  LegsAreRight' /\ OneDeposit'
    <2>1. tx' = tx /\ (leg' = leg \/ FailUnsent(thread[t].leg))
      <3>1. CASE Claim(t)
        <4>1. CASE thread[t].leg[1] = "bridge"
          BY <3>1, <4>1 DEF Claim
        <4>2. CASE thread[t].leg[1] = "deposit"
          BY <3>1, <4>2 DEF Claim
        <4>3. CASE thread[t].leg[1] \notin {"bridge", "deposit"}
          BY <3>1, <4>3 DEF Claim
        <4> QED
          BY <4>1, <4>2, <4>3
      <3>2. CASE SendRefused(t)
        BY <3>2 DEF SendRefused
      <3> QED
        BY <1>4, <3>1, <3>2
    <2>2. thread[t].leg \in Legs \cup {NoLeg}
      BY DEF TypeOK, Thread
    <2>3. CASE leg' = leg
      BY <1>1, <2>1, <2>3
    <2>4. CASE FailUnsent(thread[t].leg)
      BY <2>1, <2>2, <2>4, FailUnsentIsRight, FailUnsentStays DEF TypeOK
    <2> QED
      BY <2>1, <2>3, <2>4
  <1>5. ASSUME NEW t \in Threads, Approve(t)
        PROVE  LegsAreRight' /\ OneDeposit'
    <2> DEFINE l == thread[t].leg
               new == [status |-> "pending", approved |-> TRUE, sale |-> 0]
    <2>1. Is(l, "pending") /\ leg' = [leg EXCEPT ![l] = new] /\ tx' = tx
      BY <1>5 DEF Approve
    <2>2. \A m \in Legs : leg'[m].status = leg[m].status
      BY <2>1 DEF TypeOK, Is
    <2> QED
      BY <2>1, <2>2 DEF LegsAreRight, OneDeposit, Live, Is
  <1>6. ASSUME NEW t \in Threads, Send(t)
        PROVE  LegsAreRight' /\ OneDeposit'
    <2> DEFINE l == thread[t].leg
    <2>1. Is(l, "pending") /\ tx' = [tx EXCEPT ![l] = "flying"] /\ leg' = leg
      BY <1>6 DEF Send
    <2>2. \A m \in Legs : m # l => tx'[m] = tx[m]
      BY <2>1 DEF TypeOK
    <2> QED
      BY <2>1, <2>2 DEF LegsAreRight, OneDeposit, Live, Is, TypeOK
  <1>7. CASE World
    <2>1. ASSUME NEW l \in Legs, Land(l) \/ Lose(l)
          PROVE  LegsAreRight' /\ OneDeposit'
      <3>1. /\ leg' = leg /\ tx[l] = "flying"
            /\ \A m \in Legs : m # l => tx'[m] = tx[m]
        BY <2>1 DEF Land, Lose, TypeOK
      <3> QED
        BY <3>1 DEF LegsAreRight, OneDeposit, Live, Is
    <2>2. CASE UNCHANGED <<leg, tx>>
      BY <1>1, <2>2
    <2> QED
      BY <1>7, <2>1, <2>2
         DEF World, OrderEnds, ReleaseRecorded, FlagReversal, MarkRebalanced, Settle, Lapse, Sync,
             BankAnswers, BankReverses
  <1>8. ASSUME NEW t \in Threads, SaleOpened(t) \/ Request(t)
        PROVE  LegsAreRight' /\ OneDeposit'
    BY <1>1, <1>8 DEF SaleOpened, Request
  <1>9. ASSUME NEW t \in Threads, Tick(t) \/ Transfer(t) \/ Operate(t) \/ Crash(t)
        PROVE  LegsAreRight' /\ OneDeposit'
    BY <1>1, <1>2, <1>3, <1>4, <1>5, <1>6, <1>8, <1>9, RowSteps DEF Tick, Transfer, Operate
  <1>10. CASE UNCHANGED vars
    BY <1>1, <1>10 DEF vars
  <1> QED
    BY <1>7, <1>9, <1>10 DEF Next

\* A sale's row that says settled stands on a bank that was paid.
LEMMA SalesStayRight ==
    ASSUME TypeOK, SalesAreRight, [Next]_vars
    PROVE  SalesAreRight'
  <1> USE DEF worldVars, rowVars
  <1>1. CASE UNCHANGED <<sale, desk>>
    BY <1>1 DEF SalesAreRight
  <1>2. ASSUME desk' = desk, NEW s \in 0..MaxSales, CancelSale(s), Cancellable(s)
        PROVE  SalesAreRight'
    <2>1. \A r \in Sales : sale'[r].status \in {sale[r].status, "cancelled"}
      BY <1>2 DEF CancelSale, TypeOK
    <2> QED
      BY <1>2, <2>1 DEF SalesAreRight
  <1>3. ASSUME NEW t \in Threads, SaleOpened(t)
        PROVE  SalesAreRight'
    BY <1>3 DEF SaleOpened, SalesAreRight, TypeOK
  <1>4. ASSUME NEW t \in Threads, Opened(t)
        PROVE  SalesAreRight'
    <2>1. desk' = desk /\ thread[t].sale \in 0..MaxSales
      BY <1>4 DEF Opened, TypeOK, Thread
    <2>2. sale' = sale \/ (Cancellable(thread[t].sale) /\ CancelSale(thread[t].sale))
      BY <1>4 DEF Opened
    <2> QED
      BY <1>1, <1>2, <2>1, <2>2
  <1>5. ASSUME NEW t \in Threads, AdvanceDeposit(t)
        PROVE  SalesAreRight'
    <2>1. desk' = desk /\ thread[t].row.sale \in 0..MaxSales
      BY <1>5 DEF AdvanceDeposit, TypeOK, Thread, Row
    <2>2. sale' = sale \/ (Cancellable(thread[t].row.sale) /\ CancelSale(thread[t].row.sale))
      BY <1>5 DEF AdvanceDeposit
    <2> QED
      BY <1>1, <1>2, <2>1, <2>2
  <1>6. ASSUME NEW t \in Threads, Landed(t)
        PROVE  SalesAreRight'
    <2>1. desk' = desk
      BY <1>6 DEF Landed
    <2>2. \A s \in Sales : sale'[s].status = sale[s].status
      <3>1. CASE thread[t].leg[1] = "bridge"
        BY <1>6, <3>1 DEF Landed
      <3>2. CASE thread[t].leg[1] = "refund"
        BY <1>6, <3>2 DEF Landed
      <3>3. CASE thread[t].leg[1] \notin {"bridge", "refund"}
        <4>1. sale' = [sale EXCEPT ![thread[t].row.sale] =
                         [status |-> @.status, claimed |-> TRUE, short |-> @.short]]
          BY <1>6, <3>3 DEF Landed
        <4> QED
          BY <4>1 DEF TypeOK
      <3> QED
        BY <3>1, <3>2, <3>3
    <2> QED
      BY <2>1, <2>2 DEF SalesAreRight
  <1>7. CASE World
    <2>1. ASSUME NEW s \in Sales, Settle(s) \/ Lapse(s)
          PROVE  SalesAreRight'
      BY <2>1 DEF Settle, Lapse, FundedAt, SalesAreRight, TypeOK
    <2>2. ASSUME NEW s \in Sales, Sync(s)
          PROVE  SalesAreRight'
      <3>1. PICK status \in {"settled", "ended", "failed"} :
              /\ sale' = [sale EXCEPT ![s] = [status |-> status, claimed |-> @.claimed,
                                              short |-> @.short]]
              /\ status = "settled" => desk[s] = "paid"
        <4>1. CASE desk[s] = "paid"
          BY <2>2, <4>1 DEF Sync
        <4>2. CASE desk[s] = "refunded"
          BY <2>2, <4>2 DEF Sync
        <4>3. CASE desk[s] = "expired"
          BY <2>2, <4>3 DEF Sync
        <4>4. CASE desk[s] \notin {"paid", "refunded", "expired"}
          BY <2>2, <4>4 DEF Sync
        <4> QED
          BY <4>1, <4>2, <4>3, <4>4
      <3>2. desk' = desk
        BY <2>2 DEF Sync
      <3> QED
        BY <3>1, <3>2 DEF SalesAreRight, TypeOK
    <2>3. CASE UNCHANGED <<sale, desk>>
      BY <1>1, <2>3
    <2> QED
      BY <1>7, <2>1, <2>2, <2>3
         DEF World, OrderEnds, ReleaseRecorded, FlagReversal, MarkRebalanced, Land, Lose,
             BankAnswers, BankReverses
  <1>8. ASSUME NEW t \in Threads, Send(t) \/ Request(t)
        PROVE  SalesAreRight'
    BY <1>1, <1>8 DEF Send, Request
  <1>9. ASSUME NEW t \in Threads,
               \/ Load(t) \/ LanesDisagree(t) \/ AwaitRelease(t) \/ AdvanceBridge(t)
               \/ BridgeRefused(t) \/ Funded(t)
               \/ OpenSell(t) \/ SaleRefused(t) \/ Shortfall(t) \/ Withdrawn(t)
               \/ RecoverSelling(t) \/ FollowSell(t) \/ StartCompany(t)
               \/ RecordId(t) \/ ObserveCompany(t) \/ WalletOver(t) \/ WalletRefused(t)
               \/ LoadParked(t) \/ Retry(t) \/ RetryCompany(t) \/ MarkPaid(t) \/ Cancel(t)
               \/ PayWallet(t) \/ Reroute(t) \/ Leave(t) \/ Crash(t)
        PROVE  UNCHANGED <<sale, desk>>
    BY <1>9
       DEF Load, LanesDisagree, AwaitRelease, AdvanceBridge, BridgeRefused, Funded,
         OpenSell, SaleRefused, Shortfall, Withdrawn, RecoverSelling, FollowSell, StartCompany,
         RecordId, ObserveCompany, WalletOver, WalletRefused,
         LoadParked, Retry, RetryCompany, MarkPaid, Cancel, PayWallet, Reroute, Leave, Crash, Decide
  <1>10. ASSUME NEW t \in Threads, Tick(t) \/ Transfer(t) \/ Operate(t) \/ Crash(t)
        PROVE  SalesAreRight'
    BY <1>1, <1>3, <1>4, <1>5, <1>6, <1>8, <1>9, <1>10, LegSteps DEF Tick, Transfer, Operate
  <1>11. CASE UNCHANGED vars
    BY <1>1, <1>11 DEF vars
  <1> QED
    BY <1>7, <1>10, <1>11 DEF Next

\* A move to a state that is proven, and that is no end.
LEMMA MovedEarned ==
    ASSUME NEW from, NEW row, Earned(pay), Move(from, row),
           pay.status \in from => Proven(row.status) /\ row.status \notin {"paid", "paid_wallet"},
           row.parked \in {pay.parked, "none"}, row.paidAt => pay.paidAt
    PROVE  Earned(pay')
  <1>1. Proven("none")
    BY DEF Proven
  <1>2. pay.status \in from => Earned(row)
    BY <1>1 DEF Earned
  <1> QED
    BY <1>2 DEF Move

LEMMA ToEarned ==
    ASSUME TypeOK, NEW from, NEW status, Earned(pay), Move(from, To(status)),
           pay.status \in from => Proven(status), status \notin {"paid", "paid_wallet"}
    PROVE  Earned(pay')
  <1>1. To(status).status = status /\ To(status).parked = pay.parked
        /\ To(status).paidAt = pay.paidAt
    BY DEF TypeOK, To, Row
  <1> QED
    BY <1>1, MovedEarned

LEMMA GoRight ==
    ASSUME TypeOK, \A u \in Threads : Right(thread[u]), NEW t \in Threads, NEW pc, NEW row,
           NEW l, NEW s, Go(t, pc, row, l, s), Earned(row),
           pc \in {"ask", "shortfall", "opened"} => row.status = "selling",
           pc \in {"landed", "funded"} => l \in Legs /\ tx[l] = "done",
           pc = "funded" => l[1] = "deposit"
    PROVE  \A u \in Threads : Right(thread'[u])
  <1> DEFINE th == [pc |-> pc, row |-> row, leg |-> l, sale |-> s]
  <1>1. Right(th)
    BY DEF Right
  <1>2. thread' = [thread EXCEPT ![t] = th]
    BY DEF Go, Goto
  <1> HIDE DEF th
  <1> QED
    BY <1>1, <1>2 DEF TypeOK

LEMMA OnRight ==
    ASSUME TypeOK, \A u \in Threads : Right(thread[u]), NEW t \in Threads, NEW pc, On(t, pc),
           pc \in {"ask", "shortfall", "opened"} => thread[t].row.status = "selling",
           pc \in {"landed", "funded"} => thread[t].leg \in Legs /\ tx[thread[t].leg] = "done",
           pc = "funded" => thread[t].leg[1] = "deposit"
    PROVE  \A u \in Threads : Right(thread'[u])
  BY GoRight DEF On, Right

LEMMA StopRight ==
    ASSUME TypeOK, \A u \in Threads : Right(thread[u]), NEW t \in Threads, Stop(t)
    PROVE  \A u \in Threads : Right(thread'[u])
  <1>1. Right(Idle)
    BY DEF Right, Idle, NewRow, Earned, Proven
  <1> HIDE DEF Idle
  <1> QED
    BY <1>1 DEF Stop, Goto, TypeOK

LEMMA ParkRight ==
    ASSUME TypeOK, Earned(pay), \A u \in Threads : Right(thread[u]), NEW t \in Threads,
           NEW at, NEW safe, Proven(at), Park(t, at, safe)
    PROVE  Earned(pay') /\ \A u \in Threads : Right(thread'[u])
  <1> DEFINE row == [pay EXCEPT !.status = "needs_review", !.parked = at, !.safe = safe]
  <1>1. row.status = "needs_review" /\ row.parked = at /\ row.paidAt = pay.paidAt
    BY DEF TypeOK, Row
  <1>2. Earned(row)
    BY <1>1 DEF Earned, Proven
  <1> HIDE DEF row
  <1>3. Earned(pay')
    BY <1>2 DEF Park, Move, row
  <1> QED
    BY <1>3, StopRight DEF Park

LEMMA ParkRowRight ==
    ASSUME TypeOK, Earned(pay), \A u \in Threads : Right(thread[u]), NEW t \in Threads,
           NEW safe, ParkRow(t, safe)
    PROVE  Earned(pay') /\ \A u \in Threads : Right(thread'[u])
  BY ParkRight DEF ParkRow, Right, Earned

\* A confirmed leg is one that landed.
LEMMA ConfirmedIsDone ==
    ASSUME LegsAreRight
    PROVE  /\ Of("bridge", "confirmed") # {} => BridgeDone
           /\ Of("deposit", "confirmed") # {} => DepositDone
           /\ Of("refund", "confirmed") # {} => RefundDone
  BY DEF LegsAreRight, Of, BridgeDone, DepositDone, RefundDone, PaidRefunds

\* What a step writes on the row, or leaves a thread with, stands on what happened
\* before it.
StandsOn == Earned(pay') /\ \A u \in Threads : Right(thread'[u])

LEMMA BridgeRows ==
    ASSUME PayoutInv, NEW t \in Threads,
           \/ Load(t) \/ LanesDisagree(t) \/ AwaitRelease(t) \/ AdvanceBridge(t)
           \/ BridgeRefused(t) \/ Landed(t) \/ Funded(t)
    PROVE  StandsOn
  <1>1. /\ TypeOK /\ Earned(pay) /\ LegsAreRight
        /\ \A u \in Threads : Right(thread[u])
    BY DEF PayoutInv
  <1>2. Right(thread[t])
    BY <1>1
  <1>3. CASE Load(t)
    BY <1>1, <1>3, GoRight DEF Load, rowVars, StandsOn
  <1>4. CASE LanesDisagree(t) \/ BridgeRefused(t)
    BY <1>1, <1>4, ParkRowRight DEF LanesDisagree, BridgeRefused, StandsOn
  <1>5. CASE AwaitRelease(t)
    <2>1. CASE ParkRow(t, TRUE)
      BY <1>1, <2>1, ParkRowRight DEF StandsOn
    <2>2. CASE Move({"awaiting_release"}, To("cancelled")) /\ Stop(t)
      <3>1. Earned(pay')
        BY <1>1, <2>2, ToEarned DEF Proven
      <3> QED
        BY <1>1, <2>2, <3>1, StopRight DEF StandsOn
    <2>3. CASE /\ Move({"awaiting_release"}, [pay EXCEPT !.status = "received", !.received = TRUE])
               /\ Stop(t)
      <3> DEFINE row == [pay EXCEPT !.status = "received", !.received = TRUE]
      <3>1. row.status = "received" /\ row.parked = pay.parked /\ row.paidAt = pay.paidAt
        BY <1>1 DEF TypeOK, Row
      <3>2. Proven("received")
        BY DEF Proven
      <3> HIDE DEF row
      <3>3. Earned(pay')
        BY <1>1, <2>3, <3>1, <3>2, MovedEarned DEF row
      <3> QED
        BY <1>1, <2>3, <3>3, StopRight DEF StandsOn
    <2>4. CASE pay' = pay /\ Stop(t)
      BY <1>1, <2>4, StopRight DEF StandsOn
    <2> QED
      BY <1>5, <2>1, <2>2, <2>3, <2>4 DEF AwaitRelease
  <1>6. CASE AdvanceBridge(t)
    <2>1. CASE \E safe : ParkRow(t, safe)
      BY <1>1, <2>1, ParkRowRight DEF StandsOn
    <2>2. CASE /\ Of("bridge", "confirmed") # {}
               /\ Move({"received", "bridging"}, To("bridged")) /\ Stop(t)
      <3>1. Proven("bridged")
        BY <1>1, <2>2, ConfirmedIsDone DEF Proven
      <3>2. Earned(pay')
        BY <1>1, <2>2, <3>1, ToEarned
      <3> QED
        BY <1>1, <2>2, <3>2, StopRight DEF StandsOn
    <2>3. CASE Go(t, "reserve", thread[t].row, NoLeg, 0) /\ pay' = pay
      BY <1>1, <1>2, <2>3, GoRight DEF StandsOn, Right
    <2> QED
      BY <1>6, <2>1, <2>2, <2>3 DEF AdvanceBridge
  <1>7. CASE Landed(t)
    <2>1. thread[t].leg \in Legs /\ tx[thread[t].leg] = "done"
      BY <1>2, <1>7 DEF Landed, At, Right
    <2>2. CASE thread[t].leg[1] = "bridge"
      <3>1. Move({"received", "bridging"}, To("bridged")) /\ Stop(t)
        BY <1>7, <2>2 DEF Landed
      <3>2. Proven("bridged")
        BY <2>1, <2>2 DEF Proven, BridgeDone
      <3>3. Earned(pay')
        BY <1>1, <3>1, <3>2, ToEarned
      <3> QED
        BY <1>1, <3>1, <3>3, StopRight DEF StandsOn
    <2>3. CASE thread[t].leg[1] = "refund"
      <3>1. Move({"paying_wallet"}, To("paid_wallet")) /\ Stop(t)
        BY <1>7, <2>3 DEF Landed
      <3>2. RefundDone
        BY <2>1, <2>3 DEF RefundDone, PaidRefunds
      <3>3. Earned(To("paid_wallet"))
        BY <1>1, <3>2 DEF Earned, Proven, To, TypeOK, Row
      <3>4. Earned(pay')
        BY <1>1, <3>1, <3>3 DEF Move
      <3> QED
        BY <1>1, <3>1, <3>4, StopRight DEF StandsOn
    <2>4. CASE thread[t].leg[1] \notin {"bridge", "refund"}
      <3>1. On(t, "funded") /\ pay' = pay
        BY <1>7, <2>4 DEF Landed
      <3>2. thread[t].leg[1] = "deposit"
        BY <2>1, <2>4 DEF Legs, Kinds
      <3> QED
        BY <1>1, <2>1, <3>1, <3>2, OnRight DEF StandsOn
    <2> QED
      BY <2>2, <2>3, <2>4
  <1>8. CASE Funded(t)
    <2>1. DepositDone
      BY <1>2, <1>8 DEF Funded, At, Right, DepositDone
    <2>2. pay.status \in {"ordered", "depositing"} => Proven("deposited")
      BY <1>1, <2>1 DEF Earned, Proven
    <2>3. Earned(pay')
      BY <1>1, <1>8, <2>2, ToEarned DEF Funded
    <2> QED
      BY <1>1, <1>8, <2>3, StopRight DEF Funded, StandsOn
  <1> QED
    BY <1>3, <1>4, <1>5, <1>6, <1>7, <1>8

LEMMA LegRows ==
    ASSUME PayoutInv, NEW t \in Threads,
           \/ \E l \in Legs : ObservePending(t, l) \/ UnexpectedLeg(t, l) \/ ObserveWallet(t, l)
           \/ Reserve(t) \/ Claim(t) \/ Approve(t) \/ Send(t) \/ SendRefused(t)
    PROVE  StandsOn
  <1>1. /\ TypeOK /\ Earned(pay)
        /\ \A u \in Threads : Right(thread[u])
    BY DEF PayoutInv
  <1>2. Right(thread[t]) /\ Earned(thread[t].row)
    BY <1>1 DEF Right
  <1>3. ASSUME NEW l \in Legs, ObservePending(t, l) \/ UnexpectedLeg(t, l) \/ ObserveWallet(t, l)
        PROVE  StandsOn
    <2>1. CASE \E safe : ParkRow(t, safe)
      BY <1>1, <2>1, ParkRowRight DEF StandsOn
    <2>2. CASE pay' = pay /\ Stop(t)
      BY <1>1, <2>2, StopRight DEF StandsOn
    <2>3. CASE pay' = pay /\ tx[l] = "done" /\ Go(t, "landed", thread[t].row, l, 0)
      BY <1>1, <1>2, <2>3, GoRight DEF StandsOn
    <2> QED
      BY <1>3, <2>1, <2>2, <2>3 DEF ObservePending, UnexpectedLeg, ObserveWallet, Observe
  <1>4. CASE Reserve(t)
    <2>1. pay' = pay
      BY <1>4 DEF Reserve
    <2>2. Stop(t) \/ \E l \in Legs : Go(t, "claim", thread[t].row, l, 0)
      BY <1>4 DEF Reserve
    <2> QED
      BY <1>1, <1>2, <2>1, <2>2, StopRight, GoRight DEF StandsOn
  <1>5. CASE Claim(t)
    <2>1. On(t, "send") \/ Stop(t)
      <3>1. CASE thread[t].leg[1] = "bridge"
        BY <1>5, <3>1 DEF Claim
      <3>2. CASE thread[t].leg[1] = "deposit"
        BY <1>5, <3>2 DEF Claim
      <3>3. CASE thread[t].leg[1] \notin {"bridge", "deposit"}
        BY <1>5, <3>3 DEF Claim
      <3> QED
        BY <3>1, <3>2, <3>3
    <2>2. \/ Move({"received", "bridging"}, To("bridging"))
          \/ Move({"ordered", "depositing"}, To("depositing"))
          \/ Move({"needs_review"}, To("paying_wallet"))
      <3>1. CASE thread[t].leg[1] = "bridge"
        BY <1>5, <3>1 DEF Claim
      <3>2. CASE thread[t].leg[1] = "deposit"
        BY <1>5, <3>2 DEF Claim
      <3>3. CASE thread[t].leg[1] \notin {"bridge", "deposit"}
        BY <1>5, <3>3 DEF Claim
      <3> QED
        BY <3>1, <3>2, <3>3
    <2>3. /\ Proven("bridging") /\ Proven("paying_wallet")
          /\ pay.status \in {"ordered", "depositing"} => Proven("depositing")
      BY <1>1 DEF Earned, Proven
    <2>4. Earned(pay')
      BY <1>1, <2>2, <2>3, ToEarned
    <2> QED
      BY <1>1, <2>1, <2>4, OnRight, StopRight DEF StandsOn
  <1>6. CASE Approve(t)
    BY <1>1, <1>6 DEF Approve, StandsOn
  <1>7. CASE Send(t)
    BY <1>1, <1>7, StopRight DEF Send, StandsOn, rowVars
  <1>8. CASE SendRefused(t)
    <2>1. pay' = pay /\ (On(t, "refused") \/ Stop(t))
      BY <1>8 DEF SendRefused
    <2> QED
      BY <1>1, <2>1, OnRight, StopRight DEF StandsOn
  <1> QED
    BY <1>3, <1>4, <1>5, <1>6, <1>7, <1>8

LEMMA SellRows ==
    ASSUME PayoutInv, NEW t \in Threads,
           \/ OpenSell(t) \/ SaleRefused(t) \/ Shortfall(t) \/ SaleOpened(t) \/ Opened(t)
           \/ Withdrawn(t) \/ RecoverSelling(t) \/ AdvanceDeposit(t) \/ FollowSell(t)
    PROVE  StandsOn
  <1>1. /\ TypeOK /\ Earned(pay) /\ LegsAreRight /\ SalesAreRight
        /\ \A u \in Threads : Right(thread[u])
    BY DEF PayoutInv
  <1>2. Right(thread[t]) /\ Earned(thread[t].row) /\ thread[t].row \in Row
    BY <1>1 DEF Right, TypeOK, Thread
  <1>3. /\ At(t, "ask") \/ At(t, "shortfall") \/ At(t, "opened") =>
             thread[t].row.status = "selling" /\ Proven("selling") /\ Proven("bridged")
        /\ pay.status \in {"selling", "ordered", "depositing"} =>
             Proven("bridged") /\ Proven("ordered")
    BY <1>1, <1>2 DEF At, Right, Earned, Proven
  \* The sale is linked.
  <1>4. ASSUME NEW s, Move({"selling"}, [pay EXCEPT !.status = "ordered", !.sale = s]), Stop(t)
        PROVE  StandsOn
    <2> DEFINE row == [pay EXCEPT !.status = "ordered", !.sale = s]
    <2>1. row.status = "ordered" /\ row.parked = pay.parked /\ row.paidAt = pay.paidAt
      BY <1>1 DEF TypeOK, Row
    <2> HIDE DEF row
    <2>2. Earned(pay')
      BY <1>1, <1>3, <1>4, <2>1, MovedEarned DEF row
    <2> QED
      BY <1>1, <1>4, <2>2, StopRight DEF StandsOn
  <1>5. CASE \E safe : ParkRow(t, safe)
    BY <1>1, <1>5, ParkRowRight DEF StandsOn
  <1>6. CASE OpenSell(t)
    <2>1. CASE /\ Of("bridge", "confirmed") # {} /\ Move({"bridged"}, To("selling"))
               /\ \/ Go(t, "ask", [thread[t].row EXCEPT !.status = "selling"], NoLeg, 0)
                  \/ Stop(t)
      <3> DEFINE row == [thread[t].row EXCEPT !.status = "selling"]
      <3>1. Proven("selling")
        BY <1>1, <2>1, ConfirmedIsDone DEF Proven
      <3>2. Earned(pay')
        BY <1>1, <2>1, <3>1, ToEarned
      <3>3. /\ row.status = "selling" /\ row.parked = thread[t].row.parked
            /\ row.paidAt = thread[t].row.paidAt
        BY <1>2 DEF Row
      <3> HIDE DEF row
      <3>4. Earned(row)
        BY <1>2, <3>1, <3>3 DEF Earned
      <3> QED
        BY <1>1, <2>1, <3>2, <3>3, <3>4, GoRight, StopRight DEF row, StandsOn
    <2> QED
      BY <1>5, <1>6, <2>1 DEF OpenSell
  <1>7. CASE SaleRefused(t)
    <2>1. At(t, "ask")
      BY <1>7 DEF SaleRefused
    <2>2. CASE Move({"selling"}, To("bridged"))
               /\ (Go(t, "shortfall", thread[t].row, NoLeg, 0) \/ Stop(t))
      <3>1. Earned(pay')
        BY <1>1, <1>3, <2>2, ToEarned
      <3> QED
        BY <1>1, <1>2, <1>3, <2>1, <2>2, <3>1, GoRight, StopRight DEF StandsOn
    <2>3. CASE Park(t, "selling", FALSE)
      BY <1>1, <1>3, <2>1, <2>3, ParkRight DEF StandsOn
    <2> QED
      BY <1>7, <2>2, <2>3 DEF SaleRefused
  <1>8. CASE Shortfall(t)
    BY <1>1, <1>3, <1>8, ParkRight DEF Shortfall, StandsOn
  <1>9. CASE SaleOpened(t)
    <2>1. At(t, "ask") /\ pay' = pay
      BY <1>9 DEF SaleOpened
    <2>2. PICK s \in Sales : Go(t, "opened", thread[t].row, NoLeg, s)
      BY <1>9 DEF SaleOpened
    <2> QED
      BY <1>1, <1>2, <1>3, <2>1, <2>2, GoRight DEF StandsOn
  <1>10. CASE Opened(t)
    <2>1. At(t, "opened")
      BY <1>10 DEF Opened
    <2>2. CASE /\ Move({"selling"}, [pay EXCEPT !.status = "ordered", !.sale = thread[t].sale])
               /\ Stop(t)
      BY <1>4, <2>2
    <2>3. CASE pay' = pay /\ (On(t, "withdrawn") \/ On(t, "ask"))
      BY <1>1, <1>3, <2>1, <2>3, OnRight DEF StandsOn
    <2>4. CASE Park(t, "selling", FALSE)
      BY <1>1, <1>3, <2>1, <2>4, ParkRight DEF StandsOn
    <2> QED
      BY <1>10, <2>2, <2>3, <2>4 DEF Opened
  <1>11. CASE Withdrawn(t)
    <2>1. CASE Move({"selling"}, To("bridged")) /\ Stop(t)
      <3>1. Earned(pay')
        BY <1>1, <1>3, <2>1, ToEarned
      <3> QED
        BY <1>1, <2>1, <3>1, StopRight DEF StandsOn
    <2>2. CASE /\ Move({"ordered", "depositing"}, [pay EXCEPT !.status = "bridged", !.sale = 0])
               /\ Stop(t)
      <3> DEFINE row == [pay EXCEPT !.status = "bridged", !.sale = 0]
      <3>1. row.status = "bridged" /\ row.parked = pay.parked /\ row.paidAt = pay.paidAt
        BY <1>1 DEF TypeOK, Row
      <3> HIDE DEF row
      <3>2. Earned(pay')
        BY <1>1, <1>3, <2>2, <3>1, MovedEarned DEF row
      <3> QED
        BY <1>1, <2>2, <3>2, StopRight DEF StandsOn
    <2> QED
      BY <1>11, <2>1, <2>2 DEF Withdrawn
  <1>12. CASE RecoverSelling(t)
    BY <1>4, <1>5, <1>12 DEF RecoverSelling
  <1>13. CASE AdvanceDeposit(t)
    <2>1. CASE /\ Of("deposit", "confirmed") # {}
               /\ Move({"ordered", "depositing"}, To("deposited")) /\ Stop(t)
      <3>1. pay.status \in {"ordered", "depositing"} => Proven("deposited")
        BY <1>1, <2>1, ConfirmedIsDone DEF Earned, Proven
      <3>2. Earned(pay')
        BY <1>1, <2>1, <3>1, ToEarned
      <3> QED
        BY <1>1, <2>1, <3>2, StopRight DEF StandsOn
    <2>2. CASE /\ pay' = pay
               /\ \/ Go(t, "withdrawn", thread[t].row, NoLeg, thread[t].row.sale)
                  \/ Go(t, "reserve", thread[t].row, NoLeg, 0)
      BY <1>1, <1>2, <2>2, GoRight DEF StandsOn
    <2> QED
      BY <1>5, <1>13, <2>1, <2>2 DEF AdvanceDeposit
  <1>14. CASE FollowSell(t)
    <2>1. CASE /\ sale[thread[t].row.sale].status = "settled"
               /\ Move({"deposited"}, To("paid")) /\ Stop(t)
      <3>1. thread[t].row.sale \in Sales
        BY <1>2, <1>14, PayoutAssumption DEF FollowSell, Row, Sales
      <3>2. SalePaid
        BY <1>1, <2>1, <3>1 DEF SalesAreRight, SalePaid, PaidSales
      <3>3. Earned(To("paid"))
        BY <1>1, <3>2 DEF Earned, Proven, To, TypeOK, Row
      <3>4. Earned(pay')
        BY <1>1, <2>1, <3>3 DEF Move
      <3> QED
        BY <1>1, <2>1, <3>4, StopRight DEF StandsOn
    <2>2. CASE Stop(t) /\ pay' = pay
      BY <1>1, <2>2, StopRight DEF StandsOn
    <2> QED
      BY <1>5, <1>14, <2>1, <2>2 DEF FollowSell
  <1> QED
    BY <1>6, <1>7, <1>8, <1>9, <1>10, <1>11, <1>12, <1>13, <1>14

LEMMA CompanyRows ==
    ASSUME PayoutInv, NEW t \in Threads,
           \/ StartCompany(t) \/ Request(t) \/ RecordId(t) \/ ObserveCompany(t)
           \/ WalletOver(t) \/ WalletRefused(t)
    PROVE  StandsOn
  <1>1. /\ TypeOK /\ Earned(pay) /\ LegsAreRight
        /\ \A u \in Threads : Right(thread[u])
    BY DEF PayoutInv
  <1>2. Right(thread[t]) /\ Earned(thread[t].row) /\ thread[t].row \in Row
    BY <1>1 DEF Right, TypeOK, Thread
  <1>3. Proven("paying_company") /\ Proven("needs_review")
    BY DEF Proven
  <1>4. CASE \E safe : ParkRow(t, safe)
    BY <1>1, <1>4, ParkRowRight DEF StandsOn
  <1>5. CASE StartCompany(t)
    <2> DEFINE to == [pay EXCEPT !.status = "paying_company", !.ref = thread[t].row.gen,
                        !.attempts = IF pay.attempts = 2 THEN 2 ELSE pay.attempts + 1,
                        !.transfer = 0]
               row == [thread[t].row EXCEPT !.status = "paying_company"]
    <2>1. to.status = "paying_company" /\ to.parked = pay.parked /\ to.paidAt = pay.paidAt
      BY <1>1 DEF TypeOK, Row
    <2>2. /\ row.status = "paying_company" /\ row.parked = thread[t].row.parked
          /\ row.paidAt = thread[t].row.paidAt
      BY <1>2 DEF Row
    <2>3. ParkRow(t, TRUE) \/ (Move({"received"}, to) /\ (Go(t, "request", row, NoLeg, 0) \/ Stop(t)))
      BY <1>5 DEF StartCompany
    <2> HIDE DEF to, row
    <2>4. Earned(row)
      BY <1>2, <1>3, <2>2 DEF Earned
    <2>5. Move({"received"}, to) => Earned(pay')
      BY <1>1, <1>3, <2>1, MovedEarned
    <2> QED
      BY <1>1, <1>4, <2>3, <2>4, <2>5, GoRight, StopRight DEF StandsOn
  <1>6. CASE Request(t)
    <2>1. \/ On(t, "accepted") /\ pay' = pay
          \/ \E safe : Park(t, "paying_company", safe)
      BY <1>6 DEF Request
    <2> QED
      BY <1>1, <1>3, <2>1, OnRight, ParkRight DEF StandsOn
  <1>7. CASE RecordId(t)
    <2> DEFINE row == [pay EXCEPT !.transfer = thread[t].row.gen]
    <2>1. row.status = pay.status /\ row.parked = pay.parked /\ row.paidAt = pay.paidAt
      BY <1>1 DEF TypeOK, Row
    <2>2. Move({"paying_company"}, row) /\ Stop(t)
      BY <1>7 DEF RecordId
    <2> HIDE DEF row
    <2>3. Earned(pay')
      BY <1>1, <1>3, <2>1, <2>2, MovedEarned
    <2> QED
      BY <1>1, <2>2, <2>3, StopRight DEF StandsOn
  <1>8. CASE ObserveCompany(t)
    <2>1. CASE /\ thread[t].row.transfer # 0 /\ bank[thread[t].row.transfer] = "paid"
               /\ Move({"paying_company"}, [pay EXCEPT !.status = "paid", !.paidAt = TRUE])
               /\ Stop(t)
      <3> DEFINE row == [pay EXCEPT !.status = "paid", !.paidAt = TRUE]
      <3>1. row.status = "paid" /\ row.parked = pay.parked
        BY <1>1 DEF TypeOK, Row
      <3>2. TransferPaid
        BY <1>2, <2>1, PayoutAssumption DEF Row, Refs, TransferPaid
      <3>3. Proven("paid")
        BY DEF Proven
      <3> HIDE DEF row
      <3>4. Earned(row)
        BY <1>1, <3>1, <3>2, <3>3 DEF Earned
      <3>5. Earned(pay')
        BY <1>1, <2>1, <3>4 DEF Move, row
      <3> QED
        BY <1>1, <2>1, <3>5, StopRight DEF StandsOn
    <2>2. CASE Stop(t) /\ pay' = pay
      BY <1>1, <2>2, StopRight DEF StandsOn
    <2> QED
      BY <1>4, <1>8, <2>1, <2>2 DEF ObserveCompany
  <1>9. CASE WalletOver(t)
    <2>1. CASE /\ Of("refund", "confirmed") # {}
               /\ Move({"paying_wallet"}, To("paid_wallet")) /\ Stop(t)
      <3>1. RefundDone
        BY <1>1, <2>1, ConfirmedIsDone
      <3>2. Earned(To("paid_wallet"))
        BY <1>1, <3>1 DEF Earned, Proven, To, TypeOK, Row
      <3>3. Earned(pay')
        BY <1>1, <2>1, <3>2 DEF Move
      <3> QED
        BY <1>1, <2>1, <3>3, StopRight DEF StandsOn
    <2> QED
      BY <1>4, <1>9, <2>1 DEF WalletOver
  <1>10. CASE WalletRefused(t)
    <2>1. Earned(pay')
      BY <1>1, <1>3, <1>10, ToEarned DEF WalletRefused
    <2> QED
      BY <1>1, <1>10, <2>1, StopRight DEF WalletRefused, StandsOn
  <1> QED
    BY <1>5, <1>6, <1>7, <1>8, <1>9, <1>10

LEMMA OperatorRows ==
    ASSUME PayoutInv, NEW t \in Threads,
           \/ LoadParked(t) \/ Retry(t) \/ RetryCompany(t) \/ MarkPaid(t) \/ Cancel(t)
           \/ PayWallet(t) \/ Reroute(t) \/ Leave(t) \/ Crash(t)
    PROVE  StandsOn
  <1>1. /\ TypeOK /\ Earned(pay)
        /\ \A u \in Threads : Right(thread[u])
    BY DEF PayoutInv
  <1>2. Right(thread[t]) /\ Earned(thread[t].row) /\ thread[t].row \in Row
    BY <1>1 DEF Right, TypeOK, Thread
  <1>3. CASE LoadParked(t) \/ PayWallet(t)
    BY <1>1, <1>2, <1>3, GoRight DEF LoadParked, PayWallet, rowVars, StandsOn
  <1>4. CASE Retry(t)
    <2> DEFINE to == IF thread[t].row.parked = "selling" /\ LiveSales = {} THEN "bridged"
                     ELSE thread[t].row.parked
               row == [pay EXCEPT !.safe = FALSE, !.status = to]
    <2>1. row.status = to /\ row.parked = pay.parked /\ row.paidAt = pay.paidAt
      BY <1>1 DEF TypeOK, Row
    <2>2. Proven(to) /\ to \notin {"paid", "paid_wallet"}
      <3>1. thread[t].row.parked \notin {"paid", "paid_wallet"}
        BY <1>2 DEF Row, Moving
      <3> QED
        BY <1>2, <3>1 DEF Earned, Proven
    <2>3. Move({"needs_review"}, row) /\ Stop(t)
      BY <1>4 DEF Retry, Decide
    <2> HIDE DEF row, to
    <2>4. Earned(pay')
      BY <1>1, <2>1, <2>2, <2>3, MovedEarned
    <2> QED
      BY <1>1, <2>3, <2>4, StopRight DEF StandsOn
  <1>5. CASE RetryCompany(t)
    <2> DEFINE row == [pay EXCEPT !.safe = FALSE, !.status = "received", !.gen = pay.gen + 1,
                                  !.transfer = 0, !.paidAt = FALSE]
    <2>1. row.status = "received" /\ row.parked = pay.parked /\ row.paidAt = FALSE
      BY <1>1 DEF TypeOK, Row
    <2>2. Proven("received")
      BY DEF Proven
    <2>3. Move({"needs_review"}, row) /\ Stop(t)
      BY <1>5 DEF RetryCompany, Decide
    <2> HIDE DEF row
    <2>4. Earned(pay')
      BY <1>1, <2>1, <2>2, <2>3, MovedEarned
    <2> QED
      BY <1>1, <2>3, <2>4, StopRight DEF StandsOn
  <1>6. CASE MarkPaid(t)
    <2> DEFINE row == [pay EXCEPT !.status = "paid", !.byHand = TRUE]
    <2>1. /\ row.status = "paid" /\ row.parked = pay.parked /\ row.paidAt = pay.paidAt
          /\ row.byHand = TRUE
      BY <1>1 DEF TypeOK, Row
    <2>2. Move({"needs_review"}, row) /\ Stop(t)
      BY <1>6 DEF MarkPaid, Decide
    <2> HIDE DEF row
    <2>3. Earned(row)
      BY <1>1, <2>1 DEF Earned, Proven
    <2>4. Earned(pay')
      BY <1>1, <2>2, <2>3 DEF Move
    <2> QED
      BY <1>1, <2>2, <2>4, StopRight DEF StandsOn
  <1>7. CASE Cancel(t)
    <2>1. Earned(pay')
      BY <1>1, <1>7, ToEarned DEF Cancel, Decide, Proven
    <2> QED
      BY <1>1, <1>7, <2>1, StopRight DEF Cancel, Decide, StandsOn
  <1>8. CASE Reroute(t)
    <2> DEFINE some == thread[t].row.attempts > 0
               to == IF ~thread[t].row.received \/ thread[t].row.parked = "awaiting_release"
                     THEN "awaiting_release" ELSE "received"
               row == [pay EXCEPT !.status = to,
                         !.venue = IF pay.venue = "company" THEN "paycrest" ELSE "company",
                         !.parked = "none", !.safe = FALSE, !.attempts = 0,
                         !.gen = IF some THEN pay.gen + 1 ELSE pay.gen,
                         !.transfer = IF some THEN 0 ELSE pay.transfer]
    <2>1. row.status = to /\ row.parked = "none" /\ row.paidAt = pay.paidAt
      BY <1>1 DEF TypeOK, Row
    <2>2. Earned(row)
      BY <1>1, <2>1 DEF Earned, Proven
    <2>3. (pay' = pay \/ pay' = row) /\ Stop(t)
      BY <1>8 DEF Reroute
    <2> HIDE DEF row
    <2>4. Earned(pay')
      BY <1>1, <2>2, <2>3
    <2> QED
      BY <1>1, <2>3, <2>4, StopRight DEF StandsOn
  <1>9. CASE Leave(t) \/ Crash(t)
    BY <1>1, <1>9, StopRight DEF Leave, Crash, rowVars, StandsOn
  <1> QED
    BY <1>3, <1>4, <1>5, <1>6, <1>7, <1>8, <1>9

LEMMA WorldRows ==
    ASSUME PayoutInv, World
    PROVE  StandsOn
  <1>1. /\ TypeOK /\ Earned(pay)
        /\ \A u \in Threads : Right(thread[u])
    BY DEF PayoutInv
  <1>2. thread' = thread
    BY DEF World, OrderEnds, ReleaseRecorded, FlagReversal, MarkRebalanced, Land, Lose, Settle,
           Lapse, Sync, BankAnswers, BankReverses
  <1>3. Earned(pay')
    <2>1. CASE pay' = pay
      BY <1>1, <2>1
    <2>2. CASE FlagReversal
      <3> DEFINE row == [pay EXCEPT !.status = "needs_review", !.parked = "paying_company",
                                    !.safe = FALSE, !.paidAt = FALSE]
      <3>1. row.status = "needs_review" /\ row.parked = "paying_company" /\ row.paidAt = FALSE
        BY <1>1 DEF TypeOK, Row
      <3>2. Earned(row)
        BY <3>1 DEF Earned, Proven
      <3> QED
        BY <2>2, <3>2 DEF FlagReversal
    <2>3. CASE MarkRebalanced
      <3> DEFINE row == [pay EXCEPT !.rebalanced = TRUE]
      <3>1. /\ row.status = pay.status /\ row.parked = pay.parked /\ row.paidAt = pay.paidAt
            /\ row.byHand = pay.byHand
        BY <1>1 DEF TypeOK, Row
      <3>2. Earned(row)
        BY <1>1, <3>1 DEF Earned
      <3> QED
        BY <2>3, <3>2 DEF MarkRebalanced
    <2> QED
      BY <2>1, <2>2, <2>3
         DEF World, OrderEnds, ReleaseRecorded, Land, Lose, Settle, Lapse, Sync, BankAnswers,
             BankReverses, rowVars
  <1> QED
    BY <1>1, <1>2, <1>3 DEF StandsOn

\* What stood on what had happened still does.
LEMMA StandsStill ==
    ASSUME StandsOn, Grows, TypeOK, TypeOK'
    PROVE  Earned(pay)' /\ \A t \in Threads : Right(thread[t])'
  <1>1. /\ BridgeDone => BridgeDone'
        /\ DepositDone => DepositDone'
        /\ RefundDone => RefundDone'
        /\ SalePaid => SalePaid'
        /\ TransferPaid => TransferPaid'
    BY DEF Grows, BridgeDone, DepositDone, RefundDone, PaidRefunds, SalePaid, PaidSales,
           TransferPaid
  <1>2. Earned(pay)'
    BY <1>1 DEF StandsOn, Earned, Proven
  <1>3. \A t \in Threads : Right(thread[t])'
    BY <1>1 DEF StandsOn, Grows, Right, Earned, Proven
  <1> QED
    BY <1>2, <1>3

\* The inductive invariant: the types, the legs, the sales, and every row and thread
\* standing on what happened.
THEOREM PayoutInduction == Spec => []PayoutInv
  <1>1. Init => PayoutInv
    <2> SUFFICES ASSUME Init PROVE PayoutInv
      OBVIOUS
    <2>1. TypeOK
      BY InitType
    <2>2. LegsAreRight /\ OneDeposit /\ SalesAreRight
      BY DEF Init, LegsAreRight, OneDeposit, Live, SalesAreRight, Is
    <2>3. Earned(pay) /\ \A t \in Threads : Right(thread[t])
      BY DEF Init, NewRow, Idle, Earned, Proven, Right
    <2> QED
      BY <2>1, <2>2, <2>3 DEF PayoutInv
  <1>2. PayoutInv /\ TypeOK' /\ [Next]_vars => PayoutInv'
    <2> SUFFICES ASSUME PayoutInv, TypeOK', [Next]_vars PROVE PayoutInv'
      OBVIOUS
    <2>1. TypeOK /\ LegsAreRight /\ OneDeposit /\ SalesAreRight
      BY DEF PayoutInv
    <2>2. LegsAreRight' /\ OneDeposit' /\ SalesAreRight' /\ Grows
      BY <2>1, LegsStayRight, SalesStayRight, WorldGrows
    <2>3. StandsOn
      <3>1. CASE World
        BY <3>1, WorldRows
      <3>2. ASSUME NEW t \in Threads, Tick(t) \/ Transfer(t) \/ Operate(t) \/ Crash(t)
            PROVE  StandsOn
        BY <3>2, BridgeRows, LegRows, SellRows, CompanyRows, OperatorRows
           DEF Tick, Transfer, Operate
      <3>3. CASE UNCHANGED vars
        BY <3>3 DEF vars, StandsOn, PayoutInv
      <3> QED
        BY <3>1, <3>2, <3>3 DEF Next
    <2> QED
      BY <2>1, <2>2, <2>3, StandsStill DEF PayoutInv
  <1> QED
    BY <1>1, <1>2, PayoutTypes, PTL DEF Spec

\* However many processes tick and however many operators call, one deposit leaves the
\* treasury (FundedOnce): the index keeps one leg pending or confirmed, and one that
\* failed sent nothing, or its call was cancelled for good.
THEOREM DepositsAreFundedOnce == Spec => []FundedOnce
  <1>1. PayoutInv => FundedOnce
    BY DEF PayoutInv, TypeOK, LegsAreRight, OneDeposit, Live, Is, FundedOnce, Leg
  <1> QED
    BY <1>1, PayoutInduction, PTL

\* However many threads there are, and whatever a thread read before it wrote: no state
\* of the row says more than happened (EndsAreProven).
THEOREM PayoutsAreProven == Spec => []EndsAreProven
  <1>1. PayoutInv => EndsAreProven
    BY DEF PayoutInv, Earned, Proven, BridgeDone, DepositDone, RefundDone, SalePaid, TransferPaid,
           EndsAreProven
  <1> QED
    BY <1>1, PayoutInduction, PTL

-----------------------------------------------------------------------------
(* One payment. *)

\* Two processes are in a tick of this payout, or two operators in a call about it.
Overlap ==
    \/ \E t, u \in Tickers : t # u /\ ~At(t, "idle") /\ ~At(u, "idle")
    \/ \E t, u \in Operators : t # u /\ ~At(t, "idle") /\ ~At(u, "idle")
\* No other thread of t's kind is at work.
Only(t) ==
    /\ t \in Tickers => \A u \in Tickers \ {t} : At(u, "idle")
    /\ t \in Operators => \A u \in Operators \ {t} : At(u, "idle")

Hot(l) == tx[l] \in {"flying", "done"}
BridgeSent == \E l \in Legs : l[1] = "bridge" /\ Sent(l)
DepositSent == \E l \in Legs : l[1] = "deposit" /\ Sent(l)
DepositHot == \E l \in Legs : l[1] = "deposit" /\ Hot(l)
RefundSent == \E l \in Legs : l[1] = "refund" /\ Sent(l)
TransferUsed == \E r \in Refs : bank[r] # "none"
Early == {"awaiting_release", "received"}
Quiet == Early \cup {"bridging", "bridged", "selling"}

\* The three ways to pay the seller exclude each other for good: a sale is funded
\* behind a bridge, and whatever leaves for the bank or the wallet closes the other two.
OneWay ==
    /\ DepositSent => BridgeSent
    /\ \A l, m \in Legs : l[1] = "refund" /\ m[1] = "refund" /\ Sent(l) /\ Sent(m) => l = m
    /\ RefundSent => ~TransferUsed /\ ~BridgeSent
PaidIsFunded == \A s \in Sales : desk[s] = "paid" => FundedAt(s)

\* What the company route notes of its attempts: the references up to the last were
\* used, only the last may be alive, and one that is to be tried is new.
Books(row) ==
    /\ row.ref <= row.gen
    /\ row.attempts = 0 => row.ref < row.gen
    /\ row.transfer # 0 => row.transfer = row.ref /\ TransferUsed
    /\ \A r \in Refs : /\ bank[r] # "none" => r <= row.ref
                       /\ LiveTransfer(r) => r = row.ref
    /\ row.status \in Early => row.ref < row.gen
    /\ row.status \in {"needs_review", "paying_wallet"} /\ row.parked \in Early =>
         row.ref < row.gen
\* What was sent says where the row still can be.
Locked(row) ==
    /\ TransferUsed => /\ row.venue = "company" /\ row.attempts # 0
                       /\ ~(row.attempts = 1 /\ row.parked = "paying_company" /\ row.safe)
    /\ BridgeSent => /\ row.venue = "paycrest" /\ row.status # "paying_company"
                     /\ ~(row.status = "needs_review" /\ row.parked = "paying_company")
    /\ RefundSent => \/ row.status \in {"paying_wallet", "paid_wallet", "paid"}
                     \/ row.status = "needs_review" /\ row.parked = "paying_wallet"
\* Where nothing that was sent may still pay the seller.
Calm(row) ==
    /\ row.status \in Moving \ {"paying_wallet"} => ~row.safe
    /\ row.status \in Quiet => ~Alive
    /\ row.status = "needs_review" /\ (row.safe \/ row.parked \in Quiet) => ~Alive
RowSafe(row) == Books(row) /\ Locked(row) /\ Calm(row)

\* What the tick at work relies on.  Only a company transfer that was reversed, or an
\* operator's payment to the wallet, takes the row from under it.
TickerSafe(th, row) ==
    /\ th.pc # "refused"
    /\ th.pc = "loaded" =>
         /\ th.row.status \in Moving
         /\ \/ th.row = row
            \/ th.row.status = "paying_wallet"
            \/ th.row.status = "paying_company" /\ TransferUsed
    /\ th.pc \in {"reserve", "claim"} =>
         /\ th.row = row
         /\ \/ th.row.status \in {"received", "bridging"} /\ th.row.venue = "paycrest"
            \/ th.row.status \in {"ordered", "depositing"}
    /\ th.pc = "claim" => th.leg[1] = KindOf(th.row)
    /\ th.pc = "send" =>
         \/ th.leg[1] = "bridge" /\ row.status = "bridging" /\ row.venue = "paycrest"
         \/ th.leg[1] = "deposit" /\ row.status = "depositing"
    /\ th.pc \in {"ask", "opened"} => row.status = "selling"
    /\ th.pc = "shortfall" => row.status = "bridged"
    /\ th.pc = "withdrawn" => \/ row.status = "selling"
                              \/ row.status \in {"ordered", "depositing"} /\ ~DepositHot
    /\ th.pc = "request" =>
         /\ row.status = "paying_company" /\ row.venue = "company"
         /\ row.ref = row.gen /\ th.row.gen = row.gen /\ bank[row.gen] = "none"
         /\ row.attempts # 0 /\ (TransferUsed => row.attempts = 2)
         /\ ~Alive
    /\ th.pc = "accepted" =>
         /\ bank[th.row.gen] # "none"
         /\ row.status = "paying_company" => row.ref = th.row.gen

\* What the operator at work relies on: while a payment to the wallet is on its way out,
\* nothing else has left.
OperatorSafe(th, row) ==
    /\ th.pc \in {"idle", "loaded", "reserve", "claim", "send", "refused"}
    /\ th.pc \in {"loaded", "reserve", "claim"} => th.row = row /\ row.status = "needs_review"
    /\ th.pc \in {"claim", "send", "refused"} => th.leg[1] = "refund"
    /\ th.pc \in {"reserve", "claim", "send", "refused"} =>
         ~TransferUsed /\ ~BridgeSent /\ ~RefundSent
    /\ th.pc \in {"send", "refused"} =>
         \/ row.status = "paying_wallet"
         \/ row.status = "needs_review" /\ row.parked = "paying_wallet" /\ ~row.safe

OnceInv ==
    /\ OneWay /\ PaidIsFunded
    /\ RowSafe(pay)
    /\ \A t \in Tickers : TickerSafe(thread[t], pay)
    /\ \A t \in Operators : OperatorSafe(thread[t], pay)

\* A step that leaves the chain and the bank alone.
Keeps ==
    /\ RowSafe(pay')
    /\ \A t \in Tickers : TickerSafe(thread'[t], pay')
    /\ \A t \in Operators : OperatorSafe(thread'[t], pay')

\* What such a step of the tick may do to a row that an operator works on.
Slides ==
    \/ pay' = pay
    \/ /\ pay.status \in Moving
       /\ \/ pay.status # "paying_wallet" \/ TransferUsed \/ RefundSent
          \/ pay'.status = "needs_review" /\ pay'.parked = "paying_wallet" /\ ~pay'.safe

LEMMA AliveIs ==
    ASSUME OneWay, Alive
    PROVE  BridgeSent \/ RefundSent \/ TransferUsed
  BY DEF Alive, OneWay, LiveTransfer, DepositSent, RefundSent, TransferUsed, Legs, Kinds, Sent

LEMMA IdleIsSafe ==
    \A row : TickerSafe(Idle, row) /\ OperatorSafe(Idle, row)
  BY DEF Idle, TickerSafe, OperatorSafe

LEMMA OperatorStays ==
    ASSUME Slides, NEW th, OperatorSafe(th, pay)
    PROVE  OperatorSafe(th, pay')
  <1>1. CASE pay' = pay
    BY <1>1
  <1>2. CASE pay.status \in Moving
    <2>1. pay.status # "needs_review"
      BY <1>2 DEF Moving
    <2>2. th.pc \in {"idle", "send", "refused"}
      BY <2>1 DEF OperatorSafe
    <2>3. CASE th.pc = "idle"
      BY <2>3 DEF OperatorSafe
    <2>4. CASE th.pc \in {"send", "refused"}
      <3>1. /\ pay.status = "paying_wallet" /\ ~TransferUsed /\ ~RefundSent
        BY <2>1, <2>4 DEF OperatorSafe
      <3>2. \/ pay'.status = "needs_review" /\ pay'.parked = "paying_wallet" /\ ~pay'.safe
            \/ pay' = pay
        BY <3>1 DEF Slides
      <3> QED
        BY <2>4, <3>2 DEF OperatorSafe
    <2> QED
      BY <2>2, <2>3, <2>4
  <1> QED
    BY <1>1, <1>2 DEF Slides

LEMMA TickerStays ==
    ASSUME TypeOK, NEW th, TickerSafe(th, pay), pay.status \in {"needs_review", "paying_wallet"},
           pay'.status # "paying_company"
    PROVE  TickerSafe(th, pay')
  <1>1. th.pc \notin {"reserve", "claim", "send", "ask", "opened", "shortfall", "withdrawn", "request"}
    BY DEF TickerSafe
  <1>2. th.pc = "loaded" => \/ th.row.status = "paying_wallet"
                            \/ th.row.status = "paying_company" /\ TransferUsed
    BY DEF TickerSafe, Moving
  <1> QED
    BY <1>1, <1>2 DEF TickerSafe, Moving

\* A step of the only tick at work.
LEMMA TickerStep ==
    ASSUME TypeOK, OnceInv, NEW t \in Tickers, Only(t), NEW th, Goto(t, th),
           TickerSafe(th, pay'), RowSafe(pay'), Slides
    PROVE  Keeps
  <1>1. thread' = [thread EXCEPT ![t] = th]
    BY DEF Goto
  <1>2. \A u \in Tickers : TickerSafe(thread'[u], pay')
    BY <1>1 DEF Only, At, TickerSafe, TypeOK, Threads
  <1>3. \A u \in Operators : thread'[u] = thread[u]
    BY <1>1, PayoutAssumption DEF TypeOK, Threads
  <1>4. \A u \in Operators : OperatorSafe(thread'[u], pay')
    BY <1>3, OperatorStays DEF OnceInv
  <1> QED
    BY <1>2, <1>4 DEF Keeps

\* A step of the only operator at work.
LEMMA OperatorStep ==
    ASSUME TypeOK, OnceInv, NEW t \in Operators, Only(t), NEW th, Goto(t, th),
           OperatorSafe(th, pay'), RowSafe(pay'),
           \/ pay' = pay
           \/ pay.status \in {"needs_review", "paying_wallet"} /\ pay'.status # "paying_company"
    PROVE  Keeps
  <1>1. thread' = [thread EXCEPT ![t] = th]
    BY DEF Goto
  <1>2. \A u \in Operators : OperatorSafe(thread'[u], pay')
    BY <1>1 DEF Only, At, OperatorSafe, TypeOK, Threads
  <1>3. \A u \in Tickers : thread'[u] = thread[u]
    BY <1>1, PayoutAssumption DEF TypeOK, Threads
  <1>4. \A u \in Tickers : TickerSafe(thread'[u], pay')
    BY <1>3, TickerStays DEF OnceInv
  <1> QED
    BY <1>2, <1>4 DEF Keeps

\* A row that moves on, its books and locks as they were.
LEMMA MoveSafe ==
    ASSUME TypeOK, OnceInv, NEW from, NEW row, Move(from, row),
           row.ref = pay.ref, row.gen = pay.gen, row.attempts = pay.attempts,
           row.transfer = pay.transfer, row.venue = pay.venue, row.parked = pay.parked,
           row.safe = pay.safe,
           pay.status \in from => /\ pay.status \in Moving \ {"paying_wallet"}
                                  /\ row.status \in (Moving \cup Over) \ {"paying_wallet", "paying_company"}
                                  /\ row.status \in Early => pay.status \in Early
                                  /\ row.status \in Quiet => ~Alive
    PROVE  RowSafe(pay') /\ Slides
  <1>1. CASE pay' = pay
    BY <1>1 DEF OnceInv, Slides
  <1>2. CASE pay.status \in from /\ pay' = row
    <2>1. pay.status \notin {"paying_wallet", "paid_wallet", "paid", "needs_review"}
          /\ row.status \notin {"needs_review", "paying_wallet", "paying_company"}
      BY <1>2 DEF Moving, Over
    <2>2. Books(row)
      BY <1>2, <2>1 DEF OnceInv, RowSafe, Books
    <2>3. ~RefundSent
      BY <2>1 DEF OnceInv, RowSafe, Locked
    <2>4. Locked(row)
      BY <2>1, <2>3 DEF OnceInv, RowSafe, Locked
    <2>5. Calm(row)
      BY <1>2, <2>1 DEF OnceInv, RowSafe, Calm
    <2> QED
      BY <1>2, <2>1, <2>2, <2>4, <2>5 DEF RowSafe, Slides
  <1> QED
    BY <1>1, <1>2 DEF Move

LEMMA ToSafe ==
    ASSUME TypeOK, OnceInv, NEW from, NEW status, Move(from, To(status)),
           pay.status \in from => /\ pay.status \in Moving \ {"paying_wallet"}
                                  /\ status \in (Moving \cup Over) \ {"paying_wallet", "paying_company"}
                                  /\ status \in Early => pay.status \in Early
                                  /\ status \in Quiet => ~Alive
    PROVE  RowSafe(pay') /\ Slides
  <1>1. /\ To(status).status = status
        /\ \A row \in {To(status)} :
             /\ row.ref = pay.ref /\ row.gen = pay.gen /\ row.attempts = pay.attempts
             /\ row.transfer = pay.transfer /\ row.venue = pay.venue
             /\ row.parked = pay.parked /\ row.safe = pay.safe
    BY DEF To, TypeOK, Row
  <1> QED
    BY <1>1, MoveSafe

\* The refund was paid.
LEMMA PaidWalletSafe ==
    ASSUME TypeOK, OnceInv, Move({"paying_wallet"}, To("paid_wallet")), RefundSent
    PROVE  RowSafe(pay') /\ Slides
  <1>1. CASE pay' = pay
    BY <1>1 DEF OnceInv, Slides
  <1>2. CASE pay.status = "paying_wallet" /\ pay' = To("paid_wallet")
    <2> DEFINE row == To("paid_wallet")
    <2>1. /\ row.status = "paid_wallet"
          /\ row.ref = pay.ref /\ row.gen = pay.gen /\ row.attempts = pay.attempts
          /\ row.transfer = pay.transfer /\ row.venue = pay.venue
          /\ row.parked = pay.parked /\ row.safe = pay.safe
      BY DEF To, TypeOK, Row
    <2> HIDE DEF row
    <2>2. Books(row) /\ Locked(row) /\ Calm(row)
      BY <2>1 DEF OnceInv, RowSafe, Books, Locked, Calm, Early, Quiet, Moving
    <2> QED
      BY <1>2, <2>2 DEF RowSafe, Slides, row, Moving
  <1> QED
    BY <1>1, <1>2 DEF Move

\* A tick parks the payout.
LEMMA ParkSafe ==
    ASSUME TypeOK, OnceInv, NEW t \in Tickers, NEW at \in Moving, NEW safe \in BOOLEAN,
           Park(t, at, safe),
           pay.status \in Moving =>
              /\ safe \/ at \in Quiet => ~Alive
              /\ at \in Early => pay.ref < pay.gen
              /\ RefundSent => at = "paying_wallet"
              /\ pay.status = "paying_wallet" => ~safe /\ (at = "paying_wallet" \/ TransferUsed)
              /\ TransferUsed /\ safe /\ at = "paying_company" => pay.attempts # 1
              /\ BridgeSent => at # "paying_company"
    PROVE  RowSafe(pay') /\ Slides
  <1> DEFINE row == [pay EXCEPT !.status = "needs_review", !.parked = at, !.safe = safe]
  <1>1. CASE pay' = pay
    BY <1>1 DEF OnceInv, Slides
  <1>2. CASE pay.status \in Moving /\ pay' = row
    <2>1. /\ row.status = "needs_review" /\ row.parked = at /\ row.safe = safe
          /\ row.ref = pay.ref /\ row.gen = pay.gen /\ row.attempts = pay.attempts
          /\ row.transfer = pay.transfer /\ row.venue = pay.venue
      BY DEF TypeOK, Row
    <2> HIDE DEF row
    <2>2. Books(row)
      BY <1>2, <2>1 DEF OnceInv, RowSafe, Books, Early
    <2>3. Locked(row)
      BY <1>2, <2>1 DEF OnceInv, RowSafe, Locked
    <2>4. Calm(row)
      BY <1>2, <2>1 DEF OnceInv, RowSafe, Calm, Moving, Quiet, Early
    <2>5. Slides
      BY <1>2, <2>1 DEF Slides
    <2> QED
      BY <1>2, <2>2, <2>3, <2>4, <2>5 DEF RowSafe
  <1> QED
    BY <1>1, <1>2 DEF Park, Move

\* It parks the row it loaded: one that is safe to retry is still the payout's.
LEMMA ParkRowSafe ==
    ASSUME TypeOK, OnceInv, NEW t \in Tickers, At(t, "loaded"), NEW safe \in BOOLEAN,
           ParkRow(t, safe),
           safe => thread[t].row = pay /\ ~Alive
                   /\ pay.status \notin {"paying_company", "paying_wallet"}
    PROVE  RowSafe(pay') /\ Slides
  <1> DEFINE at == thread[t].row.status
  <1>1. /\ at \in Moving
        /\ \/ thread[t].row = pay
           \/ at = "paying_wallet"
           \/ at = "paying_company" /\ TransferUsed
    BY DEF OnceInv, TickerSafe, At
  <1>2. CASE thread[t].row = pay
    <2>1. /\ at \in Quiet => ~Alive
          /\ at \in Early => pay.ref < pay.gen
          /\ RefundSent => at = "paying_wallet"
          /\ BridgeSent => at # "paying_company"
      BY <1>1, <1>2 DEF OnceInv, RowSafe, Books, Locked, Calm, Moving
    <2> QED
      BY <1>1, <1>2, <2>1, ParkSafe DEF ParkRow
  <1>3. CASE at \in {"paying_wallet", "paying_company"} /\ thread[t].row # pay
    <2>1. ~safe /\ at \notin Quiet /\ at \notin Early
      BY <1>3 DEF Quiet, Early
    <2>2. /\ RefundSent => at = "paying_wallet"
          /\ at = "paying_wallet" \/ TransferUsed
          /\ BridgeSent => at # "paying_company"
      BY <1>1, <1>3 DEF OnceInv, OneWay, RowSafe, Locked
    <2> QED
      BY <1>1, <2>1, <2>2, ParkSafe DEF ParkRow
  <1> QED
    BY <1>1, <1>2, <1>3

LEMMA TickerStops ==
    ASSUME TypeOK, OnceInv, NEW t \in Tickers, Only(t), Stop(t), RowSafe(pay'), Slides
    PROVE  Keeps
  BY IdleIsSafe, TickerStep DEF Stop

LEMMA TickerGoes ==
    ASSUME TypeOK, OnceInv, NEW t \in Tickers, Only(t), NEW pc, NEW row, NEW l, NEW s,
           Go(t, pc, row, l, s),
           TickerSafe([pc |-> pc, row |-> row, leg |-> l, sale |-> s], pay'),
           RowSafe(pay'), Slides
    PROVE  Keeps
  BY TickerStep DEF Go

LEMMA ParkRowKeeps ==
    ASSUME TypeOK, OnceInv, NEW t \in Tickers, Only(t), At(t, "loaded"), NEW safe \in BOOLEAN,
           ParkRow(t, safe),
           safe => thread[t].row = pay /\ ~Alive
                   /\ pay.status \notin {"paying_company", "paying_wallet"}
    PROVE  Keeps
  BY ParkRowSafe, TickerStops DEF ParkRow, Park

\* The row in the tick's hands is the payout's.
LEMMA Current ==
    ASSUME OnceInv, NEW t \in Tickers, NEW S, Holds(t, S),
           "paying_wallet" \notin S, "paying_company" \notin S
    PROVE  At(t, "loaded") /\ thread[t].row = pay /\ pay.status \in S
  BY DEF OnceInv, Holds, At, TickerSafe

LEMMA QuietIsCalm ==
    ASSUME OnceInv, pay.status \in Quiet
    PROVE  ~Alive /\ pay.status \in Moving \ {"paying_wallet", "paying_company"}
  BY DEF OnceInv, RowSafe, Calm, Quiet, Early, Moving

\* Behind a bridge only the deposit can be alive.
LEMMA OnlyDeposits ==
    ASSUME PayoutInv, OnceInv, ~DepositHot,
           pay.status \in {"bridged", "selling", "ordered", "depositing", "deposited"}
    PROVE  ~Alive
  <1>1. BridgeSent
    BY DEF PayoutInv, Earned, Proven, BridgeDone, BridgeSent, Sent
  <1>2. ~RefundSent /\ ~TransferUsed
    BY <1>1 DEF OnceInv, RowSafe, Locked, OneWay
  <1> QED
    BY <1>2 DEF Alive, LiveTransfer, TransferUsed, RefundSent, DepositHot, Hot, Sent, Legs, Kinds

LEMMA ReleaseKeeps ==
    ASSUME TypeOK, OnceInv, NEW t \in Threads, Only(t),
           LanesDisagree(t) \/ AwaitRelease(t) \/ BridgeRefused(t)
    PROVE  Keeps
  <1>1. CASE LanesDisagree(t)
    <2>1. t \in Tickers /\ At(t, "loaded") /\ ParkRow(t, thread[t].row.status \in LanesSafe)
      BY <1>1 DEF LanesDisagree, Holds, At
    <2>2. CASE thread[t].row.status \in LanesSafe
      <3>1. thread[t].row = pay /\ pay.status \in Quiet
        BY <2>1, <2>2 DEF OnceInv, TickerSafe, At, LanesSafe, Quiet, Early
      <3>2. (thread[t].row.status \in LanesSafe) = TRUE
        BY <2>2
      <3> QED
        BY <2>1, <3>1, <3>2, QuietIsCalm, ParkRowKeeps
    <2>3. CASE thread[t].row.status \notin LanesSafe
      <3>1. (thread[t].row.status \in LanesSafe) = FALSE
        BY <2>3
      <3> QED
        BY <2>1, <3>1, ParkRowKeeps
    <2> QED
      BY <2>2, <2>3
  <1>2. CASE AwaitRelease(t)
    <2>1. /\ t \in Tickers /\ At(t, "loaded") /\ thread[t].row = pay
          /\ pay.status = "awaiting_release"
      BY <1>2, Current DEF AwaitRelease
    <2>2. ~Alive
      BY <2>1, QuietIsCalm DEF Quiet, Early
    <2>3. CASE Move({"awaiting_release"}, To("cancelled")) /\ Stop(t)
      <3>1. RowSafe(pay') /\ Slides
        BY <2>1, <2>3, ToSafe DEF Moving, Over, Early, Quiet
      <3> QED
        BY <2>1, <2>3, <3>1, TickerStops
    <2>4. CASE /\ Move({"awaiting_release"}, [pay EXCEPT !.status = "received", !.received = TRUE])
               /\ Stop(t)
      <3> DEFINE row == [pay EXCEPT !.status = "received", !.received = TRUE]
      <3>1. /\ row.status = "received"
            /\ row.ref = pay.ref /\ row.gen = pay.gen /\ row.attempts = pay.attempts
            /\ row.transfer = pay.transfer /\ row.venue = pay.venue
            /\ row.parked = pay.parked /\ row.safe = pay.safe
        BY DEF TypeOK, Row
      <3>2. "awaiting_release" \in Moving /\ "received" \in Moving /\ "awaiting_release" \in Early
        BY DEF Moving, Early
      <3> HIDE DEF row
      <3>3. RowSafe(pay') /\ Slides
        BY <2>1, <2>2, <2>4, <3>1, <3>2, MoveSafe DEF row
      <3> QED
        BY <2>1, <2>4, <3>3, TickerStops
    <2>5. CASE ParkRow(t, TRUE)
      BY <2>1, <2>2, <2>5, ParkRowKeeps
    <2>6. CASE pay' = pay /\ Stop(t)
      BY <2>1, <2>6, TickerStops DEF OnceInv, Slides
    <2> QED
      BY <1>2, <2>3, <2>4, <2>5, <2>6 DEF AwaitRelease
  <1>3. CASE BridgeRefused(t)
    <2>1. t \in Tickers /\ At(t, "loaded") /\ thread[t].row = pay /\ pay.status \in Quiet
      BY <1>3, Current DEF BridgeRefused, IsBridging, Quiet, Early
    <2> QED
      BY <1>3, <2>1, QuietIsCalm, ParkRowKeeps DEF BridgeRefused
  <1> QED
    BY <1>1, <1>2, <1>3

LEMMA BridgeKeeps ==
    ASSUME TypeOK, OnceInv, NEW t \in Threads, Only(t),
           \/ Load(t) \/ AdvanceBridge(t)
           \/ \E l \in Legs : ObservePending(t, l) \/ UnexpectedLeg(t, l)
    PROVE  Keeps
  <1>1. CASE Load(t)
    <2>1. t \in Tickers /\ Go(t, "loaded", pay, NoLeg, 0) /\ pay' = pay /\ pay.status \in Moving
      BY <1>1 DEF Load, rowVars
    <2> DEFINE th == [pc |-> "loaded", row |-> pay, leg |-> NoLeg, sale |-> 0]
    <2>2. TickerSafe(th, pay')
      BY <2>1 DEF TickerSafe
    <2> QED
      BY <2>1, <2>2, TickerGoes DEF OnceInv, Slides
  <1>2. CASE AdvanceBridge(t)
    <2>1. /\ t \in Tickers /\ At(t, "loaded") /\ thread[t].row = pay
          /\ pay.status \in {"received", "bridging"} /\ pay.venue = "paycrest"
      BY <1>2, Current DEF AdvanceBridge, IsBridging
    <2>2. ~Alive
      BY <2>1, QuietIsCalm DEF Quiet, Early
    <2>3. CASE Move({"received", "bridging"}, To("bridged")) /\ Stop(t)
      <3>1. RowSafe(pay') /\ Slides
        BY <2>1, <2>2, <2>3, ToSafe DEF Moving, Over, Early
      <3> QED
        BY <2>1, <2>3, <3>1, TickerStops
    <2>4. CASE \E safe \in BOOLEAN : ParkRow(t, safe)
      BY <2>1, <2>2, <2>4, ParkRowKeeps
    <2>5. CASE Go(t, "reserve", thread[t].row, NoLeg, 0) /\ pay' = pay
      <3> DEFINE th == [pc |-> "reserve", row |-> pay, leg |-> NoLeg, sale |-> 0]
      <3>1. TickerSafe(th, pay')
        BY <2>1, <2>5 DEF TickerSafe
      <3> QED
        BY <2>1, <2>5, <3>1, TickerGoes DEF OnceInv, Slides
    <2> QED
      BY <1>2, <2>3, <2>4, <2>5 DEF AdvanceBridge
  <1>3. ASSUME NEW l \in Legs, UnexpectedLeg(t, l)
        PROVE  Keeps
    BY <1>3, ParkRowKeeps DEF UnexpectedLeg, IsBridging, Holds
  <1>4. ASSUME NEW l \in Legs, ObservePending(t, l)
        PROVE  Keeps
    <2>1. /\ t \in Tickers /\ At(t, "loaded") /\ Observe(t, l)
          /\ l[1] = "bridge" => thread[t].row = pay /\ pay.status \in Quiet
      BY <1>4, Current DEF ObservePending, IsBridging, Holds, Quiet, Early
    <2>2. CASE pay' = pay /\ Stop(t)
      BY <2>1, <2>2, TickerStops DEF OnceInv, Slides
    <2>3. CASE pay' = pay /\ Go(t, "landed", thread[t].row, l, 0)
      <3> DEFINE th == [pc |-> "landed", row |-> thread[t].row, leg |-> l, sale |-> 0]
      <3>1. TickerSafe(th, pay')
        BY DEF TickerSafe
      <3> QED
        BY <2>1, <2>3, <3>1, TickerGoes DEF OnceInv, Slides
    <2>4. CASE ParkRow(t, FALSE)
      BY <2>1, <2>4, ParkRowKeeps
    <2>5. CASE l[1] = "bridge" /\ ParkRow(t, TRUE)
      BY <2>1, <2>5, QuietIsCalm, ParkRowKeeps
    <2> QED
      BY <2>1, <2>2, <2>3, <2>4, <2>5 DEF Observe
  <1> QED
    BY <1>1, <1>2, <1>3, <1>4

\* A confirmed leg, or one that is proven, was sent.
LEMMA DoneIsSent ==
    ASSUME PayoutInv, NEW l \in Legs, l[1] = "refund", Is(l, "confirmed") \/ tx[l] = "done"
    PROVE  RefundSent
  BY DEF PayoutInv, LegsAreRight, RefundSent, Sent

LEMMA WalletKeeps ==
    ASSUME PayoutInv, OnceInv, NEW t \in Threads, Only(t),
           WalletOver(t) \/ Landed(t) \/ Funded(t) \/ \E l \in Legs : ObserveWallet(t, l)
    PROVE  Keeps
  <1>1. TypeOK
    BY DEF PayoutInv
  <1>2. CASE WalletOver(t)
    <2>1. t \in Tickers /\ At(t, "loaded")
      BY <1>2 DEF WalletOver, Holds
    <2>2. CASE ParkRow(t, FALSE)
      BY <1>1, <2>1, <2>2, ParkRowKeeps
    <2>3. CASE Of("refund", "confirmed") # {} /\ Move({"paying_wallet"}, To("paid_wallet")) /\ Stop(t)
      <3>1. RefundSent
        BY <2>3, DoneIsSent DEF Of
      <3> QED
        BY <1>1, <2>1, <2>3, <3>1, PaidWalletSafe, TickerStops
    <2> QED
      BY <1>2, <2>2, <2>3 DEF WalletOver
  <1>3. ASSUME NEW l \in Legs, ObserveWallet(t, l)
        PROVE  Keeps
    <2>1. t \in Tickers /\ At(t, "loaded") /\ Observe(t, l) /\ l[1] = "refund"
      BY <1>3 DEF ObserveWallet, Holds, Of
    <2>2. CASE pay' = pay /\ Stop(t)
      BY <1>1, <2>1, <2>2, TickerStops DEF OnceInv, Slides
    <2>3. CASE pay' = pay /\ Go(t, "landed", thread[t].row, l, 0)
      <3> DEFINE th == [pc |-> "landed", row |-> thread[t].row, leg |-> l, sale |-> 0]
      <3>1. TickerSafe(th, pay')
        BY DEF TickerSafe
      <3> QED
        BY <1>1, <2>1, <2>3, <3>1, TickerGoes DEF OnceInv, Slides
    <2>4. CASE ParkRow(t, FALSE)
      BY <1>1, <2>1, <2>4, ParkRowKeeps
    <2> QED
      BY <2>1, <2>2, <2>3, <2>4 DEF Observe
  <1>4. CASE Landed(t)
    <2>1. At(t, "landed") /\ t \in Tickers
      BY <1>4 DEF Landed, At, OnceInv, OperatorSafe, Threads
    <2>2. CASE thread[t].leg[1] = "bridge"
      <3>1. Move({"received", "bridging"}, To("bridged")) /\ Stop(t)
        BY <1>4, <2>2 DEF Landed
      <3>2. pay.status \in {"received", "bridging"} => ~Alive /\ pay.status \in Moving \ {"paying_wallet"}
        BY QuietIsCalm DEF Quiet, Early
      <3>3. RowSafe(pay') /\ Slides
        BY <1>1, <3>1, <3>2, ToSafe DEF Moving, Over, Early
      <3> QED
        BY <1>1, <2>1, <3>1, <3>3, TickerStops
    <2>3. CASE thread[t].leg[1] = "refund"
      <3>1. Move({"paying_wallet"}, To("paid_wallet")) /\ Stop(t)
        BY <1>4, <2>3 DEF Landed
      <3>2. RefundSent
        BY <2>1, <2>3, DoneIsSent DEF PayoutInv, Right, At
      <3> QED
        BY <1>1, <2>1, <3>1, <3>2, PaidWalletSafe, TickerStops
    <2>4. CASE thread[t].leg[1] \notin {"bridge", "refund"}
      <3>1. On(t, "funded") /\ pay' = pay
        BY <1>4, <2>4 DEF Landed
      <3> DEFINE th == [pc |-> "funded", row |-> thread[t].row, leg |-> thread[t].leg,
                        sale |-> thread[t].sale]
      <3>2. TickerSafe(th, pay')
        BY DEF TickerSafe
      <3> QED
        BY <1>1, <2>1, <3>1, <3>2, TickerGoes DEF On, OnceInv, Slides
    <2> QED
      BY <2>2, <2>3, <2>4
  <1>5. CASE Funded(t)
    <2>1. t \in Tickers
      BY <1>5 DEF Funded, At, OnceInv, OperatorSafe, Threads
    <2>2. RowSafe(pay') /\ Slides
      BY <1>1, <1>5, ToSafe DEF Funded, Moving, Over, Early, Quiet
    <2> QED
      BY <1>1, <1>5, <2>1, <2>2, TickerStops DEF Funded
  <1> QED
    BY <1>2, <1>3, <1>4, <1>5

\* The operator's own transfer is claimed, or refused.
LEMMA OperatorTransfers ==
    ASSUME TypeOK, OnceInv, NEW t \in Operators, Only(t),
           Reserve(t) \/ Claim(t) \/ SendRefused(t) \/ WalletRefused(t)
    PROVE  Keeps
  <1> DEFINE th == thread[t]
  <1>1. OperatorSafe(th, pay)
    BY DEF OnceInv
  <1>2. CASE Stop(t) /\ pay' = pay
    BY <1>2, IdleIsSafe, OperatorStep DEF Stop, OnceInv
  <1>3. CASE Reserve(t)
    <2>1. th.pc = "reserve" /\ th.row = pay /\ pay.status = "needs_review" /\ KindOf(th.row) = "refund"
      BY <1>1, <1>3 DEF Reserve, At, OperatorSafe, KindOf
    <2>2. CASE \E l \in Legs : l[1] = "refund" /\ Go(t, "claim", th.row, l, 0) /\ pay' = pay
      <3>1. PICK l \in Legs : l[1] = "refund" /\ Go(t, "claim", th.row, l, 0) /\ pay' = pay
        BY <2>2
      <3> DEFINE new == [pc |-> "claim", row |-> th.row, leg |-> l, sale |-> 0]
      <3>2. OperatorSafe(new, pay')
        BY <1>1, <2>1, <3>1 DEF OperatorSafe
      <3> QED
        BY <3>1, <3>2, OperatorStep DEF Go, OnceInv
    <2> QED
      BY <1>2, <1>3, <2>1, <2>2 DEF Reserve
  <1>4. CASE Claim(t)
    <2>1. /\ th.pc = "claim" /\ th.row = pay /\ pay.status = "needs_review" /\ th.leg[1] = "refund"
          /\ ~TransferUsed /\ ~BridgeSent /\ ~RefundSent
      BY <1>1, <1>4 DEF Claim, At, OperatorSafe
    <2>2. Move({"needs_review"}, To("paying_wallet")) /\ On(t, "send")
      BY <1>4, <2>1 DEF Claim
    <2> DEFINE row == To("paying_wallet")
               new == [pc |-> "send", row |-> th.row, leg |-> th.leg, sale |-> th.sale]
    <2>3. /\ row.status = "paying_wallet"
          /\ row.ref = pay.ref /\ row.gen = pay.gen /\ row.attempts = pay.attempts
          /\ row.transfer = pay.transfer /\ row.venue = pay.venue
          /\ row.parked = pay.parked /\ row.safe = pay.safe
      BY DEF To, TypeOK, Row
    <2>4. pay' = row
      BY <2>1, <2>2 DEF Move
    <2> HIDE DEF row
    <2>5. RowSafe(row)
      BY <2>1, <2>3 DEF OnceInv, RowSafe, Books, Locked, Calm, Early, Quiet
    <2>6. OperatorSafe(new, pay')
      BY <2>1, <2>3, <2>4 DEF OperatorSafe
    <2> QED
      BY <2>1, <2>2, <2>3, <2>4, <2>5, <2>6, OperatorStep DEF On, Go
  <1>5. CASE SendRefused(t)
    <2>1. th.pc = "send" /\ th.leg[1] = "refund" /\ pay' = pay /\ On(t, "refused")
      BY <1>1, <1>5 DEF SendRefused, At, OperatorSafe
    <2> DEFINE new == [pc |-> "refused", row |-> th.row, leg |-> th.leg, sale |-> th.sale]
    <2>2. OperatorSafe(new, pay')
      BY <1>1, <2>1 DEF OperatorSafe
    <2> QED
      BY <2>1, <2>2, OperatorStep DEF On, Go, OnceInv
  <1>6. CASE WalletRefused(t)
    <2>1. /\ th.pc = "refused" /\ ~TransferUsed /\ ~BridgeSent /\ ~RefundSent
          /\ Move({"paying_wallet"}, To("needs_review")) /\ Stop(t)
      BY <1>1, <1>6 DEF WalletRefused, At, OperatorSafe
    <2>2. CASE pay' = pay
      BY <1>2, <2>1, <2>2
    <2>3. CASE pay.status = "paying_wallet" /\ pay' = To("needs_review")
      <3> DEFINE row == To("needs_review")
      <3>1. /\ row.status = "needs_review"
            /\ row.ref = pay.ref /\ row.gen = pay.gen /\ row.attempts = pay.attempts
            /\ row.transfer = pay.transfer /\ row.venue = pay.venue
            /\ row.parked = pay.parked /\ row.safe = pay.safe
        BY DEF To, TypeOK, Row
      <3>2. ~Alive
        BY <2>1, AliveIs DEF OnceInv
      <3> HIDE DEF row
      <3>3. RowSafe(row)
        BY <2>1, <2>3, <3>1, <3>2 DEF OnceInv, RowSafe, Books, Locked, Calm, Early, Quiet, Moving
      <3> QED
        BY <2>1, <2>3, <3>1, <3>3, IdleIsSafe, OperatorStep DEF Stop, row
    <2> QED
      BY <2>1, <2>2, <2>3 DEF Move
  <1> QED
    BY <1>3, <1>4, <1>5, <1>6

\* A tick's transfer, up to the call itself.
LEMMA TickerTransfers ==
    ASSUME TypeOK, OnceInv, NEW t \in Tickers, Only(t),
           Reserve(t) \/ Claim(t) \/ SendRefused(t) \/ WalletRefused(t)
    PROVE  Keeps
  <1> DEFINE th == thread[t]
  <1>1. TickerSafe(th, pay)
    BY DEF OnceInv
  <1>2. CASE Stop(t) /\ pay' = pay
    BY <1>2, TickerStops DEF OnceInv, Slides
  <1>3. CASE Reserve(t)
    <2>1. th.pc = "reserve" /\ th.row = pay /\ pay' = pay
      BY <1>1, <1>3 DEF Reserve, At, TickerSafe
    <2>2. CASE \E l \in Legs : l[1] = KindOf(th.row) /\ Go(t, "claim", th.row, l, 0)
      <3>1. PICK l \in Legs : l[1] = KindOf(th.row) /\ Go(t, "claim", th.row, l, 0)
        BY <2>2
      <3> DEFINE new == [pc |-> "claim", row |-> th.row, leg |-> l, sale |-> 0]
      <3>2. TickerSafe(new, pay')
        BY <1>1, <2>1, <3>1 DEF TickerSafe
      <3> QED
        BY <2>1, <3>1, <3>2, TickerGoes DEF OnceInv, Slides
    <2> QED
      BY <1>2, <1>3, <2>1, <2>2 DEF Reserve
  <1>4. CASE Claim(t)
    <2> DEFINE new == [pc |-> "send", row |-> th.row, leg |-> th.leg, sale |-> th.sale]
    <2>1. /\ th.pc = "claim" /\ th.row = pay /\ th.leg[1] = KindOf(pay)
          /\ \/ pay.status \in {"received", "bridging"} /\ pay.venue = "paycrest"
             \/ pay.status \in {"ordered", "depositing"}
      BY <1>1, <1>4 DEF Claim, At, TickerSafe
    <2>2. CASE pay.status \in {"received", "bridging"}
      <3>1. th.leg[1] = "bridge"
        BY <2>1, <2>2 DEF KindOf
      <3>2. Move({"received", "bridging"}, To("bridging")) /\ On(t, "send")
        BY <1>4, <3>1 DEF Claim
      <3>3. ~Alive
        BY <2>2, QuietIsCalm DEF Quiet, Early
      <3>4. RowSafe(pay') /\ Slides
        BY <2>2, <3>2, <3>3, ToSafe DEF Moving, Over, Early
      <3>5. pay'.status = "bridging" /\ pay'.venue = "paycrest"
        BY <2>1, <2>2, <3>2 DEF Move, To, TypeOK, Row
      <3>6. TickerSafe(new, pay')
        BY <3>1, <3>5 DEF TickerSafe
      <3> QED
        BY <3>2, <3>4, <3>6, TickerGoes DEF On
    <2>3. CASE pay.status \in {"ordered", "depositing"}
      <3>1. th.leg[1] = "deposit"
        BY <2>1, <2>3 DEF KindOf
      <3>2. Move({"ordered", "depositing"}, To("depositing")) /\ On(t, "send")
        BY <1>4, <3>1 DEF Claim
      <3>3. RowSafe(pay') /\ Slides
        BY <2>3, <3>2, ToSafe DEF Moving, Over, Early, Quiet
      <3>4. pay'.status = "depositing"
        BY <2>3, <3>2 DEF Move, To, TypeOK, Row
      <3>5. TickerSafe(new, pay')
        BY <3>1, <3>4 DEF TickerSafe
      <3> QED
        BY <3>2, <3>3, <3>5, TickerGoes DEF On
    <2> QED
      BY <2>1, <2>2, <2>3
  <1>5. CASE SendRefused(t)
    <2>1. th.pc = "send" /\ th.leg[1] # "refund" /\ pay' = pay
      BY <1>1, <1>5 DEF SendRefused, At, TickerSafe
    <2> QED
      BY <1>2, <1>5, <2>1 DEF SendRefused
  <1>6. CASE WalletRefused(t)
    BY <1>1, <1>6 DEF WalletRefused, At, TickerSafe
  <1> QED
    BY <1>3, <1>4, <1>5, <1>6

\* What a step at one of these places acts on.
LEMMA TickerAt ==
    ASSUME OnceInv, NEW t \in Threads,
           thread[t].pc \in {"ask", "shortfall", "opened", "withdrawn", "request", "accepted"}
    PROVE  t \in Tickers /\ TickerSafe(thread[t], pay)
  BY DEF OnceInv, OperatorSafe, Threads

LEMMA SellKeeps ==
    ASSUME PayoutInv, OnceInv, NEW t \in Threads, Only(t),
           \/ OpenSell(t) \/ SaleRefused(t) \/ Shortfall(t) \/ SaleOpened(t)
           \/ Opened(t) \/ Withdrawn(t)
    PROVE  Keeps
  <1>1. TypeOK
    BY DEF PayoutInv
  <1>2. ASSUME t \in Tickers, pay.status \in {"bridged", "selling"}, NEW pc, NEW row, NEW s,
               Move({"bridged", "selling"}, To("bridged")) \/ Move({"bridged", "selling"}, To("selling")),
               Go(t, pc, row, NoLeg, s),
               TickerSafe([pc |-> pc, row |-> row, leg |-> NoLeg, sale |-> s], pay')
        PROVE  Keeps
    <2>1. RowSafe(pay') /\ Slides
      BY <1>1, <1>2, QuietIsCalm, ToSafe DEF Quiet, Moving, Early
    <2> QED
      BY <1>1, <1>2, <2>1, TickerGoes
  <1>3. ASSUME t \in Tickers, pay.status = "selling", Park(t, "selling", FALSE)
        PROVE  Keeps
    <2>1. RowSafe(pay') /\ Slides
      BY <1>1, <1>3, QuietIsCalm, ParkSafe DEF Quiet, Moving, Early, OnceInv, RowSafe, Locked
    <2> QED
      BY <1>1, <1>3, <2>1, TickerStops DEF Park
  <1>4. CASE OpenSell(t)
    <2>1. t \in Tickers /\ At(t, "loaded") /\ thread[t].row = pay /\ pay.status = "bridged"
      BY <1>4, Current DEF OpenSell
    <2>2. CASE ParkRow(t, FALSE)
      BY <1>1, <2>1, <2>2, ParkRowKeeps
    <2>3. CASE /\ Move({"bridged"}, To("selling"))
               /\ Go(t, "ask", [thread[t].row EXCEPT !.status = "selling"], NoLeg, 0)
      <3> DEFINE row == [thread[t].row EXCEPT !.status = "selling"]
      <3>1. pay'.status = "selling" /\ Move({"bridged", "selling"}, To("selling"))
        BY <1>1, <2>1, <2>3 DEF Move, To, TypeOK, Row
      <3>2. TickerSafe([pc |-> "ask", row |-> row, leg |-> NoLeg, sale |-> 0], pay')
        BY <3>1 DEF TickerSafe
      <3> HIDE DEF row
      <3>3. Go(t, "ask", row, NoLeg, 0)
        BY <2>3 DEF row
      <3> QED
        BY <1>2, <2>1, <3>1, <3>2, <3>3
    <2> QED
      BY <1>4, <2>1, <2>2, <2>3 DEF OpenSell
  <1>5. CASE SaleRefused(t)
    <2>1. t \in Tickers /\ pay.status = "selling"
      BY <1>5, TickerAt DEF SaleRefused, At, TickerSafe
    <2>2. CASE Move({"selling"}, To("bridged")) /\ Go(t, "shortfall", thread[t].row, NoLeg, 0)
      <3>1. pay'.status = "bridged" /\ Move({"bridged", "selling"}, To("bridged"))
        BY <1>1, <2>1, <2>2 DEF Move, To, TypeOK, Row
      <3>2. TickerSafe([pc |-> "shortfall", row |-> thread[t].row, leg |-> NoLeg, sale |-> 0], pay')
        BY <3>1 DEF TickerSafe
      <3> QED
        BY <1>2, <2>1, <2>2, <3>1, <3>2
    <2>3. CASE Move({"selling"}, To("bridged")) /\ Stop(t)
      <3>1. RowSafe(pay') /\ Slides
        BY <1>1, <2>1, <2>3, QuietIsCalm, ToSafe DEF Quiet, Moving, Early
      <3> QED
        BY <1>1, <2>1, <2>3, <3>1, TickerStops
    <2> QED
      BY <1>3, <1>5, <2>1, <2>2, <2>3 DEF SaleRefused
  <1>6. CASE Shortfall(t)
    <2>1. t \in Tickers /\ pay.status = "bridged" /\ Park(t, "bridged", TRUE)
      BY <1>6, TickerAt DEF Shortfall, At, TickerSafe
    <2>2. RowSafe(pay') /\ Slides
      BY <1>1, <2>1, QuietIsCalm, ParkSafe DEF Quiet, Moving, Early, OnceInv, RowSafe, Locked
    <2> QED
      BY <1>1, <2>1, <2>2, TickerStops DEF Park
  <1>7. CASE SaleOpened(t)
    <2>1. t \in Tickers /\ pay.status = "selling" /\ pay' = pay
      BY <1>7, TickerAt DEF SaleOpened, At, TickerSafe
    <2>2. PICK s \in Sales : Go(t, "opened", thread[t].row, NoLeg, s)
      BY <1>7 DEF SaleOpened
    <2>3. TickerSafe([pc |-> "opened", row |-> thread[t].row, leg |-> NoLeg, sale |-> s], pay')
      BY <2>1 DEF TickerSafe
    <2> QED
      BY <1>1, <2>1, <2>2, <2>3, TickerGoes DEF OnceInv, Slides
  <1>8. CASE Opened(t)
    <2> DEFINE s == thread[t].sale
    <2>1. t \in Tickers /\ pay.status = "selling"
      BY <1>8, TickerAt DEF Opened, At, TickerSafe
    <2>2. CASE Move({"selling"}, [pay EXCEPT !.status = "ordered", !.sale = s]) /\ Stop(t)
      <3> DEFINE row == [pay EXCEPT !.status = "ordered", !.sale = s]
      <3>1. /\ row.status = "ordered"
            /\ row.ref = pay.ref /\ row.gen = pay.gen /\ row.attempts = pay.attempts
            /\ row.transfer = pay.transfer /\ row.venue = pay.venue
            /\ row.parked = pay.parked /\ row.safe = pay.safe
        BY <1>1 DEF TypeOK, Row
      <3> HIDE DEF row
      <3>2. Move({"selling"}, row)
        BY <2>2 DEF row
      <3>3. RowSafe(pay') /\ Slides
        BY <1>1, <2>1, <3>1, <3>2, MoveSafe DEF Moving, Over, Early, Quiet
      <3> QED
        BY <1>1, <2>1, <2>2, <3>3, TickerStops
    <2>3. CASE pay' = pay /\ (On(t, "withdrawn") \/ On(t, "ask"))
      <3>1. PICK pc \in {"withdrawn", "ask"} : On(t, pc)
        BY <2>3
      <3>2. TickerSafe([pc |-> pc, row |-> thread[t].row, leg |-> thread[t].leg,
                        sale |-> thread[t].sale], pay')
        BY <2>1, <2>3 DEF TickerSafe
      <3> QED
        BY <1>1, <2>1, <2>3, <3>1, <3>2, TickerGoes DEF On, OnceInv, Slides
    <2>4. CASE Park(t, "selling", FALSE)
      BY <1>3, <2>1, <2>4
    <2> QED
      BY <1>8, <2>2, <2>3, <2>4 DEF Opened
  <1>9. CASE Withdrawn(t)
    <2>1. /\ t \in Tickers /\ Stop(t)
          /\ \/ pay.status = "selling"
             \/ pay.status \in {"ordered", "depositing"} /\ ~DepositHot
      BY <1>9, TickerAt DEF Withdrawn, At, TickerSafe
    <2>2. ~Alive
      BY <2>1, OnlyDeposits, QuietIsCalm DEF Quiet
    <2>3. CASE Move({"selling"}, To("bridged"))
      <3>1. RowSafe(pay') /\ Slides
        BY <1>1, <2>2, <2>3, ToSafe DEF Moving, Early
      <3> QED
        BY <1>1, <2>1, <3>1, TickerStops
    <2>4. CASE Move({"ordered", "depositing"}, [pay EXCEPT !.status = "bridged", !.sale = 0])
      <3> DEFINE row == [pay EXCEPT !.status = "bridged", !.sale = 0]
      <3>1. /\ row.status = "bridged"
            /\ row.ref = pay.ref /\ row.gen = pay.gen /\ row.attempts = pay.attempts
            /\ row.transfer = pay.transfer /\ row.venue = pay.venue
            /\ row.parked = pay.parked /\ row.safe = pay.safe
        BY <1>1 DEF TypeOK, Row
      <3> HIDE DEF row
      <3>2. Move({"ordered", "depositing"}, row)
        BY <2>4 DEF row
      <3>3. RowSafe(pay') /\ Slides
        BY <1>1, <2>2, <3>1, <3>2, MoveSafe DEF Moving, Over, Early
      <3> QED
        BY <1>1, <2>1, <3>3, TickerStops
    <2> QED
      BY <1>9, <2>3, <2>4 DEF Withdrawn
  <1> QED
    BY <1>4, <1>5, <1>6, <1>7, <1>8, <1>9

LEMMA DepositKeeps ==
    ASSUME PayoutInv, OnceInv, NEW t \in Threads, Only(t),
           RecoverSelling(t) \/ AdvanceDeposit(t) \/ FollowSell(t)
    PROVE  Keeps
  <1>1. TypeOK
    BY DEF PayoutInv
  <1>2. CASE RecoverSelling(t)
    <2>1. t \in Tickers /\ At(t, "loaded")
      BY <1>2 DEF RecoverSelling, Holds
    <2>2. CASE ParkRow(t, FALSE)
      BY <1>1, <2>1, <2>2, ParkRowKeeps
    <2>3. CASE \E s \in LiveSales : /\ Move({"selling"}, [pay EXCEPT !.status = "ordered", !.sale = s])
                                    /\ Stop(t)
      <3>1. PICK s \in LiveSales : /\ Move({"selling"}, [pay EXCEPT !.status = "ordered", !.sale = s])
                                   /\ Stop(t)
        BY <2>3
      <3> DEFINE row == [pay EXCEPT !.status = "ordered", !.sale = s]
      <3>2. /\ row.status = "ordered"
            /\ row.ref = pay.ref /\ row.gen = pay.gen /\ row.attempts = pay.attempts
            /\ row.transfer = pay.transfer /\ row.venue = pay.venue
            /\ row.parked = pay.parked /\ row.safe = pay.safe
        BY <1>1 DEF TypeOK, Row
      <3> HIDE DEF row
      <3>3. Move({"selling"}, row)
        BY <3>1 DEF row
      <3>4. RowSafe(pay') /\ Slides
        BY <1>1, <3>2, <3>3, MoveSafe DEF Moving, Over, Early, Quiet
      <3> QED
        BY <1>1, <2>1, <3>1, <3>4, TickerStops
    <2> QED
      BY <1>2, <2>2, <2>3 DEF RecoverSelling
  <1>3. CASE AdvanceDeposit(t)
    <2> DEFINE s == thread[t].row.sale
    <2>1. /\ t \in Tickers /\ At(t, "loaded") /\ thread[t].row = pay
          /\ pay.status \in {"ordered", "depositing"} /\ Pending = {}
      BY <1>3, Current DEF AdvanceDeposit, AtDeposit
    <2>2. CASE Move({"ordered", "depositing"}, To("deposited")) /\ Stop(t)
      <3>1. RowSafe(pay') /\ Slides
        BY <1>1, <2>2, ToSafe DEF Moving, Over, Early, Quiet
      <3> QED
        BY <1>1, <2>1, <2>2, <3>1, TickerStops
    <2>3. CASE ParkRow(t, FALSE)
      BY <1>1, <2>1, <2>3, ParkRowKeeps
    <2>4. CASE Of("deposit", "confirmed") = {}
      <3>1. ~DepositHot
        BY <2>1, <2>4, <1>1 DEF PayoutInv, LegsAreRight, DepositHot, Hot, Pending, Of, Is, TypeOK, Leg
      <3>2. ~Alive
        BY <2>1, <3>1, OnlyDeposits
      <3>3. CASE ParkRow(t, TRUE)
        BY <1>1, <2>1, <3>2, <3>3, ParkRowKeeps
      <3>4. CASE Go(t, "withdrawn", thread[t].row, NoLeg, s) /\ pay' = pay
        <4>1. TickerSafe([pc |-> "withdrawn", row |-> thread[t].row, leg |-> NoLeg, sale |-> s], pay')
          BY <2>1, <3>1, <3>4 DEF TickerSafe
        <4> QED
          BY <1>1, <2>1, <3>4, <4>1, TickerGoes DEF OnceInv, Slides
      <3>5. CASE Go(t, "reserve", thread[t].row, NoLeg, 0) /\ pay' = pay
        <4>1. TickerSafe([pc |-> "reserve", row |-> thread[t].row, leg |-> NoLeg, sale |-> 0], pay')
          BY <2>1, <3>5 DEF TickerSafe
        <4> QED
          BY <1>1, <2>1, <3>5, <4>1, TickerGoes DEF OnceInv, Slides
      <3> QED
        BY <1>3, <2>3, <2>4, <3>3, <3>4, <3>5 DEF AdvanceDeposit
    <2> QED
      BY <1>3, <2>2, <2>4 DEF AdvanceDeposit
  <1>4. CASE FollowSell(t)
    <2>1. t \in Tickers /\ At(t, "loaded")
      BY <1>4 DEF FollowSell, Holds
    <2>2. CASE Move({"deposited"}, To("paid")) /\ Stop(t)
      <3>1. RowSafe(pay') /\ Slides
        BY <1>1, <2>2, ToSafe DEF Moving, Over, Early, Quiet
      <3> QED
        BY <1>1, <2>1, <2>2, <3>1, TickerStops
    <2>3. CASE ParkRow(t, FALSE)
      BY <1>1, <2>1, <2>3, ParkRowKeeps
    <2>4. CASE Stop(t) /\ pay' = pay
      BY <1>1, <2>1, <2>4, TickerStops DEF OnceInv, Slides
    <2> QED
      BY <1>4, <2>2, <2>3, <2>4 DEF FollowSell
  <1> QED
    BY <1>2, <1>3, <1>4

LEMMA CompanyKeeps ==
    ASSUME PayoutInv, OnceInv, NEW t \in Threads, Only(t),
           StartCompany(t) \/ RecordId(t) \/ ObserveCompany(t)
    PROVE  Keeps
  <1>1. TypeOK
    BY DEF PayoutInv
  <1>2. CASE StartCompany(t)
    <2> DEFINE gen == thread[t].row.gen
               row == [pay EXCEPT !.status = "paying_company", !.ref = gen,
                         !.attempts = IF pay.attempts = 2 THEN 2 ELSE pay.attempts + 1,
                         !.transfer = 0]
               asked == [thread[t].row EXCEPT !.status = "paying_company"]
               new == [pc |-> "request", row |-> asked, leg |-> NoLeg, sale |-> 0]
    <2>1. /\ t \in Tickers /\ At(t, "loaded") /\ thread[t].row = pay
          /\ pay.status \in {"received", "bridging"} /\ pay.venue = "company"
      BY <1>2, Current DEF StartCompany
    <2>2. ~Alive /\ pay.status \in Quiet
      BY <2>1, QuietIsCalm DEF Quiet, Early
    <2>3. CASE ParkRow(t, TRUE)
      BY <1>1, <2>1, <2>2, <2>3, ParkRowKeeps
    <2>4. CASE /\ Move({"received"}, row)
               /\ IF pay.status = "received" THEN Go(t, "request", asked, NoLeg, 0) ELSE Stop(t)
      <3>1. CASE pay.status # "received"
        BY <1>1, <2>1, <2>4, <3>1, TickerStops DEF Move, OnceInv, Slides
      <3>2. CASE pay.status = "received"
        <4>1. /\ row.status = "paying_company" /\ row.ref = pay.gen /\ row.gen = pay.gen
              /\ row.attempts = IF pay.attempts = 2 THEN 2 ELSE pay.attempts + 1
              /\ row.transfer = 0 /\ row.venue = pay.venue
              /\ row.parked = pay.parked /\ row.safe = pay.safe
              /\ pay.attempts \in 0..2 /\ pay.gen \in Refs /\ pay.ref \in 0..MaxRefs
          BY <1>1, <2>1 DEF TypeOK, Row
        <4>2. asked.gen = pay.gen
          BY <1>1, <2>1 DEF TypeOK, Row
        <4>3. /\ \A r \in Refs : ~LiveTransfer(r)
              /\ \A r \in Refs : bank[r] # "none" => r <= pay.ref
              /\ pay.ref < pay.gen /\ ~pay.safe /\ ~RefundSent
              /\ TransferUsed => pay.attempts # 0
          BY <2>2, <3>2 DEF Alive, OnceInv, RowSafe, Books, Locked, Calm, Early, Moving
        <4>4. pay' = row /\ Go(t, "request", asked, NoLeg, 0)
          BY <2>4, <3>2 DEF Move
        <4> HIDE DEF row, asked
        <4>5. Books(row)
          <5>1. row.attempts # 0
            BY <4>1
          <5>2. \A r \in Refs : bank[r] # "none" => r <= row.ref
            BY <4>1, <4>3 DEF Refs
          <5> QED
            BY <4>1, <4>3, <5>1, <5>2 DEF Books, Early, Refs
        <4>6. Locked(row)
          BY <2>1, <4>1, <4>3 DEF OnceInv, RowSafe, Locked
        <4>7. Calm(row)
          BY <4>1, <4>3 DEF Calm, Quiet, Early
        <4>8. Slides
          BY <3>2 DEF Slides, Moving
        <4>9. TickerSafe(new, pay')
          <5>1. row.attempts # 0 /\ (TransferUsed => row.attempts = 2)
            BY <4>1, <4>3
          <5>2. bank[row.gen] = "none"
            BY <4>1, <4>3 DEF Refs
          <5> QED
            BY <2>1, <2>2, <4>1, <4>2, <4>4, <5>1, <5>2 DEF TickerSafe
        <4> QED
          BY <1>1, <2>1, <4>4, <4>5, <4>6, <4>7, <4>8, <4>9, TickerGoes DEF RowSafe
      <3> QED
        BY <3>1, <3>2
    <2> QED
      BY <1>2, <2>3, <2>4 DEF StartCompany
  <1>3. CASE RecordId(t)
    <2> DEFINE gen == thread[t].row.gen
               row == [pay EXCEPT !.transfer = gen]
    <2>1. /\ t \in Tickers /\ bank[gen] # "none" /\ gen \in Refs
          /\ pay.status = "paying_company" => pay.ref = gen
      BY <1>1, <1>3, TickerAt DEF RecordId, At, TickerSafe, TypeOK, Thread, Row
    <2>2. Move({"paying_company"}, row) /\ Stop(t)
      BY <1>3 DEF RecordId
    <2>3. CASE pay' = pay
      BY <1>1, <2>1, <2>2, <2>3, TickerStops DEF OnceInv, Slides
    <2>4. CASE pay.status = "paying_company" /\ pay' = row
      <3>1. /\ row.status = pay.status /\ row.transfer = gen
            /\ row.ref = pay.ref /\ row.gen = pay.gen /\ row.attempts = pay.attempts
            /\ row.venue = pay.venue /\ row.parked = pay.parked /\ row.safe = pay.safe
        BY <1>1 DEF TypeOK, Row
      <3>2. TransferUsed
        BY <2>1 DEF TransferUsed
      <3> HIDE DEF row
      <3>3. Books(row) /\ Locked(row) /\ Calm(row)
        BY <2>1, <2>4, <3>1, <3>2 DEF OnceInv, RowSafe, Books, Locked, Calm
      <3>4. Slides
        BY <2>4 DEF Slides, Moving
      <3> QED
        BY <1>1, <2>1, <2>2, <2>4, <3>3, <3>4, TickerStops DEF RowSafe
    <2> QED
      BY <2>2, <2>3, <2>4 DEF Move
  <1>4. CASE ObserveCompany(t)
    <2>1. t \in Tickers /\ At(t, "loaded")
      BY <1>4 DEF ObserveCompany, Holds
    <2>2. CASE ParkRow(t, FALSE)
      BY <1>1, <2>1, <2>2, ParkRowKeeps
    <2>3. CASE Move({"paying_company"}, [pay EXCEPT !.status = "paid", !.paidAt = TRUE]) /\ Stop(t)
      <3> DEFINE row == [pay EXCEPT !.status = "paid", !.paidAt = TRUE]
      <3>1. /\ row.status = "paid"
            /\ row.ref = pay.ref /\ row.gen = pay.gen /\ row.attempts = pay.attempts
            /\ row.transfer = pay.transfer /\ row.venue = pay.venue
            /\ row.parked = pay.parked /\ row.safe = pay.safe
        BY <1>1 DEF TypeOK, Row
      <3> HIDE DEF row
      <3>2. Move({"paying_company"}, row)
        BY <2>3 DEF row
      <3>3. RowSafe(pay') /\ Slides
        BY <1>1, <3>1, <3>2, MoveSafe DEF Moving, Over, Early, Quiet
      <3> QED
        BY <1>1, <2>1, <2>3, <3>3, TickerStops
    <2>4. CASE Stop(t) /\ pay' = pay
      BY <1>1, <2>1, <2>4, TickerStops DEF OnceInv, Slides
    <2> QED
      BY <1>4, <2>2, <2>3, <2>4 DEF ObserveCompany
  <1> QED
    BY <1>2, <1>3, <1>4

\* With nothing sent under a leg and no company transfer used, nothing is alive.
LEMMA NothingSentIs ==
    ASSUME PayoutInv, NothingSent(Kinds)
    PROVE  \A l \in Legs : tx[l] = "none"
  BY DEF PayoutInv, LegsAreRight, NothingSent, Legs, Sent

LEMMA CompanyUnused ==
    ASSUME OnceInv, CompanyNothingSent(pay)
    PROVE  ~TransferUsed
  BY DEF OnceInv, RowSafe, Locked, CompanyNothingSent

LEMMA OperatorKeeps ==
    ASSUME PayoutInv, OnceInv, NEW t \in Threads, Only(t),
           \/ LoadParked(t) \/ Retry(t) \/ RetryCompany(t) \/ MarkPaid(t) \/ Cancel(t)
           \/ PayWallet(t) \/ Reroute(t) \/ Leave(t)
    PROVE  Keeps
  <1>1. TypeOK
    BY DEF PayoutInv
  <1>2. t \in Operators
    BY DEF LoadParked, Retry, RetryCompany, MarkPaid, Cancel, PayWallet, Reroute, Leave
  <1>3. CASE LoadParked(t)
    <2> DEFINE new == [pc |-> "loaded", row |-> pay, leg |-> NoLeg, sale |-> 0]
    <2>1. Go(t, "loaded", pay, NoLeg, 0) /\ pay' = pay /\ pay.status = "needs_review"
      BY <1>3 DEF LoadParked, rowVars
    <2>2. OperatorSafe(new, pay')
      BY <2>1 DEF OperatorSafe
    <2> QED
      BY <1>1, <1>2, <2>1, <2>2, OperatorStep DEF Go, OnceInv
  <1>4. ASSUME Holds(t, {"needs_review"})
        PROVE  thread[t].row = pay /\ pay.status = "needs_review" /\ OperatorSafe(thread[t], pay)
    BY <1>2, <1>4 DEF Holds, At, OnceInv, OperatorSafe
  <1>5. ASSUME NEW row, pay.status = "needs_review", pay' = row, row.status # "paying_company",
               Stop(t), RowSafe(row)
        PROVE  Keeps
    BY <1>1, <1>2, <1>5, IdleIsSafe, OperatorStep DEF Stop
  <1>6. CASE Retry(t)
    <2> DEFINE to == IF thread[t].row.parked = "selling" /\ LiveSales = {} THEN "bridged"
                     ELSE thread[t].row.parked
               row == [pay EXCEPT !.safe = FALSE, !.status = to]
    <2>1. /\ thread[t].row = pay /\ pay.status = "needs_review"
          /\ pay.parked \notin {"none", "paying_company"}
          /\ Move({"needs_review"}, row) /\ Stop(t)
      BY <1>4, <1>6 DEF Retry, Decide
    <2>2. /\ pay.parked \in Moving \ {"paying_company"}
          /\ to = pay.parked \/ (pay.parked = "selling" /\ to = "bridged")
      <3>1. pay.parked \in Moving \cup {"none"}
        BY <1>1 DEF TypeOK, Row
      <3> QED
        BY <2>1, <3>1
    <2>3. /\ row.status = to /\ row.safe = FALSE
          /\ row.ref = pay.ref /\ row.gen = pay.gen /\ row.attempts = pay.attempts
          /\ row.transfer = pay.transfer /\ row.venue = pay.venue /\ row.parked = pay.parked
      BY <1>1 DEF TypeOK, Row
    <2>4. pay' = row
      BY <2>1 DEF Move
    <2> HIDE DEF row, to
    <2>5. to \in Moving \ {"paying_company"} /\ (to \in Early => pay.parked \in Early)
          /\ (to \in Quiet => pay.parked \in Quiet)
      BY <2>2 DEF Moving, Early, Quiet
    <2>6. Books(row)
      BY <2>1, <2>3, <2>5 DEF OnceInv, RowSafe, Books, Moving
    <2>7. Locked(row)
      BY <2>1, <2>2, <2>3, <2>5 DEF OnceInv, RowSafe, Locked
    <2>8. Calm(row)
      BY <2>1, <2>3, <2>5 DEF OnceInv, RowSafe, Calm, Moving
    <2> QED
      BY <1>5, <2>1, <2>3, <2>4, <2>5, <2>6, <2>7, <2>8 DEF RowSafe
  <1>7. CASE RetryCompany(t)
    <2> DEFINE row == [pay EXCEPT !.safe = FALSE, !.status = "received", !.gen = pay.gen + 1,
                                  !.transfer = 0, !.paidAt = FALSE]
    <2>1. /\ thread[t].row = pay /\ pay.status = "needs_review" /\ pay.parked = "paying_company"
          /\ Move({"needs_review"}, row) /\ Stop(t)
          /\ IF pay.transfer # 0 THEN bank[pay.transfer] \in {"dead", "reversed"}
             ELSE pay.safe \/ ~LiveTransfer(pay.ref)
      BY <1>4, <1>7 DEF RetryCompany, Decide
    <2>2. /\ row.status = "received" /\ row.safe = FALSE /\ row.gen = pay.gen + 1
          /\ row.ref = pay.ref /\ row.attempts = pay.attempts
          /\ row.transfer = 0 /\ row.venue = pay.venue /\ row.parked = pay.parked
          /\ pay.gen \in Nat /\ pay.ref \in Nat
      BY <1>1, PayoutAssumption DEF TypeOK, Row, Refs
    <2>3. pay' = row
      BY <2>1 DEF Move
    <2>4. ~RefundSent /\ ~BridgeSent /\ ~DepositSent
      BY <2>1 DEF OnceInv, OneWay, RowSafe, Locked
    <2>5. \A r \in Refs : ~LiveTransfer(r)
      <3>1. CASE pay.safe
        BY <2>1, <3>1 DEF OnceInv, RowSafe, Calm, Alive
      <3>2. CASE ~pay.safe
        BY <2>1, <3>2 DEF OnceInv, RowSafe, Books, LiveTransfer
      <3> QED
        BY <3>1, <3>2
    <2>6. ~Alive
      BY <2>4, <2>5 DEF Alive, RefundSent, DepositSent, Sent, Legs, Kinds
    <2> HIDE DEF row
    <2>7. Books(row)
      BY <2>2, <2>5 DEF OnceInv, RowSafe, Books
    <2>8. Locked(row)
      BY <2>2, <2>4 DEF OnceInv, RowSafe, Locked
    <2>9. Calm(row)
      BY <2>2, <2>6 DEF Calm
    <2> QED
      BY <1>5, <2>1, <2>2, <2>3, <2>7, <2>8, <2>9 DEF RowSafe
  <1>8. CASE MarkPaid(t)
    <2> DEFINE row == [pay EXCEPT !.status = "paid", !.byHand = TRUE]
    <2>1. pay.status = "needs_review" /\ Move({"needs_review"}, row) /\ Stop(t)
      BY <1>4, <1>8 DEF MarkPaid, Decide
    <2>2. /\ row.status = "paid" /\ row.safe = pay.safe /\ row.gen = pay.gen
          /\ row.ref = pay.ref /\ row.attempts = pay.attempts
          /\ row.transfer = pay.transfer /\ row.venue = pay.venue /\ row.parked = pay.parked
      BY <1>1 DEF TypeOK, Row
    <2>3. pay' = row
      BY <2>1 DEF Move
    <2> HIDE DEF row
    <2>4. Books(row) /\ Locked(row) /\ Calm(row)
      BY <2>2 DEF OnceInv, RowSafe, Books, Locked, Calm, Early, Quiet, Moving
    <2> QED
      BY <1>5, <2>1, <2>2, <2>3, <2>4 DEF RowSafe
  <1>9. CASE Cancel(t)
    <2> DEFINE row == To("cancelled")
    <2>1. /\ pay.status = "needs_review" /\ Move({"needs_review"}, row) /\ Stop(t)
          /\ NothingSent(Kinds)
      BY <1>4, <1>9 DEF Cancel, Decide
    <2>2. /\ row.status = "cancelled" /\ row.safe = pay.safe /\ row.gen = pay.gen
          /\ row.ref = pay.ref /\ row.attempts = pay.attempts
          /\ row.transfer = pay.transfer /\ row.venue = pay.venue /\ row.parked = pay.parked
      BY <1>1 DEF To, TypeOK, Row
    <2>3. pay' = row
      BY <2>1 DEF Move
    <2>4. ~RefundSent
      BY <2>1, NothingSentIs DEF RefundSent, Sent
    <2> HIDE DEF row
    <2>5. Books(row) /\ Locked(row) /\ Calm(row)
      BY <2>2, <2>4 DEF OnceInv, RowSafe, Books, Locked, Calm, Early, Quiet, Moving
    <2> QED
      BY <1>5, <2>1, <2>2, <2>3, <2>5 DEF RowSafe
  <1>10. ASSUME thread[t].row = pay, CompanyNothingSent(thread[t].row), NothingSent(Kinds)
         PROVE  ~TransferUsed /\ ~BridgeSent /\ ~RefundSent
    BY <1>10, CompanyUnused, NothingSentIs DEF BridgeSent, RefundSent, Sent
  <1>11. CASE PayWallet(t)
    <2> DEFINE new == [pc |-> "reserve", row |-> pay, leg |-> NoLeg, sale |-> 0]
    <2>1. /\ thread[t].row = pay /\ pay.status = "needs_review" /\ pay' = pay
          /\ ~TransferUsed /\ ~BridgeSent /\ ~RefundSent
          /\ Go(t, "reserve", pay, NoLeg, 0)
      BY <1>4, <1>10, <1>11 DEF PayWallet, rowVars
    <2>2. OperatorSafe(new, pay')
      BY <2>1 DEF OperatorSafe
    <2> QED
      BY <1>1, <1>2, <2>1, <2>2, OperatorStep DEF Go, OnceInv
  <1>12. CASE Leave(t)
    BY <1>1, <1>2, <1>12, IdleIsSafe, OperatorStep DEF Leave, Stop, rowVars, OnceInv
  <1>13. CASE Reroute(t)
    <2> DEFINE some == pay.attempts > 0
               row == [pay EXCEPT
                   !.status = IF ~pay.received \/ pay.parked = "awaiting_release"
                              THEN "awaiting_release" ELSE "received",
                   !.venue = IF pay.venue = "company" THEN "paycrest" ELSE "company",
                   !.parked = "none", !.safe = FALSE, !.attempts = 0,
                   !.gen = IF some THEN pay.gen + 1 ELSE pay.gen,
                   !.transfer = IF some THEN 0 ELSE pay.transfer]
    <2>1. /\ thread[t].row = pay /\ pay.status = "needs_review"
          /\ ~TransferUsed /\ ~BridgeSent /\ ~RefundSent
      BY <1>4, <1>10, <1>13 DEF Reroute
    <2>2. pay' = row /\ Stop(t)
      BY <1>13, <2>1 DEF Reroute
    <2>3. /\ row.status \in Early /\ row.parked = "none" /\ row.safe = FALSE /\ row.attempts = 0
          /\ row.gen = IF some THEN pay.gen + 1 ELSE pay.gen
          /\ row.transfer = IF some THEN 0 ELSE pay.transfer
          /\ row.ref = pay.ref
          /\ pay.gen \in Nat /\ pay.ref \in Nat /\ pay.attempts \in Nat
      BY <1>1, PayoutAssumption DEF TypeOK, Row, Refs, Early
    <2>4. ~Alive
      BY <2>1, AliveIs DEF OnceInv
    <2> HIDE DEF row
    <2>5. row.ref < row.gen
      BY <2>3 DEF OnceInv, RowSafe, Books
    <2>6. row.transfer = 0
      BY <2>1, <2>3 DEF OnceInv, RowSafe, Books
    <2>7. Books(row)
      BY <2>1, <2>3, <2>5, <2>6 DEF Books, TransferUsed, LiveTransfer
    <2>8. Locked(row) /\ Calm(row) /\ row.status # "paying_company"
      BY <2>1, <2>3, <2>4 DEF Locked, Calm, Early
    <2> QED
      BY <1>5, <2>1, <2>2, <2>7, <2>8 DEF RowSafe
  <1> QED
    BY <1>3, <1>6, <1>7, <1>8, <1>9, <1>11, <1>12, <1>13

LEMMA CrashKeeps ==
    ASSUME TypeOK, OnceInv, NEW t \in Threads, Only(t), Crash(t) \/ Approve(t)
    PROVE  Keeps
  <1>1. CASE Approve(t)
    BY <1>1 DEF Approve, Keeps, OnceInv
  <1>2. CASE Crash(t)
    <2>1. Stop(t) /\ pay' = pay
      BY <1>2 DEF Crash, rowVars
    <2>2. CASE t \in Tickers
      BY <2>1, <2>2, TickerStops DEF OnceInv, Slides
    <2>3. CASE t \in Operators
      BY <2>1, <2>3, IdleIsSafe, OperatorStep DEF Stop, OnceInv
    <2> QED
      BY <2>2, <2>3 DEF Threads
  <1> QED
    BY <1>1, <1>2

\* The webhook of a reversal, and the note of a rebalance, reach a payout that no
\* operator holds.
LEMMA WorldKeeps ==
    ASSUME TypeOK, OnceInv, World
    PROVE  Keeps
  <1>1. thread' = thread
    BY DEF World, OrderEnds, ReleaseRecorded, FlagReversal, MarkRebalanced, Land, Lose, Settle,
           Lapse, Sync, BankAnswers, BankReverses
  <1>2. CASE pay' = pay
    BY <1>1, <1>2 DEF Keeps, OnceInv
  <1>3. ASSUME pay.status \in {"paid", "paying_company"}
        PROVE  \A u \in Operators : thread[u].pc = "idle"
    BY <1>3 DEF OnceInv, OperatorSafe
  <1>4. ASSUME pay.status \in {"paid", "paying_company"}, NEW u \in Tickers
        PROVE  /\ thread[u].pc \notin {"reserve", "claim", "send", "ask", "opened", "shortfall",
                                       "withdrawn", "refused"}
               /\ thread[u].pc = "request" => bank[pay.ref] = "none" /\ pay.status = "paying_company"
    BY <1>4 DEF OnceInv, TickerSafe
  <1>5. CASE FlagReversal
    <2> DEFINE row == [pay EXCEPT !.status = "needs_review", !.parked = "paying_company",
                                  !.safe = FALSE, !.paidAt = FALSE]
    <2>1. /\ pay.ref # 0 /\ bank[pay.ref] = "reversed" /\ pay' = row
          /\ pay.status \in {"paid", "paying_company"}
      BY <1>5 DEF FlagReversal
    <2>2. /\ row.status = "needs_review" /\ row.parked = "paying_company" /\ row.safe = FALSE
          /\ row.ref = pay.ref /\ row.gen = pay.gen /\ row.attempts = pay.attempts
          /\ row.transfer = pay.transfer /\ row.venue = pay.venue
          /\ pay.ref \in Refs
      BY <2>1, PayoutAssumption DEF TypeOK, Row, Refs
    <2>3. TransferUsed
      BY <2>1, <2>2 DEF TransferUsed
    <2>4. ~RefundSent /\ ~BridgeSent
      BY <2>3 DEF OnceInv, OneWay, RowSafe, Locked
    <2> HIDE DEF row
    <2>5. Books(row) /\ Locked(row) /\ Calm(row)
      BY <2>2, <2>4 DEF OnceInv, RowSafe, Books, Locked, Calm, Early, Quiet, Moving
    <2>6. ASSUME NEW u \in Tickers
          PROVE  TickerSafe(thread[u], row)
      <3>1. TickerSafe(thread[u], pay) /\ thread[u].pc # "request"
        BY <1>4, <2>1 DEF OnceInv
      <3>2. thread[u].pc = "loaded" =>
               /\ thread[u].row.status \in Moving
               /\ \/ thread[u].row.status = "paying_wallet"
                  \/ thread[u].row.status = "paying_company" /\ TransferUsed
        BY <2>1, <2>3, <3>1 DEF TickerSafe, Moving
      <3> QED
        BY <1>4, <2>1, <2>2, <3>1, <3>2 DEF TickerSafe
    <2>7. \A u \in Operators : OperatorSafe(thread[u], row)
      BY <1>3, <2>1 DEF OperatorSafe
    <2> QED
      BY <1>1, <2>1, <2>5, <2>6, <2>7 DEF Keeps, RowSafe
  <1>6. CASE MarkRebalanced
    <2> DEFINE row == [pay EXCEPT !.rebalanced = TRUE]
    <2>1. pay.status = "paid" /\ pay' = row
      BY <1>6 DEF MarkRebalanced
    <2>2. /\ row.status = pay.status /\ row.parked = pay.parked /\ row.safe = pay.safe
          /\ row.ref = pay.ref /\ row.gen = pay.gen /\ row.attempts = pay.attempts
          /\ row.transfer = pay.transfer /\ row.venue = pay.venue
      BY DEF TypeOK, Row
    <2> HIDE DEF row
    <2>3. Books(row) /\ Locked(row) /\ Calm(row)
      BY <2>2 DEF OnceInv, RowSafe, Books, Locked, Calm
    <2>4. ASSUME NEW u \in Tickers
          PROVE  TickerSafe(thread[u], row)
      <3>1. TickerSafe(thread[u], pay) /\ thread[u].pc # "request"
        BY <1>4, <2>1 DEF OnceInv
      <3>2. thread[u].pc = "loaded" =>
               /\ thread[u].row.status \in Moving
               /\ \/ thread[u].row.status = "paying_wallet"
                  \/ thread[u].row.status = "paying_company" /\ TransferUsed
        BY <2>1, <3>1 DEF TickerSafe, Moving
      <3> QED
        BY <1>4, <2>1, <2>2, <3>1, <3>2 DEF TickerSafe
    <2>5. \A u \in Operators : OperatorSafe(thread[u], row)
      BY <1>3, <2>1 DEF OperatorSafe
    <2> QED
      BY <1>1, <2>1, <2>3, <2>4, <2>5 DEF Keeps, RowSafe
  <1> QED
    BY <1>2, <1>5, <1>6
       DEF World, OrderEnds, ReleaseRecorded, Land, Lose, Settle, Lapse, Sync, BankAnswers,
           BankReverses, rowVars

\* What left stays sent, and only less of it may still pay.
Cools ==
    /\ \A l \in Legs : /\ tx'[l] # "none" <=> tx[l] # "none"
                       /\ tx'[l] \in {"flying", "done"} => tx[l] \in {"flying", "done"}
    /\ \A r \in Refs : /\ bank'[r] # "none" <=> bank[r] # "none"
                       /\ bank'[r] \in {"pending", "paid"} => bank[r] \in {"pending", "paid"}

LEMMA CoolKeeps ==
    ASSUME OneWay, Keeps, Cools, TypeOK'
    PROVE  /\ OneWay' /\ RowSafe(pay)'
           /\ \A t \in Tickers : TickerSafe(thread[t], pay)'
           /\ \A t \in Operators : OperatorSafe(thread[t], pay)'
  <1>1. /\ BridgeSent' <=> BridgeSent
        /\ DepositSent' <=> DepositSent
        /\ RefundSent' <=> RefundSent
    BY DEF Cools, BridgeSent, DepositSent, RefundSent, Sent
  <1>2. TransferUsed' <=> TransferUsed
    BY DEF Cools, TransferUsed
  <1>3. DepositHot' => DepositHot
    BY DEF Cools, DepositHot, Hot
  <1>4. \A r \in Refs : LiveTransfer(r)' => LiveTransfer(r)
    BY DEF Cools, LiveTransfer
  <1>5. Alive' => Alive
    BY <1>4 DEF Cools, Alive
  <1>6. OneWay'
    BY <1>1, <1>2 DEF OneWay, Cools, Sent
  <1>7. RowSafe(pay)'
    <2>1. Books(pay)'
      BY <1>2, <1>4 DEF Keeps, RowSafe, Books, Cools
    <2>2. Locked(pay)'
      BY <1>1, <1>2 DEF Keeps, RowSafe, Locked
    <2>3. Calm(pay)'
      BY <1>5 DEF Keeps, RowSafe, Calm
    <2> QED
      BY <2>1, <2>2, <2>3 DEF RowSafe
  <1>8. ASSUME NEW t \in Tickers
        PROVE  TickerSafe(thread[t], pay)'
    <2>1. TickerSafe(thread'[t], pay')
      BY DEF Keeps
    <2>2. \A g \in Refs : bank'[g] # "none" <=> bank[g] # "none"
      BY DEF Cools
    <2>3. thread'[t].row.gen \in Refs /\ pay'.gen \in Refs
      BY PayoutAssumption DEF TypeOK, Threads, Thread, Row
    <2> QED
      BY <1>2, <1>3, <1>5, <2>1, <2>2, <2>3 DEF TickerSafe
  <1>9. ASSUME NEW t \in Operators
        PROVE  OperatorSafe(thread[t], pay)'
    BY <1>1, <1>2 DEF Keeps, OperatorSafe
  <1> QED
    BY <1>6, <1>7, <1>8, <1>9

\* OneWay, RowSafe and the threads' places, after a step.
Once ==
    /\ OneWay /\ RowSafe(pay)
    /\ \A t \in Tickers : TickerSafe(thread[t], pay)
    /\ \A t \in Operators : OperatorSafe(thread[t], pay)

\* A transfer leaves for the chain: a bridge while nothing else has left, a deposit
\* behind it, or the one payment to the wallet.
LEMMA SendOnce ==
    ASSUME PayoutInv, OnceInv, NEW t \in Threads, Only(t), Send(t)
    PROVE  Once'
  <1> DEFINE l == thread[t].leg
  <1>1. TypeOK /\ OneWay /\ RowSafe(pay)
    BY DEF PayoutInv, OnceInv
  <1>2. /\ l \in Legs /\ tx[l] = "none" /\ tx'[l] = "flying"
        /\ \A m \in Legs : m # l => tx'[m] = tx[m]
        /\ pay' = pay /\ bank' = bank
    <2>1. /\ Is(l, "pending") /\ ~Sent(l) /\ tx' = [tx EXCEPT ![l] = "flying"]
          /\ pay' = pay /\ bank' = bank
      BY DEF Send, rowVars
    <2>2. l \in Legs \/ l = NoLeg
      BY <1>1 DEF TypeOK, Thread
    <2>3. l[1] \in {"bridge", "deposit", "refund"}
      BY DEF Send, At, OnceInv, TickerSafe, OperatorSafe, Threads
    <2>4. l \in Legs
      BY <2>2, <2>3 DEF NoLeg
    <2> QED
      BY <1>1, <2>1, <2>4 DEF Sent, TypeOK
  <1>3. /\ thread'[t] = Idle
        /\ \A u \in Threads : u # t => thread'[u] = thread[u]
    BY <1>1 DEF Send, Stop, Goto, TypeOK
  <1>4. /\ TransferUsed' <=> TransferUsed
        /\ \A r \in Refs : LiveTransfer(r)' <=> LiveTransfer(r)
        /\ Books(pay)'
    BY <1>1, <1>2 DEF TransferUsed, LiveTransfer, RowSafe, Books
  <1>5. CASE t \in Tickers /\ l[1] \in {"bridge", "deposit"}
    <2>1. TickerSafe(thread[t], pay) /\ thread[t].pc = "send"
      BY <1>5 DEF OnceInv, Send, At
    <2>2. BridgeSent' /\ pay.status \in {"bridging", "depositing"} /\ pay.venue = "paycrest"
      <3>1. CASE l[1] = "bridge"
        BY <1>2, <2>1, <3>1 DEF TickerSafe, BridgeSent, Sent
      <3>2. CASE l[1] = "deposit"
        <4>1. pay.status = "depositing"
          BY <2>1, <3>2 DEF TickerSafe
        <4>2. PICK m \in Legs : m[1] = "bridge" /\ tx[m] = "done"
          BY <4>1 DEF PayoutInv, Earned, Proven, BridgeDone
        <4>3. BridgeSent /\ tx'[m] = "done"
          BY <1>2, <4>2 DEF BridgeSent, Sent
        <4> QED
          BY <1>1, <4>1, <4>2, <4>3 DEF BridgeSent, Sent, RowSafe, Locked
      <3> QED
        BY <1>5, <3>1, <3>2
    <2>3. ~TransferUsed /\ ~RefundSent
      BY <1>1, <2>2 DEF RowSafe, Locked
    <2>4. RefundSent' <=> RefundSent
      BY <1>2, <1>5 DEF RefundSent, Sent
    <2>5. OneWay'
      BY <1>4, <2>2, <2>3, <2>4 DEF OneWay, RefundSent
    <2>6. pay.status = "bridging" => ~Alive'
      <3>1. ASSUME pay.status = "bridging"
            PROVE  ~Alive'
        <4>1. l[1] = "bridge"
          BY <2>1, <3>1 DEF TickerSafe
        <4>2. ~Alive
          BY <3>1, QuietIsCalm DEF Quiet
        <4> QED
          BY <1>2, <1>4, <4>1, <4>2 DEF Alive
      <3> QED
        BY <3>1
    <2>7. RowSafe(pay)'
      <3>1. Locked(pay)'
        BY <1>2, <1>4, <2>2, <2>3, <2>4 DEF Locked
      <3>2. Calm(pay)'
        BY <1>1, <1>2, <2>2, <2>6 DEF RowSafe, Calm, Quiet, Early
      <3> QED
        BY <1>4, <3>1, <3>2 DEF RowSafe
    <2>8. \A u \in Tickers : TickerSafe(thread[u], pay)'
      BY <1>3, <1>5 DEF Only, At, TickerSafe, Idle, Threads
    <2>9. \A u \in Operators : thread[u].pc = "idle"
      BY <2>2 DEF OnceInv, OperatorSafe
    <2>10. \A u \in Operators : OperatorSafe(thread[u], pay)'
      BY <1>3, <2>9 DEF OperatorSafe, Threads, Idle
    <2> QED
      BY <2>5, <2>7, <2>8, <2>10 DEF Once
  <1>6. CASE t \in Operators /\ l[1] = "refund"
    <2>1. /\ ~TransferUsed /\ ~BridgeSent /\ ~RefundSent /\ ~DepositSent
          /\ \/ pay.status = "paying_wallet"
             \/ pay.status = "needs_review" /\ pay.parked = "paying_wallet" /\ ~pay.safe
      BY <1>1, <1>6 DEF OnceInv, Send, At, OperatorSafe, OneWay
    <2>2. ~BridgeSent' /\ ~DepositSent' /\ ~TransferUsed'
      BY <1>2, <1>4, <1>6, <2>1 DEF BridgeSent, DepositSent, Sent
    <2>3. OneWay'
      BY <1>2, <2>1, <2>2 DEF OneWay, RefundSent, Sent
    <2>4. RowSafe(pay)'
      <3>1. Locked(pay)'
        BY <1>2, <2>1, <2>2 DEF Locked
      <3>2. Calm(pay)'
        BY <1>1, <1>2, <2>1 DEF RowSafe, Calm, Quiet, Early
      <3> QED
        BY <1>4, <3>1, <3>2 DEF RowSafe
    <2>5. ASSUME NEW u \in Tickers
          PROVE  TickerSafe(thread[u], pay)'
      <3>1. TickerSafe(thread[u], pay) /\ thread'[u] = thread[u]
        BY <1>3, <1>6, PayoutAssumption DEF OnceInv, Threads
      <3>2. thread[u].pc \notin {"withdrawn", "request"}
        BY <2>1, <3>1 DEF TickerSafe
      <3> QED
        BY <1>2, <1>4, <3>1, <3>2 DEF TickerSafe
    <2>6. \A u \in Operators : OperatorSafe(thread[u], pay)'
      BY <1>3, <1>6 DEF Only, At, OperatorSafe, Idle, Threads
    <2> QED
      BY <2>3, <2>4, <2>5, <2>6 DEF Once
  <1> QED
    BY <1>5, <1>6 DEF Threads, Send, At, OnceInv, TickerSafe, OperatorSafe

\* The company's transfer is asked of the bank: a new reference, with nothing alive.
LEMMA RequestOnce ==
    ASSUME PayoutInv, OnceInv, TypeOK', NEW t \in Threads, Only(t), Request(t)
    PROVE  Once'
  <1> DEFINE ref == thread[t].row.gen
             sent == [bank EXCEPT ![ref] = IF @ = "none" THEN "pending" ELSE @]
  <1>1. TypeOK /\ OneWay /\ RowSafe(pay)
    BY DEF PayoutInv, OnceInv
  <1>2. t \in Tickers /\ TickerSafe(thread[t], pay) /\ thread[t].pc = "request" /\ tx' = tx
    BY TickerAt DEF Request, At
  <1>3. /\ pay.status = "paying_company" /\ pay.venue = "company"
        /\ pay.ref = ref /\ bank[ref] = "none" /\ ref \in Refs
        /\ pay.attempts # 0 /\ (TransferUsed => pay.attempts = 2)
        /\ ~Alive /\ ~pay.safe /\ ~RefundSent /\ ~BridgeSent
    BY <1>1, <1>2 DEF TickerSafe, RowSafe, Locked, Calm, Moving, TypeOK, Thread, Row
  <1>4. \A safe \in BOOLEAN : Park(t, "paying_company", safe) => Keeps
    <2>1. ASSUME NEW safe \in BOOLEAN, Park(t, "paying_company", safe)
          PROVE  Keeps
      <3>1. "paying_company" \in Moving /\ "paying_company" \notin Quiet
            /\ "paying_company" \notin Early
        BY DEF Moving, Quiet, Early
      <3>2. RowSafe(pay') /\ Slides
        BY <1>1, <1>2, <1>3, <2>1, <3>1, ParkSafe
      <3> QED
        BY <1>1, <1>2, <2>1, <3>2, TickerStops DEF Park
    <2> QED
      BY <2>1
  <1>5. CASE bank' = bank /\ Keeps
    BY <1>1, <1>2, <1>5, CoolKeeps DEF Cools, Once
  <1>6. CASE /\ bank' = sent
             /\ \/ pay' = pay /\ On(t, "accepted")
                \/ Park(t, "paying_company", FALSE)
    <2>1. bank'[ref] = "pending" /\ \A r \in Refs : r # ref => bank'[r] = bank[r]
      BY <1>1, <1>3, <1>6 DEF TypeOK
    <2>2. TransferUsed'
      BY <1>3, <2>1 DEF TransferUsed
    <2>3. /\ ~RefundSent' /\ ~BridgeSent'
          /\ DepositSent' => DepositSent
      BY <1>2, <1>3 DEF RefundSent, BridgeSent, DepositSent, Sent
    <2>4. OneWay'
      BY <1>1, <1>3, <2>3 DEF OneWay, RefundSent
    <2>5. /\ pay'.venue = "company" /\ pay'.ref = ref /\ pay'.gen = pay.gen
          /\ pay'.attempts = pay.attempts /\ pay'.transfer = pay.transfer /\ ~pay'.safe
          /\ \/ pay'.status = "paying_company"
             \/ pay'.status = "needs_review" /\ pay'.parked = "paying_company"
      <3>1. CASE pay' = pay
        BY <1>3, <3>1
      <3>2. CASE pay' = [pay EXCEPT !.status = "needs_review", !.parked = "paying_company",
                                    !.safe = FALSE]
        BY <1>1, <1>3, <3>2 DEF TypeOK, Row
      <3> QED
        BY <1>6, <3>1, <3>2 DEF Park, Move
    <2>6. RowSafe(pay)'
      <3>1. \A r \in Refs : ~LiveTransfer(r)
        BY <1>3 DEF Alive
      <3>2. Books(pay)'
        <4>1. /\ ref \in Int /\ pay'.attempts # 0 /\ pay'.ref <= pay'.gen
              /\ pay'.transfer # 0 => pay'.transfer = pay'.ref /\ TransferUsed'
          BY <1>1, <1>3, <2>2, <2>5 DEF RowSafe, Books, Refs
        <4>2. \A r \in Refs : /\ bank'[r] # "none" => r <= pay'.ref
                              /\ LiveTransfer(r)' => r = pay'.ref
          BY <1>1, <1>3, <2>1, <2>5, <3>1, <4>1 DEF RowSafe, Books, LiveTransfer
        <4> QED
          BY <2>5, <4>1, <4>2 DEF Books, Early
      <3>3. Locked(pay)' /\ Calm(pay)'
        BY <1>3, <2>3, <2>5 DEF Locked, Calm, Quiet, Early
      <3> QED
        BY <3>2, <3>3 DEF RowSafe
    <2>7. /\ \A u \in Threads : u # t => thread'[u] = thread[u]
          /\ \/ thread'[t] = Idle
             \/ /\ thread'[t].pc = "accepted" /\ thread'[t].row = thread[t].row
                /\ pay' = pay
      BY <1>1, <1>6 DEF Park, Stop, On, Go, Goto, TypeOK
    <2>8. \A u \in Tickers : TickerSafe(thread[u], pay)'
      <3>1. TickerSafe(thread[t], pay)'
        BY <1>3, <2>1, <2>7 DEF TickerSafe, Idle
      <3> QED
        BY <1>2, <2>7, <3>1 DEF Only, At, TickerSafe, Threads
    <2>9. \A u \in Operators : OperatorSafe(thread[u], pay)'
      <3>1. \A u \in Operators : thread[u].pc = "idle"
        BY <1>3 DEF OnceInv, OperatorSafe
      <3> QED
        BY <1>2, <2>7, <3>1, PayoutAssumption DEF OperatorSafe, Threads
    <2> QED
      BY <2>4, <2>6, <2>8, <2>9 DEF Once
  <1>7. CASE bank' = bank /\ Park(t, "paying_company", TRUE)
    BY <1>4, <1>5, <1>7
  <1> QED
    BY <1>4, <1>5, <1>6, <1>7 DEF Request

\* A sale that was paid was funded, and stays funded by the same deposit.
LEMMA DepositsStay ==
    ASSUME TypeOK, LegsAreRight, SalesAreRight, [Next]_vars,
           NEW l \in Legs, l[1] = "deposit", tx[l] = "done"
    PROVE  tx'[l] = "done" /\ leg'[l].sale = leg[l].sale
  <1> USE DEF worldVars, rowVars
  <1>1. tx'[l] = "done"
    BY WorldGrows DEF Grows
  <1>2. CASE leg' = leg
    BY <1>1, <1>2
  <1>3. ASSUME NEW m \in Legs, NEW status, Ends(m, status)
        PROVE  leg'[l].sale = leg[l].sale
    BY <1>3 DEF Ends, TypeOK, Leg
  <1>4. ASSUME NEW m \in Legs \cup {NoLeg}, FailUnsent(m)
        PROVE  leg'[l].sale = leg[l].sale
    BY <1>3, <1>4, FailUnsentStays DEF FailUnsent, TypeOK
  <1>5. ASSUME NEW t \in Threads, Tick(t) \/ Transfer(t) \/ Operate(t) \/ Crash(t)
        PROVE  leg'[l].sale = leg[l].sale
    <2>1. ASSUME NEW m \in Legs,
                 ObservePending(t, m) \/ UnexpectedLeg(t, m) \/ ObserveWallet(t, m)
          PROVE  leg'[l].sale = leg[l].sale
      BY <1>2, <1>3, <2>1 DEF ObservePending, UnexpectedLeg, ObserveWallet, Observe
    <2>2. CASE Reserve(t)
      <3>1. ASSUME NEW m \in Legs, NEW new, Is(m, "none"), leg' = [leg EXCEPT ![m] = new]
            PROVE  leg'[l].sale = leg[l].sale
        <4>1. m # l
          BY <3>1 DEF LegsAreRight
        <4> QED
          BY <3>1, <4>1 DEF TypeOK
      <3> QED
        BY <1>2, <2>2, <3>1 DEF Reserve
    <2>3. CASE Approve(t)
      <3>1. thread[t].leg # l
        BY <2>3 DEF Approve
      <3> QED
        BY <2>3, <3>1 DEF Approve, TypeOK
    <2>4. CASE Claim(t) \/ SendRefused(t)
      <3>1. thread[t].leg \in Legs \cup {NoLeg}
        BY DEF TypeOK, Thread
      <3>2. leg' = leg \/ FailUnsent(thread[t].leg)
        BY <2>4 DEF Claim, SendRefused
      <3> QED
        BY <1>2, <1>4, <3>1, <3>2
    <2>5. CASE Send(t) \/ SaleOpened(t) \/ Request(t)
      BY <1>2, <2>5 DEF Send, SaleOpened, Request
    <2> QED
      BY <1>2, <1>5, <2>1, <2>2, <2>3, <2>4, <2>5, RowSteps DEF Tick, Transfer, Operate
  <1>6. CASE World \/ UNCHANGED vars
    <2>1. leg' = leg
      BY <1>6 DEF World, OrderEnds, ReleaseRecorded, FlagReversal, MarkRebalanced, Land, Lose,
             Settle, Lapse, Sync, BankAnswers, BankReverses, vars
    <2> QED
      BY <1>2, <2>1
  <1> QED
    BY <1>1, <1>5, <1>6 DEF Next

LEMMA PaidByFunding ==
    ASSUME TypeOK, [Next]_vars, NEW s \in Sales, desk'[s] = "paid", desk[s] # "paid"
    PROVE  FundedAt(s)
  <1> USE DEF worldVars, rowVars
  <1>1. CASE World
    <2>1. CASE OrderEnds \/ ReleaseRecorded \/ FlagReversal \/ MarkRebalanced
      BY <2>1 DEF OrderEnds, ReleaseRecorded, FlagReversal, MarkRebalanced
    <2>2. ASSUME NEW l \in Legs, Land(l) \/ Lose(l)
          PROVE  FundedAt(s)
      BY <2>2 DEF Land, Lose
    <2>3. ASSUME NEW r \in Sales, Settle(r) \/ Lapse(r) \/ Sync(r)
          PROVE  FundedAt(s)
      BY <2>3 DEF Settle, Lapse, Sync, TypeOK
    <2>4. ASSUME NEW r \in Refs, BankAnswers(r) \/ BankReverses(r)
          PROVE  FundedAt(s)
      BY <2>4 DEF BankAnswers, BankReverses
    <2> QED
      BY <1>1, <2>1, <2>2, <2>3, <2>4 DEF World
  <1>2. ASSUME NEW t \in Threads, Tick(t) \/ Transfer(t) \/ Operate(t) \/ Crash(t)
        PROVE  FundedAt(s)
    <2>1. CASE SaleOpened(t)
      BY <2>1 DEF SaleOpened, TypeOK
    <2>2. CASE Send(t) \/ Request(t)
      BY <2>2 DEF Send, Request
    <2> QED
      BY <1>2, <2>1, <2>2, RowSteps, LegSteps DEF Tick, Transfer, Operate
  <1>3. CASE UNCHANGED vars
    BY <1>3 DEF vars
  <1> QED
    BY <1>1, <1>2, <1>3 DEF Next

\* What is sent, landed, lost, answered or reversed only cools.
LEMMA WorldCools ==
    ASSUME TypeOK, World
    PROVE  Cools
  <1> USE DEF worldVars, rowVars
  <1>1. CASE UNCHANGED <<tx, bank>>
    BY <1>1 DEF Cools
  <1>2. ASSUME NEW l \in Legs, Land(l) \/ Lose(l)
        PROVE  Cools
    BY <1>2 DEF Land, Lose, Cools, TypeOK
  <1>3. ASSUME NEW r \in Refs, BankAnswers(r) \/ BankReverses(r)
        PROVE  Cools
    BY <1>3 DEF BankAnswers, BankReverses, Cools, TypeOK
  <1> QED
    BY <1>1, <1>2, <1>3
       DEF World, OrderEnds, ReleaseRecorded, FlagReversal, MarkRebalanced, Settle, Lapse, Sync

\* A thread that takes a step is at work, or starts.
LEMMA AtWork ==
    ASSUME NEW t \in Threads, Tick(t) \/ Transfer(t) \/ Operate(t) \/ Crash(t)
    PROVE  ~At(t, "idle") \/ Load(t) \/ LoadParked(t)
  <1>1. CASE Tick(t)
    BY <1>1 DEF Tick, LanesDisagree, AwaitRelease, AdvanceBridge, BridgeRefused, IsBridging,
           ObservePending, UnexpectedLeg, ObserveWallet, WalletOver, OpenSell, SaleRefused,
           Shortfall, SaleOpened, Opened, Withdrawn, RecoverSelling, AtDeposit, AdvanceDeposit,
           FollowSell, StartCompany, Request, RecordId, ObserveCompany, Approve,
           Landed, Funded, Holds, At
  <1>2. CASE Transfer(t) \/ Crash(t)
    BY <1>2 DEF Transfer, Reserve, Claim, Send, SendRefused, Crash, At
  <1>3. CASE Operate(t)
    BY <1>3 DEF Operate, Retry, RetryCompany, MarkPaid, Cancel, PayWallet, Reroute, Leave,
           WalletRefused, Holds, At
  <1> QED
    BY <1>1, <1>2, <1>3

\* Where no two of a kind are at work before or after a step, only the thread that takes
\* it is.
LEMMA OnlyAtWork ==
    ASSUME TypeOK, ~Overlap, ~Overlap', NEW t \in Threads,
           Tick(t) \/ Transfer(t) \/ Operate(t) \/ Crash(t)
    PROVE  Only(t)
  <1>1. CASE ~At(t, "idle")
    BY <1>1 DEF Overlap, Only
  <1>2. CASE Load(t) \/ LoadParked(t)
    <2>1. /\ ~At(t, "idle")'
          /\ \A u \in Threads : u # t => (At(u, "idle")' <=> At(u, "idle"))
      BY <1>2 DEF Load, LoadParked, Go, Goto, At, TypeOK
    <2> QED
      BY <2>1 DEF Overlap, Only, Threads
  <1> QED
    BY <1>1, <1>2, AtWork

LEMMA OnceStep ==
    ASSUME PayoutInv, TypeOK', OnceInv, ~Overlap, ~Overlap', [Next]_vars
    PROVE  OnceInv'
  <1>1. TypeOK /\ OneWay
    BY DEF PayoutInv, OnceInv
  <1>2. PaidIsFunded'
    <2>1. ASSUME NEW s \in Sales, desk'[s] = "paid"
          PROVE  FundedAt(s)'
      <3>1. FundedAt(s)
        BY <1>1, <2>1, PaidByFunding DEF OnceInv, PaidIsFunded
      <3>2. PICK l \in Legs : l[1] = "deposit" /\ leg[l].sale = s /\ tx[l] = "done"
        BY <3>1 DEF FundedAt
      <3> QED
        BY <3>2, DepositsStay DEF PayoutInv, FundedAt
    <2> QED
      BY <2>1 DEF PaidIsFunded
  <1>3. Once'
    <2>1. ASSUME Keeps, Cools
          PROVE  Once'
      BY <1>1, <2>1, CoolKeeps DEF Once
    <2>2. CASE World
      BY <1>1, <2>1, <2>2, WorldKeeps, WorldCools
    <2>3. ASSUME NEW t \in Threads, Tick(t) \/ Transfer(t) \/ Operate(t) \/ Crash(t)
          PROVE  Once'
      <3>0. Only(t)
        BY <1>1, <2>3, OnlyAtWork
      <3>1. CASE Send(t)
        BY <3>1, <3>0, SendOnce
      <3>2. CASE Request(t)
        BY <3>2, <3>0, RequestOnce
      <3>3. CASE UNCHANGED <<tx, bank>> /\ Keeps
        BY <2>1, <3>3 DEF Cools
      <3>4. CASE SaleOpened(t)
        BY <3>3, <3>4, <3>0, SellKeeps DEF SaleOpened
      <3>5. CASE Reserve(t) \/ Claim(t) \/ SendRefused(t) \/ WalletRefused(t)
        <4>1. t \in Tickers \/ t \in Operators
          BY DEF Threads
        <4>2. Keeps
          BY <1>1, <3>5, <3>0, <4>1, TickerTransfers, OperatorTransfers
        <4> QED
          BY <3>3, <3>5, <4>2, RowSteps, LegSteps
      <3>6. CASE \/ LanesDisagree(t) \/ AwaitRelease(t) \/ BridgeRefused(t)
                 \/ Load(t) \/ AdvanceBridge(t) \/ Crash(t) \/ Approve(t)
                 \/ \E l \in Legs : ObservePending(t, l) \/ UnexpectedLeg(t, l)
        BY <1>1, <3>3, <3>6, <3>0, ReleaseKeeps, BridgeKeeps, CrashKeeps, RowSteps, LegSteps
      <3>7. CASE WalletOver(t) \/ Landed(t) \/ Funded(t) \/ \E l \in Legs : ObserveWallet(t, l)
        BY <3>3, <3>7, <3>0, WalletKeeps, RowSteps, LegSteps
      <3>8. CASE \/ OpenSell(t) \/ SaleRefused(t) \/ Shortfall(t) \/ Opened(t) \/ Withdrawn(t)
                 \/ RecoverSelling(t) \/ AdvanceDeposit(t) \/ FollowSell(t)
        BY <3>3, <3>8, <3>0, SellKeeps, DepositKeeps, RowSteps
      <3>9. CASE \/ StartCompany(t) \/ RecordId(t) \/ ObserveCompany(t)
                 \/ LoadParked(t) \/ Retry(t) \/ RetryCompany(t) \/ MarkPaid(t) \/ Cancel(t)
                 \/ PayWallet(t) \/ Reroute(t) \/ Leave(t)
        BY <3>3, <3>9, <3>0, CompanyKeeps, OperatorKeeps, RowSteps
      <3> QED
        BY <2>3, <3>1, <3>2, <3>4, <3>5, <3>6, <3>7, <3>8, <3>9 DEF Tick, Transfer, Operate
    <2>4. CASE UNCHANGED vars
      BY <2>1, <2>4 DEF vars, Keeps, Cools, OnceInv
    <2> QED
      BY <2>2, <2>3, <2>4 DEF Next
  <1> QED
    BY <1>2, <1>3 DEF Once, OnceInv

LEMMA AtMostOne ==
    ASSUME NEW S, \A x, y \in S : x = y
    PROVE  Cardinality(S) = IF S = {} THEN 0 ELSE 1
  <1>1. CASE S = {}
    BY <1>1, FS_EmptySet
  <1>2. CASE S # {}
    <2>1. PICK x \in S : TRUE
      BY <1>2
    <2>2. S = {x}
      BY <2>1
    <2> QED
      BY <1>2, <2>2, FS_Singleton
  <1> QED
    BY <1>1, <1>2

LEMMA OnceIsPaidOnce ==
    ASSUME PayoutInv, OnceInv
    PROVE  PaidOnce
  <1>1. FundedOnce
    BY DEF PayoutInv, TypeOK, LegsAreRight, OneDeposit, Live, Is, FundedOnce, Leg
  <1>2. \A s, r \in PaidSales : s = r
    BY <1>1 DEF PaidSales, OnceInv, PaidIsFunded, FundedAt, FundedOnce
  <1>3. \A r, g \in PaidTransfers : r = g
    BY DEF PaidTransfers, LiveTransfer, OnceInv, RowSafe, Books
  <1>4. \A l, m \in PaidRefunds : l = m
    BY DEF PaidRefunds, OnceInv, OneWay, Sent
  <1>5. PaidSales # {} => BridgeSent
    BY DEF PaidSales, OnceInv, PaidIsFunded, FundedAt, OneWay, DepositSent, Sent
  <1>6. PaidTransfers # {} => TransferUsed
    BY DEF PaidTransfers, TransferUsed
  <1>7. PaidRefunds # {} => RefundSent
    BY DEF PaidRefunds, RefundSent, Sent
  <1>8. ~(BridgeSent /\ TransferUsed) /\ ~(RefundSent /\ (BridgeSent \/ TransferUsed))
    BY DEF OnceInv, OneWay, RowSafe, Locked
  <1>9. /\ Cardinality(PaidSales) = IF PaidSales = {} THEN 0 ELSE 1
        /\ Cardinality(PaidTransfers) = IF PaidTransfers = {} THEN 0 ELSE 1
        /\ Cardinality(PaidRefunds) = IF PaidRefunds = {} THEN 0 ELSE 1
    BY <1>2, <1>3, <1>4, AtMostOne
  <1> QED
    BY <1>5, <1>6, <1>7, <1>8, <1>9 DEF PaidOnce

\* As long as no two processes are in a tick of the payout and no two operators in a
\* call about it: whatever way it takes, is parked and retried on, or is moved to, what
\* left for the bank or the wallet closes the other two ways (OneWay, Locked), and what
\* the rows note of it is enough to know (Books, Calm).
THEOREM OncePayment == Spec => ([]~Overlap => []OnceInv)
  <1>1. Init => OnceInv
    <2> SUFFICES ASSUME Init PROVE OnceInv
      OBVIOUS
    <2>1. \A l \in Legs : tx[l] = "none"
      BY DEF Init
    <2>2. \A r \in Refs : bank[r] = "none"
      BY DEF Init
    <2>3. \A s \in Sales : desk[s] = "none"
      BY DEF Init
    <2>4. ~BridgeSent /\ ~DepositSent /\ ~RefundSent /\ ~TransferUsed
      BY <2>1, <2>2 DEF BridgeSent, DepositSent, RefundSent, TransferUsed, Sent
    <2>5. OneWay /\ PaidIsFunded
      BY <2>1, <2>3, <2>4 DEF OneWay, PaidIsFunded, Sent
    <2>6. ~Alive
      BY <2>4, <2>5, AliveIs
    <2>7. RowSafe(pay)
      BY <2>2, <2>4, <2>6
         DEF Init, NewRow, RowSafe, Books, Locked, Calm, LiveTransfer
    <2>8. /\ \A t \in Tickers : TickerSafe(thread[t], pay)
          /\ \A t \in Operators : OperatorSafe(thread[t], pay)
      BY IdleIsSafe DEF Init, Threads
    <2> QED
      BY <2>5, <2>7, <2>8 DEF OnceInv
  <1>2. PayoutInv /\ TypeOK' /\ OnceInv /\ ~Overlap /\ ~Overlap' /\ [Next]_vars => OnceInv'
    BY OnceStep
  <1> QED
    BY <1>1, <1>2, PayoutInduction, PayoutTypes, PTL DEF Spec

\* The seller is paid once (PaidOnce), over every retry, reroute, reversal, payment to
\* the wallet and crash, whatever number of processes tick and of operators work at the
\* payout, unless two of a kind come to be at work on it together.  Spec lets the system
\* stop in any state, so the overlap comes before a second payment, not after it.
THEOREM SellersArePaidOnce == Spec => ([]PaidOnce \/ <>Overlap)
  <1>1. PayoutInv /\ OnceInv => PaidOnce
    BY OnceIsPaidOnce
  <1> QED
    BY <1>1, OncePayment, PayoutInduction, PTL

\* Unless two of a kind are at work on the payout together, a park that says the payout
\* is safe to retry is right (SafeParkIsSafe): nothing that was sent can still pay.
THEOREM SafeParksAreSafe == Spec => ([]SafeParkIsSafe \/ <>Overlap)
  <1>1. OnceInv => SafeParkIsSafe
    BY DEF OnceInv, RowSafe, Calm, SafeParkIsSafe
  <1> QED
    BY <1>1, OncePayment, PTL
=============================================================================
