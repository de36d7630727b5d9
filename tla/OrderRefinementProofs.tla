------------------------ MODULE OrderRefinementProofs ------------------------
(***************************************************************************)
(* OrderEscrow implements OrderLife for every order, for every value of    *)
(* the constants.  The refinement needs the phases of OrderEscrowProofs:   *)
(* that an order which waits for a deadline has it set.                    *)
(***************************************************************************)
EXTENDS OrderRefinement, OrderEscrowProofs

LEMMA LivesBeginAtOnce == Init => LivesBegin
<1> SUFFICES ASSUME Init, NEW k \in Keys PROVE Life(k)!LifeInit
  BY DEF LivesBegin
<1> QED
  BY DEF Init, Life!LifeInit, NoOrder, ClockOf, Life!Deadlines

\* An order nobody writes sees at most its deadlines pass.
LEMMA TimePassesForIt ==
    ASSUME TypeOK, NEW k \in Keys, orders'[k] = orders[k], now' \in Nat, now' >= now
    PROVE  [Life(k)!LifeNext]_(Life(k)!lifeVars)
<1> DEFINE o == orders[k]
           D == {d \in {"deliver", "confirm", "resolve"} :
                    ClockOf(o)[d] = "running" /\ now' > DeadlineOf(o, d)}
<1>1. CASE o = NoOrder
  BY <1>1 DEF ClockOf, Life!lifeVars
<1>2. CASE o # NoOrder
  <2>1. o \in Order /\ now \in Nat
    BY <1>2 DEF TypeOK, BaseTypeOK
  <2>2. \A d \in {"deliver", "confirm", "resolve"} : DeadlineOf(o, d) \in Nat
    BY <2>1 DEF Order, DeadlineOf
  <2>3. ClockOf(o)' = [d \in {"deliver", "confirm", "resolve"} |->
                         IF d \in D THEN "passed" ELSE ClockOf(o)[d]]
    BY <1>2, <2>1, <2>2 DEF ClockOf, ClockAt
  <2>4. CASE D = {}
    <3>1. ClockOf(o)' = ClockOf(o)
      BY <2>3, <2>4 DEF ClockOf
    <3> QED
      BY <3>1 DEF Life!lifeVars
  <2>5. CASE D # {}
    <3>1. D \in SUBSET {d \in Life(k)!Deadlines : Life(k)!Running(d)}
      BY DEF Life!Deadlines, Life!Running
    <3>2. Life(k)!TimePasses
      BY <2>3, <2>5, <3>1 DEF Life!TimePasses, Life!Deadlines
    <3> QED
      BY <3>2 DEF Life!LifeNext
  <2> QED
    BY <2>4, <2>5
<1> QED
  BY <1>1, <1>2

\* A record whose deadlines are written is read back as its clock.
LEMMA ClockWritten ==
    ASSUME NEW o \in Order, NEW d \in {"deliver", "confirm", "resolve"}
    PROVE  ClockOf(o)[d] = ClockAt(DeadlineOf(o, d)) /\ DeadlineOf(o, d) \in Nat
<1>1. o # NoOrder
  BY DEF Order, NoOrder, OpenStates, FinalStates
<1> QED
  BY <1>1 DEF ClockOf, Order, DeadlineOf

\* The written order takes a step of its life.
LEMMA WrittenLives ==
    ASSUME TypeOK, AllPhased, NEW k \in Keys, NEW r \in Order,
           orders'[k] = r, now' = now, Written(k, r)
    PROVE  Life(k)!LifeNext
<1> DEFINE o == orders[k]
           D == {"deliver", "confirm", "resolve"}
<1> USE DEF Life!Deadlines, Life!Running, Life!Passed, Life!Start
<1>1. /\ now \in Nat /\ CONFIRM_WINDOW \in Nat \ {0} /\ DISPUTE_BACKSTOP \in Nat \ {0}
      /\ r.deliverBy \in Nat /\ r.confirmBy \in Nat /\ r.resolveBy \in Nat
  BY OrderAssumption DEF TypeOK, BaseTypeOK, Order
<1>2. ClockOf(o)' = [d \in D |-> ClockAt(DeadlineOf(r, d))]
  <2>1. r # NoOrder
    BY DEF Order, NoOrder, OpenStates, FinalStates
  <2> QED
    BY <2>1 DEF ClockOf, ClockAt
<1>3. CASE Created(k, r)
  <2>1. o.state = "None" /\ ClockOf(o) = [d \in D |-> "unset"]
    BY <1>3 DEF Created, NoOrder, ClockOf
  <2>2. ClockOf(o)' = [ClockOf(o) EXCEPT !["deliver"] = "running"]
    BY <1>1, <1>2, <1>3, <2>1 DEF Created, ClockAt, DeadlineOf
  <2> QED
    BY <1>3, <2>1, <2>2 DEF Created, Life!Create, Life!LifeNext
<1>4. ASSUME Marked(k, r) \/ Contested(k, r) \/ EndedBy(k, r)
      PROVE  /\ o \in Order /\ Phased(o, Buyer(k))
             /\ o.deliverBy \in Nat /\ o.confirmBy \in Nat /\ o.resolveBy \in Nat
             /\ ClockOf(o) = [d \in D |-> ClockAt(DeadlineOf(o, d))]
  <2>0. o.state \in {"Funded", "Delivered", "Disputed"}
    BY <1>4 DEF Marked, Contested, EndedBy, MayEnd, FinalStates
  <2>1. o # NoOrder
    BY <2>0 DEF NoOrder
  <2>2. o \in Order /\ Phased(o, Buyer(k))
    BY <2>1 DEF AllPhased, TypeOK
  <2> QED
    BY <2>1, <2>2 DEF Order, ClockOf
<1>5. CASE Marked(k, r)
  <2>1. /\ r.state = "Delivered" /\ r.confirmBy = now + CONFIRM_WINDOW
        /\ r.deliverBy = o.deliverBy /\ r.resolveBy = o.resolveBy
    BY <1>4, <1>5 DEF Marked, Order
  <2>2. ClockOf(o)' = [ClockOf(o) EXCEPT !["confirm"] = "running"]
    BY <1>1, <1>2, <1>4, <1>5, <2>1 DEF ClockAt, DeadlineOf
  <2>3. o.state = "Funded" /\ ClockOf(o)["deliver"] = "running"
    BY <1>1, <1>4, <1>5 DEF Marked, Phased, ClockAt, DeadlineOf
  <2> QED
    BY <2>1, <2>2, <2>3 DEF Life!Deliver, Life!LifeNext
<1>6. CASE Contested(k, r)
  <2>1. /\ r.state = "Disputed" /\ r.resolveBy = now + DISPUTE_BACKSTOP
        /\ r.deliverBy = o.deliverBy /\ r.confirmBy = o.confirmBy
    BY <1>4, <1>6 DEF Contested, Order
  <2>2. ClockOf(o)' = [ClockOf(o) EXCEPT !["resolve"] = "running"]
    BY <1>1, <1>2, <1>4, <1>6, <2>1 DEF ClockAt, DeadlineOf
  <2>3. o.state = "Delivered" /\ ClockOf(o)["confirm"] = "running"
    BY <1>1, <1>4, <1>6 DEF Contested, Phased, ClockAt, DeadlineOf
  <2> QED
    BY <2>1, <2>2, <2>3 DEF Life!RaiseOnChain, Life!LifeNext
<1>7. CASE EndedBy(k, r)
  <2>1. PICK by \in Accounts, state \in FinalStates :
            /\ MayEnd(o, Buyer(k), by, state)
            /\ r = [o EXCEPT !.state = state, !.endedBy = by]
    BY <1>7 DEF EndedBy
  <2>2. /\ r.state = state /\ r.deliverBy = o.deliverBy
        /\ r.confirmBy = o.confirmBy /\ r.resolveBy = o.resolveBy
    BY <1>4, <1>7, <2>1 DEF Order
  <2>3. ClockOf(o)' = ClockOf(o)
    BY <1>2, <1>4, <1>7, <2>2 DEF DeadlineOf
  <2>4. /\ o.state = "Funded" /\ now > o.deliverBy => ClockOf(o)["deliver"] = "passed"
        /\ o.state = "Delivered" /\ now > o.confirmBy => ClockOf(o)["confirm"] = "passed"
        /\ o.state = "Disputed" /\ now > o.resolveBy => ClockOf(o)["resolve"] = "passed"
    BY <1>1, <1>4, <1>7 DEF Phased, ClockAt, DeadlineOf
  <2> QED
    BY <2>1, <2>2, <2>3, <2>4
    DEF MayEnd, Life!Confirm, Life!SellerCancel, Life!Timeout, Life!TimeoutDue,
        Life!Decide, Life!LifeNext
<1> QED
  BY <1>3, <1>5, <1>6, <1>7 DEF Written

LEMMA EveryStepLives == TypeOK /\ AllPhased /\ [Next]_vars => LivesGoOn
<1> SUFFICES ASSUME TypeOK, AllPhased, [Next]_vars, NEW k \in Keys
             PROVE  [Life(k)!LifeNext]_(Life(k)!lifeVars)
  BY DEF LivesGoOn
<1>1. TypeOK' /\ now \in Nat
  BY StepSafe DEF Safe, TypeOK, BaseTypeOK
<1>2. CASE orders'[k] = orders[k] /\ now' \in Nat /\ now' >= now
  BY <1>2, TimePassesForIt
<1>3. ASSUME NEW j \in Keys, NEW r, orders' = [orders EXCEPT ![j] = r], Written(j, r),
             now' = now
      PROVE  [Life(k)!LifeNext]_(Life(k)!lifeVars)
  <2>1. CASE k # j
    <3>1. orders'[k] = orders[k]
      BY <1>3, <2>1 DEF TypeOK
    <3> QED
      BY <1>1, <1>3, <3>1, <1>2
  <2>2. CASE k = j
    <3>1. orders'[k] = r /\ r \in Order
      <4>1. orders'[k] = r
        BY <1>3, <2>2 DEF TypeOK
      <4>2. CASE Created(k, r)
        BY <1>1, <4>1, <4>2 DEF TypeOK, Created, NoOrder
      <4>3. CASE Marked(k, r) \/ Contested(k, r) \/ EndedBy(k, r)
        <5>1. orders[k].state \in OpenStates
          BY <4>3 DEF Marked, Contested, EndedBy, MayEnd, OpenStates
        <5>2. orders[k] \in Order
          BY <5>1 DEF TypeOK, NoOrder, OpenStates
        <5>3. r.state # "None"
          BY <4>3, <5>2 DEF Marked, Contested, EndedBy, FinalStates, Order
        <5> QED
          BY <1>1, <4>1, <5>3 DEF TypeOK, NoOrder
      <4> QED
        BY <1>3, <2>2, <4>2, <4>3 DEF Written
    <3>2. Life(k)!LifeNext
      BY <1>3, <2>2, <3>1, WrittenLives
    <3> QED
      BY <3>2
  <2> QED
    BY <2>1, <2>2
<1> QED
  BY <1>1, <1>2, <1>3, OrdersStep DEF TypeOK

\* Every transaction, every tick of the clock and every configuration change is,
\* for each order, one step of OrderLife or none: OrderEscrow implements it.
THEOREM OrdersLive == Spec => EachOrderIsALife
<1> QED
  BY LivesBeginAtOnce, EveryStepLives, TypeCorrect, PhasedAlways, PTL
  DEF Spec, EachOrderIsALife
=============================================================================
