------------------------------ MODULE OrderLife ------------------------------
(***************************************************************************)
(* What OrderEscrow promises about one order, money left out: the states   *)
(* it goes through and the three deadlines that move it on.  It is all the *)
(* backend knows of an order on the chain (services/escrow_service.go,     *)
(* OnChainOrder), so the database's record of an order is specified on top *)
(* of it (OrderRecord) and the contract is shown to implement it           *)
(* (OrderRefinement).                                                      *)
(***************************************************************************)

VARIABLES
    state,      \* getOrder(key).state
    clock       \* for each deadline: not set yet, still running, or passed

lifeVars == <<state, clock>>

OpenStates  == {"Funded", "Delivered", "Disputed"}
FinalStates == {"Released", "Refunded", "Resolved"}

Deadlines == {"deliver", "confirm", "resolve"}

LifeTypeOK ==
    /\ state \in {"None"} \cup OpenStates \cup FinalStates
    /\ clock \in [Deadlines -> {"unset", "running", "passed"}]

Passed(d)  == clock[d] = "passed"
Running(d) == clock[d] = "running"
Start(d)   == clock' = [clock EXCEPT ![d] = "running"]

LifeInit ==
    /\ state = "None"
    /\ clock = [d \in Deadlines |-> "unset"]

Create ==
    /\ state = "None"
    /\ state' = "Funded"
    /\ Start("deliver")

\* markDelivered: while the delivery deadline runs, and not after.
Deliver ==
    /\ state = "Funded" /\ Running("deliver")
    /\ state' = "Delivered"
    /\ Start("confirm")

RaiseOnChain ==
    /\ state = "Delivered" /\ Running("confirm")
    /\ state' = "Disputed"
    /\ Start("resolve")

\* The buyer's confirmReceipt, before or after delivery.
Confirm ==
    /\ state \in {"Funded", "Delivered"}
    /\ state' = "Released"
    /\ UNCHANGED clock

SellerCancel ==
    /\ state = "Funded"
    /\ state' = "Refunded"
    /\ UNCHANGED clock

\* claimTimeout settles the phase whose deadline has passed.
TimeoutDue ==
    \/ state = "Funded"    /\ Passed("deliver")
    \/ state = "Delivered" /\ Passed("confirm")
    \/ state = "Disputed"  /\ Passed("resolve")

Timeout ==
    /\ TimeoutDue
    /\ state' = IF state = "Delivered" THEN "Released" ELSE "Refunded"
    /\ UNCHANGED clock

Decide ==
    /\ state = "Disputed"
    /\ state' = "Resolved"
    /\ UNCHANGED clock

\* The windows are configured and the calls come at any time, so deadlines
\* that run together may pass in any order.
TimePasses ==
    \E D \in SUBSET {d \in Deadlines : Running(d)} :
        /\ D # {}
        /\ clock' = [d \in Deadlines |-> IF d \in D THEN "passed" ELSE clock[d]]
        /\ UNCHANGED state

LifeNext ==
    \/ Create \/ Deliver \/ RaiseOnChain \/ Confirm
    \/ SellerCancel \/ Timeout \/ Decide \/ TimePasses

LifeSpec == LifeInit /\ [][LifeNext]_lifeVars
=============================================================================
