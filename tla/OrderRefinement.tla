--------------------------- MODULE OrderRefinement ---------------------------
(***************************************************************************)
(* Each order of the escrow lives the life OrderLife describes: every      *)
(* transaction is, for an order, one step of that life or nothing at all.  *)
(* OrderRecord builds the backend's database record on OrderLife, so this  *)
(* is what makes that model one of this contract.                          *)
(***************************************************************************)
EXTENDS OrderEscrow

\* What a deadline of an order means to it: 0 is a deadline not set.
ClockAt(deadline) ==
    IF deadline = 0 THEN "unset" ELSE IF now <= deadline THEN "running" ELSE "passed"

DeadlineOf(o, d) ==
    IF d = "deliver" THEN o.deliverBy ELSE IF d = "confirm" THEN o.confirmBy ELSE o.resolveBy

ClockOf(o) ==
    [d \in {"deliver", "confirm", "resolve"} |->
        IF o = NoOrder THEN "unset" ELSE ClockAt(DeadlineOf(o, d))]

Life(k) == INSTANCE OrderLife WITH state <- orders[k].state, clock <- ClockOf(orders[k])

LivesBegin == \A k \in Keys : Life(k)!LifeInit
LivesGoOn  == \A k \in Keys : [Life(k)!LifeNext]_(Life(k)!lifeVars)

\* Whatever the other orders, the money and the configuration do, an order
\* takes only the steps of OrderLife: Life(k)!LifeSpec for every order at once.
EachOrderIsALife == LivesBegin /\ [][LivesGoOn]_vars
=============================================================================
