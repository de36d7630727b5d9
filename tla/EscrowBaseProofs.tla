--------------------------- MODULE EscrowBaseProofs ---------------------------
(***************************************************************************)
(* Lemmas about the token movements and the owed counter that every escrow *)
(* action is composed of.  Solvency is measured by the surplus of a money   *)
(* record, what the escrow holds above what it owes; exactness by what is   *)
(* committed, what it owes above the payouts waiting to be claimed.         *)
(***************************************************************************)
EXTENDS EscrowBase, SumTheorems, TLAPS

\* A transfer the token accepts leaves a well-formed record.
LEMMA TransferredType ==
    ASSUME NEW t \in Tokens, NEW m \in Money, NEW from \in Holders,
           NEW to \in Holders, NEW amount \in Nat, CanTransfer(m, from, to, amount)
    PROVE  Transferred(t, m, from, to, amount) \in Money
<1>1. Received(t, amount) \in Nat
  BY BaseAssumption DEF Received
<1> QED
  BY <1>1 DEF Transferred, CanTransfer, Money

\* A pull that passes the exactness check adds the amount to the surplus.
LEMMA PullSurplus ==
    ASSUME NEW t \in Tokens, NEW m \in Money, NEW from \in Accounts,
           NEW amount \in Nat, CanPull(t, m, from, amount)
    PROVE  /\ Pull(t, m, from, amount) \in Money
           /\ Surplus(Pull(t, m, from, amount)) = Surplus(m) + amount
<1>1. from \in Holders /\ Self \in Holders /\ from # Self
  BY BaseAssumption DEF Holders
<1>2. Pull(t, m, from, amount) \in Money
  BY <1>1, TransferredType DEF Pull, CanPull
<1> QED
  BY <1>1, <1>2 DEF Pull, CanPull, Transferred, Surplus, Money

\* A push, delivered or deferred, costs the surplus at most its amount.
LEMMA PushSurplus ==
    ASSUME NEW t \in Tokens, NEW m \in Money, NEW to \in Holders, NEW amount \in Nat
    PROVE  /\ Push(t, m, to, amount) \in Money
           /\ Surplus(Push(t, m, to, amount)) >= Surplus(m) - amount
<1>1. Self \in Holders
  BY DEF Holders
<1>2. CASE CanTransfer(m, Self, to, amount)
  <2>1. Push(t, m, to, amount) = Transferred(t, m, Self, to, amount)
    BY <1>2 DEF Push
  <2>2. Transferred(t, m, Self, to, amount) \in Money
    BY <1>1, <1>2, TransferredType
  <2>3. Received(t, amount) \in Nat
    BY BaseAssumption DEF Received
  <2>4. Surplus(Transferred(t, m, Self, to, amount)) >= Surplus(m) - amount
    BY <1>1, <2>3 DEF Transferred, Surplus, Money
  <2> QED
    BY <2>1, <2>2, <2>4
<1>3. CASE ~CanTransfer(m, Self, to, amount)
  <2> DEFINE deferred == [m EXCEPT !.claimable[to] = @ + amount, !.owed = @ + amount]
  <2>1. Push(t, m, to, amount) = deferred
    BY <1>3 DEF Push
  <2>2. deferred \in Money /\ deferred.bal = m.bal /\ deferred.owed = m.owed + amount
    <3> DEFINE credited == [m.claimable EXCEPT ![to] = @ + amount]
    <3>1. credited \in [Holders -> Nat] /\ m.owed + amount \in Nat
      BY DEF Money
    <3>2. deferred = [m EXCEPT !.claimable = credited, !.owed = m.owed + amount]
      BY DEF Money
    <3> HIDE DEF credited, deferred
    <3> QED
      BY <3>1, <3>2 DEF Money
  <2>3. m.bal[Self] \in Int /\ m.owed \in Int
    BY <1>1 DEF Money
  <2> QED
    BY <2>1, <2>2, <2>3 DEF Surplus
<1> QED
  BY <1>2, <1>3

\* Taking an amount out of owed adds it to the surplus.
LEMMA SubOwedSurplus ==
    ASSUME NEW m \in Money, NEW amount \in Nat, CanSubOwed(m, amount)
    PROVE  /\ SubOwed(m, amount) \in Money
           /\ Surplus(SubOwed(m, amount)) = Surplus(m) + amount
  BY DEF SubOwed, CanSubOwed, Surplus, Money, Holders

\* Reserving an amount takes it from the surplus.
LEMMA AddOwedSurplus ==
    ASSUME NEW m \in Money, NEW amount \in Nat
    PROVE  /\ AddOwed(m, amount) \in Money
           /\ Surplus(AddOwed(m, amount)) = Surplus(m) - amount
  BY DEF AddOwed, Surplus, Money, Holders

\* The surplus of a record is an integer.
LEMMA SurplusType == ASSUME NEW m \in Money PROVE Surplus(m) \in Int
  BY DEF Surplus, Money, Holders

-----------------------------------------------------------------------------

\* Replacing one token's record by a richer one, or by one with no surplus left,
\* keeps the types and the surplus of every token.
LEMMA MoneyStep ==
    ASSUME money \in [Tokens -> Money], NEW t \in Tokens, NEW m \in Money,
           money' = [money EXCEPT ![t] = m],
           Surplus(m) >= Surplus(money[t]) \/ Surplus(m) = 0
    PROVE  money' \in [Tokens -> Money] /\ \A u \in Tokens : SurplusStep(u)
<1>1. \A u \in Tokens : money'[u] = IF u = t THEN m ELSE money[u]
  OBVIOUS
<1>2. \A u \in Tokens : Surplus(money[u]) \in Int
  BY SurplusType
<1>3. ASSUME NEW u \in Tokens PROVE SurplusStep(u)
  BY <1>1, <1>2 DEF SurplusStep
<1> QED
  BY <1>3

\* A step that leaves the money alone.
LEMMA MoneyStutter ==
    ASSUME money \in [Tokens -> Money], UNCHANGED money
    PROVE  money' \in [Tokens -> Money] /\ \A u \in Tokens : SurplusStep(u)
<1>1. \A u \in Tokens : Surplus(money[u]) \in Int
  BY SurplusType
<1> QED
  BY <1>1 DEF SurplusStep

\* The calls every escrow offers, and the world around it, keep the types and
\* the surplus; a rescue leaves a surplus of 0.
LEMMA BaseStep ==
    ASSUME BaseTypeOK, ConfigTypeOK, BaseNext
    PROVE  BaseTypeOK' /\ \A u \in Tokens : SurplusStep(u)
<1> USE DEF BaseTypeOK
<1>0. Accounts \subseteq Holders /\ Self \in Holders /\ Self \notin Accounts
  BY BaseAssumption DEF Holders
<1>1. ASSUME NEW t \in Tokens, NEW account \in Accounts, NEW to \in Callers,
             Claim(t, account, to)
      PROVE  BaseTypeOK' /\ \A u \in Tokens : SurplusStep(u)
  <2> DEFINE amount == money[t].claimable[account]
             cleared == [money[t] EXCEPT !.claimable[account] = 0]
             freed == SubOwed(cleared, amount)
             paid == Transferred(t, freed, Self, to, amount)
  <2>1. amount \in Nat /\ cleared \in Money /\ to \in Accounts
    BY <1>0, BaseAssumption DEF Money
  <2>2. Surplus(cleared) = Surplus(money[t]) /\ CanSubOwed(cleared, amount)
    BY <1>0, <1>1 DEF Claim, Surplus, Money, CanSubOwed
  <2>3. freed \in Money /\ Surplus(freed) = Surplus(cleared) + amount
    BY <2>1, <2>2, SubOwedSurplus
  <2>4. CanTransfer(freed, Self, to, amount)
    BY <1>1 DEF Claim, CanTransfer, SubOwed, Money
  <2>5. paid = Push(t, freed, to, amount)
    BY <2>4 DEF Push
  <2> HIDE DEF freed, cleared, amount
  <2>6. paid \in Money /\ Surplus(paid) >= Surplus(freed) - amount
    BY <1>0, <2>1, <2>3, <2>5, PushSurplus
  <2>7. Surplus(paid) >= Surplus(money[t])
    BY <2>1, <2>2, <2>3, <2>6, SurplusType
  <2>8. money' = [money EXCEPT ![t] = paid]
    BY <1>1 DEF Claim, freed, cleared, amount
  <2> HIDE DEF paid
  <2> QED
    BY <1>1, <2>6, <2>7, <2>8, MoneyStep DEF Claim
<1>2. ASSUME NEW t \in Tokens, Rescue(t)
      PROVE  BaseTypeOK' /\ \A u \in Tokens : SurplusStep(u)
  <2> DEFINE excess == Surplus(money[t])
             rest == Transferred(t, money[t], Self, feeRecipient, excess)
  <2>1. excess \in Nat /\ CanTransfer(money[t], Self, feeRecipient, excess)
    BY <1>0, <1>2 DEF Rescue, Surplus, Money
  <2>2. feeRecipient \in Accounts
    BY DEF ConfigTypeOK
  <2>3. rest \in Money
    BY <1>0, <2>1, <2>2, TransferredType
  <2>4. Surplus(rest) = 0
    BY <1>0, <2>1, <2>2 DEF Transferred, Surplus, Money
  <2>5. money' = [money EXCEPT ![t] = rest]
    BY <1>2 DEF Rescue, Surplus
  <2> HIDE DEF rest
  <2> QED
    BY <1>2, <2>3, <2>4, <2>5, MoneyStep DEF Rescue
<1>3. CASE Pause \/ Unpause
  BY <1>3, MoneyStutter DEF Pause, Unpause
<1>4. ASSUME NEW t \in Tokens, NEW from \in Callers, NEW amount \in DonationSizes,
             Donate(t, from, amount)
      PROVE  BaseTypeOK' /\ \A u \in Tokens : SurplusStep(u)
  <2> DEFINE given == Transferred(t, money[t], from, Self, amount)
  <2>1. from \in Accounts /\ amount \in Nat
    BY BaseAssumption
  <2>2. given \in Money
    BY <1>0, <1>4, <2>1, TransferredType DEF Donate
  <2>3. Received(t, amount) \in Nat
    BY <2>1, BaseAssumption DEF Received
  <2>4. Surplus(given) >= Surplus(money[t])
    BY <1>0, <2>1, <2>3 DEF Transferred, Surplus, Money
  <2>5. money' = [money EXCEPT ![t] = given]
    BY <1>4 DEF Donate
  <2> HIDE DEF given
  <2> QED
    BY <1>4, <2>2, <2>4, <2>5, MoneyStep DEF Donate
<1>5. ASSUME NEW t \in Tokens, NEW account \in Blockable, NEW value \in BOOLEAN,
             SetBlacklisted(t, account, value)
      PROVE  BaseTypeOK' /\ \A u \in Tokens : SurplusStep(u)
  <2> DEFINE list == IF value THEN money[t].blocked \cup {account}
                              ELSE money[t].blocked \ {account}
             marked == [money[t] EXCEPT !.blocked = list]
  <2>1. list \subseteq Accounts
    BY BaseAssumption DEF Money
  <2>2. marked \in Money /\ Surplus(marked) = Surplus(money[t])
    BY <2>1 DEF Surplus, Money
  <2>3. money' = [money EXCEPT ![t] = marked] /\ UNCHANGED <<paused, now>>
    BY <1>5, Zenon DEF SetBlacklisted
  <2>4. Surplus(money[t]) \in Int
    BY SurplusType
  <2> HIDE DEF marked
  <2>5. Surplus(marked) >= Surplus(money[t])
    BY <2>2, <2>4
  <2> QED
    BY <2>2, <2>3, <2>5, MoneyStep
<1> QED
  BY <1>1, <1>2, <1>3, <1>4, <1>5 DEF BaseNext

\* None of them moves the clock.
LEMMA BaseKeepsNow == BaseNext => now' = now
<1>1. \A t \in Tokens, a \in Accounts, to \in Callers : Claim(t, a, to) => now' = now
  BY DEF Claim
<1>2. \A t \in Tokens : Rescue(t) => now' = now
  BY DEF Rescue
<1>3. Pause \/ Unpause => now' = now
  BY DEF Pause, Unpause
<1>4. \A t \in Tokens, a \in Callers, amount \in DonationSizes :
          Donate(t, a, amount) => now' = now
  BY DEF Donate
<1>5. \A t \in Tokens, a \in Blockable, value \in BOOLEAN :
          SetBlacklisted(t, a, value) => now' = now
  BY Zenon DEF SetBlacklisted
<1> QED
  BY <1>1, <1>2, <1>3, <1>4, <1>5 DEF BaseNext

\* The configuration's setters keep its types.
LEMMA ConfigStep ==
    ASSUME ConfigTypeOK, ConfigNext
    PROVE  ConfigTypeOK'
<1> USE DEF ConfigTypeOK
<1>1. ASSUME NEW batch \in RateBatches, SetRates(batch)
      PROVE  ConfigTypeOK'
  BY <1>1, ConfigAssumption DEF SetRates
<1>2. ASSUME NEW token \in Tokens, NEW l \in LimitChoices, SetLimits(token, l)
      PROVE  ConfigTypeOK'
  BY <1>2, ConfigAssumption DEF SetLimits
<1>3. ASSUME NEW recipient \in Recipients, SetFeeRecipient(recipient)
      PROVE  ConfigTypeOK'
  BY <1>3, ConfigAssumption DEF SetFeeRecipient
<1> QED
  BY <1>1, <1>2, <1>3 DEF ConfigNext

\* The initial states.
LEMMA ConfigStart == ConfigInit => ConfigTypeOK
  BY ConfigAssumption DEF ConfigInit, ConfigTypeOK, NoLimits, Limits

LEMMA BaseStart ==
    BaseInit => BaseTypeOK /\ \A t \in Tokens : Surplus(money[t]) = 0
<1> SUFFICES ASSUME BaseInit
             PROVE  BaseTypeOK /\ \A t \in Tokens : Surplus(money[t]) = 0
  OBVIOUS
<1>1. \A t \in Tokens : money[t] \in Money /\ Surplus(money[t]) = 0
  BY BaseAssumption DEF BaseInit, Money, Surplus, Holders
<1> QED
  BY <1>1 DEF BaseInit, BaseTypeOK

\* A step that keeps the surplus keeps the escrow solvent.
LEMMA SolventStep ==
    ASSUME BaseTypeOK, BaseTypeOK', Solvent, \A t \in Tokens : SurplusStep(t)
    PROVE  Solvent'
<1> SUFFICES ASSUME NEW t \in Tokens PROVE money'[t].owed <= money'[t].bal[Self]
  BY DEF Solvent
<1>1. /\ money[t].owed \in Nat /\ money[t].bal[Self] \in Nat
      /\ money'[t].owed \in Nat /\ money'[t].bal[Self] \in Nat
  BY DEF BaseTypeOK, Money, Holders
<1>2. money[t].owed <= money[t].bal[Self] /\ SurplusStep(t)
  BY DEF Solvent
<1> QED
  BY <1>1, <1>2 DEF SurplusStep, Surplus

-----------------------------------------------------------------------------
(* What is committed to positions: what is owed, less the payouts waiting to *)
(* be claimed.  Only the owed counter's own calls move it.                   *)

Committed(m) == m.owed - SumOver(m.claimable)

LEMMA HoldersFinite == IsFiniteSet(Holders)
  BY BaseAssumption, FS_AddElement DEF Holders

LEMMA CommittedType == ASSUME NEW m \in Money PROVE Committed(m) \in Int
<1>1. SumOver(m.claimable) \in Nat
  BY HoldersFinite, SumType DEF Money
<1> QED
  BY <1>1 DEF Committed, Money

LEMMA TransferredCommitted ==
    ASSUME NEW t \in Tokens, NEW m \in Money, NEW from \in Holders,
           NEW to \in Holders, NEW amount \in Nat
    PROVE  Committed(Transferred(t, m, from, to, amount)) = Committed(m)
  BY DEF Transferred, Committed, Money

LEMMA AddOwedCommitted ==
    ASSUME NEW m \in Money, NEW amount \in Nat
    PROVE  Committed(AddOwed(m, amount)) = Committed(m) + amount
<1>1. SumOver(m.claimable) \in Nat
  BY HoldersFinite, SumType DEF Money
<1>2. AddOwed(m, amount).owed = m.owed + amount
      /\ AddOwed(m, amount).claimable = m.claimable /\ m.owed \in Nat
  BY DEF AddOwed, Money
<1> QED
  BY <1>1, <1>2 DEF Committed

LEMMA SubOwedCommitted ==
    ASSUME NEW m \in Money, NEW amount \in Nat
    PROVE  Committed(SubOwed(m, amount)) = Committed(m) - amount
<1>1. SumOver(m.claimable) \in Nat
  BY HoldersFinite, SumType DEF Money
<1>2. SubOwed(m, amount).owed = m.owed - amount
      /\ SubOwed(m, amount).claimable = m.claimable /\ m.owed \in Nat
  BY DEF SubOwed, Money
<1> QED
  BY <1>1, <1>2 DEF Committed

\* A payout that cannot be delivered is owed again, in the same amount.
LEMMA PushCommitted ==
    ASSUME NEW t \in Tokens, NEW m \in Money, NEW to \in Holders, NEW amount \in Nat
    PROVE  Committed(Push(t, m, to, amount)) = Committed(m)
<1>1. CASE CanTransfer(m, Self, to, amount)
  BY <1>1, TransferredCommitted DEF Push, Holders
<1>2. CASE ~CanTransfer(m, Self, to, amount)
  <2> DEFINE before == m.claimable
             after == [m.claimable EXCEPT ![to] = m.claimable[to] + amount]
             pushed == Push(t, m, to, amount)
  <2>1. pushed.claimable = after /\ pushed.owed = m.owed + amount /\ m.owed \in Nat
    BY <1>2 DEF Push, Money
  <2>2. /\ before \in [Holders -> Int] /\ after \in [Holders -> Int]
        /\ after[to] = before[to] + amount /\ before[to] \in Int
        /\ \A x \in Holders : x # to => after[x] = before[x]
    BY DEF Money
  <2>3. SumOver(before) \in Nat
    BY HoldersFinite, SumType DEF Money
  <2> HIDE DEF before, after, pushed
  <2>4. SumOver(after) = SumOver(before) + after[to] - before[to]
    BY <2>2, HoldersFinite, SumChange
  <2>5. Committed(pushed) = pushed.owed - SumOver(pushed.claimable)
    BY DEF Committed
  <2>6. Committed(m) = m.owed - SumOver(before)
    BY DEF Committed, before
  <2> QED
    BY <2>1, <2>2, <2>3, <2>4, <2>5, <2>6 DEF pushed
<1> QED
  BY <1>1, <1>2

\* A claim pays out what it takes out of owed.
LEMMA ClearedCommitted ==
    ASSUME NEW m \in Money, NEW account \in Holders
    PROVE  LET cleared == [m EXCEPT !.claimable[account] = 0]
           IN  /\ cleared \in Money
               /\ Committed(cleared) = Committed(m) + m.claimable[account]
<1> DEFINE cleared == [m EXCEPT !.claimable[account] = 0]
           before == m.claimable
           after == [m.claimable EXCEPT ![account] = 0]
<1>1. cleared.claimable = after /\ cleared.owed = m.owed /\ m.owed \in Nat
  BY DEF Money
<1>2. /\ before \in [Holders -> Int] /\ after \in [Holders -> Int]
      /\ after[account] = 0 /\ before[account] \in Int
      /\ \A x \in Holders : x # account => after[x] = before[x]
  BY DEF Money
<1>3. SumOver(before) \in Nat
  BY HoldersFinite, SumType DEF Money
<1>4. cleared \in Money
  BY DEF Money
<1> HIDE DEF before, after
<1>5. SumOver(after) = SumOver(before) + after[account] - before[account]
  BY <1>2, HoldersFinite, SumChange
<1>6. Committed(cleared) = m.owed - SumOver(after)
  BY <1>1 DEF Committed
<1>7. Committed(m) = m.owed - SumOver(before)
  BY DEF Committed, before
<1>8. before[account] = m.claimable[account]
  BY DEF before
<1> HIDE DEF cleared
<1>9. Committed(cleared) = Committed(m) + m.claimable[account]
  BY <1>1, <1>2, <1>3, <1>5, <1>6, <1>7, <1>8
<1> QED
  BY <1>4, <1>9 DEF cleared

\* A step on one token's record that keeps what is committed in it.
CommitmentsKept == \A u \in Tokens : Committed(money'[u]) = Committed(money[u])

LEMMA MoneyKeepsCommitted ==
    ASSUME money \in [Tokens -> Money], NEW t \in Tokens, NEW m,
           money' = [money EXCEPT ![t] = m], Committed(m) = Committed(money[t])
    PROVE  CommitmentsKept
  BY DEF CommitmentsKept

\* The calls every escrow offers, and the world around it, commit nothing and
\* release nothing: a claim pays out what was waiting, and a rescue or a
\* donation moves what nobody is owed.
LEMMA BaseKeepsCommitted ==
    ASSUME BaseTypeOK, ConfigTypeOK, BaseNext
    PROVE  CommitmentsKept
<1> USE DEF BaseTypeOK
<1>0. Accounts \subseteq Holders /\ Self \in Holders /\ Self \notin Accounts
  BY BaseAssumption DEF Holders
<1>1. ASSUME NEW t \in Tokens, NEW account \in Accounts, NEW to \in Callers,
             Claim(t, account, to)
      PROVE  CommitmentsKept
  <2> DEFINE amount == money[t].claimable[account]
             cleared == [money[t] EXCEPT !.claimable[account] = 0]
             freed == SubOwed(cleared, amount)
             paid == Transferred(t, freed, Self, to, amount)
  <2>1. amount \in Nat /\ cleared \in Money /\ to \in Accounts
    BY <1>0, BaseAssumption DEF Money
  <2>2. Committed(cleared) = Committed(money[t]) + amount
    BY <1>0, ClearedCommitted
  <2>3. CanSubOwed(cleared, amount)
    BY <1>0, <1>1 DEF Claim, Money, CanSubOwed
  <2>4. money' = [money EXCEPT ![t] = paid]
    BY <1>1 DEF Claim
  <2> HIDE DEF cleared, amount
  <2>5. freed \in Money /\ Committed(freed) = Committed(cleared) - amount
    BY <2>1, <2>3, SubOwedSurplus, SubOwedCommitted
  <2> HIDE DEF freed
  <2>6. Committed(paid) = Committed(freed)
    BY <1>0, <2>1, <2>5, TransferredCommitted
  <2> HIDE DEF paid
  <2>7. Committed(paid) = Committed(money[t])
    BY <2>1, <2>2, <2>5, <2>6, CommittedType
  <2> QED
    BY <2>4, <2>7, MoneyKeepsCommitted
<1>2. ASSUME NEW t \in Tokens, Rescue(t) PROVE CommitmentsKept
  <2> DEFINE excess == Surplus(money[t])
             rest == Transferred(t, money[t], Self, feeRecipient, excess)
  <2>1. excess \in Nat /\ feeRecipient \in Holders
    BY <1>0, <1>2 DEF Rescue, Surplus, Money, ConfigTypeOK
  <2>2. money' = [money EXCEPT ![t] = rest]
    BY <1>2 DEF Rescue, Surplus
  <2>3. Committed(rest) = Committed(money[t])
    BY <1>0, <2>1, TransferredCommitted
  <2> HIDE DEF rest
  <2> QED
    BY <2>2, <2>3, MoneyKeepsCommitted
<1>3. CASE Pause \/ Unpause
  BY <1>3 DEF Pause, Unpause, CommitmentsKept
<1>4. ASSUME NEW t \in Tokens, NEW from \in Callers, NEW amount \in DonationSizes,
             Donate(t, from, amount)
      PROVE  CommitmentsKept
  <2> DEFINE given == Transferred(t, money[t], from, Self, amount)
  <2>1. from \in Accounts /\ amount \in Nat
    BY BaseAssumption
  <2>2. Committed(given) = Committed(money[t])
    BY <1>0, <2>1, TransferredCommitted
  <2>3. money' = [money EXCEPT ![t] = given]
    BY <1>4 DEF Donate
  <2> HIDE DEF given
  <2> QED
    BY <2>2, <2>3, MoneyKeepsCommitted
<1>5. ASSUME NEW t \in Tokens, NEW account \in Blockable, NEW value \in BOOLEAN,
             SetBlacklisted(t, account, value)
      PROVE  CommitmentsKept
  <2> DEFINE list == IF value THEN money[t].blocked \cup {account}
                              ELSE money[t].blocked \ {account}
             marked == [money[t] EXCEPT !.blocked = list]
  <2>1. Committed(marked) = Committed(money[t])
    BY DEF Committed, Money
  <2>2. money' = [money EXCEPT ![t] = marked]
    BY <1>5, Zenon DEF SetBlacklisted
  <2> HIDE DEF marked
  <2> QED
    BY <2>1, <2>2, MoneyKeepsCommitted
<1> QED
  BY <1>1, <1>2, <1>3, <1>4, <1>5 DEF BaseNext

\* At the start nothing is owed and nothing waits.
LEMMA NothingCommitted == BaseInit => \A t \in Tokens : Committed(money[t]) = 0
<1> SUFFICES ASSUME BaseInit, NEW t \in Tokens PROVE Committed(money[t]) = 0
  OBVIOUS
<1>1. money[t].owed = 0 /\ money[t].claimable \in [Holders -> {0}]
  BY DEF BaseInit
<1>2. SumOver(money[t].claimable) = 0
  BY <1>1, HoldersFinite, SumZero
<1> QED
  BY <1>1, <1>2 DEF Committed

-----------------------------------------------------------------------------
(* What an account has: its wallet, and the payouts it may still collect.    *)

Held(m, a) == m.bal[a] + m.claimable[a]

\* A pull of something lets only a token through that skims nothing.
LEMMA PulledWhole ==
    ASSUME NEW t \in Tokens, NEW m, NEW from, NEW amount \in Nat \ {0},
           CanPull(t, m, from, amount)
    PROVE  Skim[t] = 0
  BY BaseAssumption DEF CanPull, Received

\* A push, delivered or deferred, makes the payee richer by exactly its amount
\* and no other account by anything, when the token skims nothing.
LEMMA PushHeld ==
    ASSUME NEW t \in Tokens, Skim[t] = 0, NEW m \in Money, NEW to \in Holders,
           NEW amount \in Nat, NEW a \in Accounts
    PROVE  Held(Push(t, m, to, amount), a) =
              Held(m, a) + IF a = to THEN amount ELSE 0
<1>1. Received(t, amount) = amount
  BY DEF Received
<1>2. a # Self /\ a \in Holders /\ to \in Holders /\ Self \in Holders
  BY BaseAssumption DEF Holders
<1>3. m.bal[a] \in Nat /\ m.claimable[a] \in Nat
  BY <1>2 DEF Money
<1>4. CASE CanTransfer(m, Self, to, amount)
  <2> DEFINE pushed == Push(t, m, to, amount)
  <2>1. /\ pushed.claimable = m.claimable
        /\ pushed.bal[a] = m.bal[a] + IF a = to THEN amount ELSE 0
    BY <1>1, <1>2, <1>4 DEF Push, Transferred, Money
  <2> HIDE DEF pushed
  <2> QED
    BY <1>3, <2>1 DEF Held, pushed
<1>5. CASE ~CanTransfer(m, Self, to, amount)
  <2> DEFINE pushed == Push(t, m, to, amount)
  <2>1. /\ pushed.bal = m.bal
        /\ pushed.claimable = [m.claimable EXCEPT ![to] = m.claimable[to] + amount]
    BY <1>5 DEF Push, Money
  <2>2. pushed.claimable[a] = m.claimable[a] + IF a = to THEN amount ELSE 0
    BY <1>2, <1>3, <2>1 DEF Money
  <2> HIDE DEF pushed
  <2> QED
    BY <1>3, <2>1, <2>2 DEF Held, pushed
<1> QED
  BY <1>4, <1>5

LEMMA SubOwedHeld ==
    ASSUME NEW m \in Money, NEW amount, NEW a
    PROVE  Held(SubOwed(m, amount), a) = Held(m, a)
  BY DEF SubOwed, Held, Money

LEMMA HeldType ==
    ASSUME NEW m \in Money, NEW a \in Accounts PROVE Held(m, a) \in Nat
  BY DEF Held, Money, Holders

=============================================================================
