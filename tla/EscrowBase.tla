------------------------------ MODULE EscrowBase ------------------------------
(***************************************************************************)
(* contracts/core/EscrowBase.sol: what every escrow shares.  The money in  *)
(* one token is a record: the token contract's balances, the accounts it   *)
(* refuses transfers to or from (a stablecoin blacklist), what it skims    *)
(* off each transfer (0 for a plain ERC-20), and this escrow's own         *)
(* obligations in it.  An escrow call is one transaction, so each pull and *)
(* push is a function on that record and an action composes them.          *)
(***************************************************************************)
EXTENDS FeeConfig, Integers, FiniteSets

CONSTANTS
    Self,            \* the escrow's own address
    InitialBalance,  \* what each account holds of a token at the start
    Skim,            \* Skim[token]: what the token takes from every transfer
    DonationSizes,   \* sizes of stray transfers straight to the escrow
    Blockable,       \* accounts the token's issuer may blacklist
    Callers,         \* who sends the calls that anyone may send
    Horizon          \* bound: the last block timestamp explored

VARIABLES
    money,           \* money[token], see Money below
    paused,
    now              \* block.timestamp, in whole units of the windows; never 0

baseVars == <<money, paused, now>>

Holders == Accounts \cup {Self}

Money == [bal : [Holders -> Nat], blocked : SUBSET Accounts,
          owed : Nat, claimable : [Holders -> Nat]]

\* An address has 160 bits, so there are finitely many accounts.
ASSUME BaseAssumption ==
    /\ IsFiniteSet(Accounts)
    /\ Self \notin Accounts
    /\ InitialBalance \in Nat
    /\ Skim \in [Tokens -> Nat]
    /\ DonationSizes \subseteq Nat
    /\ Blockable \subseteq Accounts
    /\ Callers \subseteq Accounts
    /\ Horizon \in Nat

BaseTypeOK ==
    /\ money \in [Tokens -> Money]
    /\ paused \in BOOLEAN
    /\ now \in Nat

BaseInit ==
    /\ money = [t \in Tokens |->
                  [bal |-> [a \in Holders |-> IF a = Self THEN 0 ELSE InitialBalance],
                   blocked |-> {}, owed |-> 0, claimable |-> [a \in Holders |-> 0]]]
    /\ paused = FALSE
    /\ now = 1

-----------------------------------------------------------------------------
(* The token contract, as the escrow uses it. *)

Received(t, amount) == IF amount <= Skim[t] THEN 0 ELSE amount - Skim[t]

CanTransfer(m, from, to, amount) ==
    /\ from \notin m.blocked
    /\ to \notin m.blocked
    /\ amount <= m.bal[from]

Transferred(t, m, from, to, amount) ==
    LET debited == [m.bal EXCEPT ![from] = @ - amount]
    IN  [m EXCEPT !.bal = [debited EXCEPT ![to] = @ + Received(t, amount)]]

-----------------------------------------------------------------------------
(* Token movement inside the escrow. *)

\* _pull reverts unless exactly the amount arrived (no skimming token passes).
CanPullInexact(t, m, from, amount) == CanTransfer(m, from, Self, amount)
CanPull(t, m, from, amount) ==
    /\ CanTransfer(m, from, Self, amount)
    /\ Received(t, amount) = amount

Pull(t, m, from, amount) == Transferred(t, m, from, Self, amount)

\* _push never reverts: what cannot be delivered becomes claimable and is
\* owed again.  (An amount of 0 returns early; both branches leave m as it is.)
PushForgetsOwed(t, m, to, amount) ==
    IF CanTransfer(m, Self, to, amount)
    THEN Transferred(t, m, Self, to, amount)
    ELSE [m EXCEPT !.claimable[to] = @ + amount]
Push(t, m, to, amount) ==
    IF CanTransfer(m, Self, to, amount)
    THEN Transferred(t, m, Self, to, amount)
    ELSE [m EXCEPT !.claimable[to] = @ + amount, !.owed = @ + amount]

WithinOwedLimit(m, amount, maxOwed) == m.owed + amount <= maxOwed
AddOwed(m, amount) == [m EXCEPT !.owed = @ + amount]

\* Checked arithmetic: subtracting more than is owed reverts the call.
CanSubOwed(m, amount) == amount <= m.owed
SubOwedForgotten(m, amount) == m
SubOwed(m, amount) == [m EXCEPT !.owed = @ - amount]

-----------------------------------------------------------------------------
(* Calls every escrow offers. *)

Claim(t, account, to) ==
    LET amount == money[t].claimable[account]
        cleared == [money[t] EXCEPT !.claimable[account] = 0]
    IN  /\ amount # 0
        /\ CanSubOwed(money[t], amount)
        /\ CanTransfer(money[t], Self, to, amount)
        /\ money' = [money EXCEPT ![t] =
                        Transferred(t, SubOwed(cleared, amount), Self, to, amount)]
        /\ UNCHANGED <<paused, now>>

\* Mutant: it moves the whole balance.
RescueAll(t) ==
    /\ money[t].bal[Self] > 0
    /\ CanTransfer(money[t], Self, feeRecipient, money[t].bal[Self])
    /\ money' = [money EXCEPT ![t] =
                    Transferred(t, @, Self, feeRecipient, @.bal[Self])]
    /\ UNCHANGED <<paused, now>>

\* rescue (RESCUER_ROLE) moves only what is held above owed.
Rescue(t) ==
    LET excess == money[t].bal[Self] - money[t].owed
    IN  /\ money[t].bal[Self] > money[t].owed
        /\ CanTransfer(money[t], Self, feeRecipient, excess)
        /\ money' = [money EXCEPT ![t] = Transferred(t, @, Self, feeRecipient, excess)]
        /\ UNCHANGED <<paused, now>>

\* PAUSER_ROLE pauses; only the default admin unpauses.
Pause   == ~paused /\ paused' = TRUE /\ UNCHANGED <<money, now>>
Unpause == paused /\ paused' = FALSE /\ UNCHANGED <<money, now>>

-----------------------------------------------------------------------------
(* The world around the escrow. *)

Tick ==
    /\ now < Horizon
    /\ now' = now + 1
    /\ UNCHANGED <<money, paused>>

\* Anyone can send tokens straight to the escrow's address.
Donate(t, from, amount) ==
    /\ CanTransfer(money[t], from, Self, amount)
    /\ money' = [money EXCEPT ![t] = Transferred(t, @, from, Self, amount)]
    /\ UNCHANGED <<paused, now>>

\* The issuer blacklists an account, or lifts the blacklisting.
SetBlacklisted(t, account, value) ==
    /\ (account \in money[t].blocked) # value
    /\ money' = [money EXCEPT ![t].blocked =
                    IF value THEN @ \cup {account} ELSE @ \ {account}]
    /\ UNCHANGED <<paused, now>>

BaseNext ==
    \/ \E t \in Tokens, account \in Accounts, to \in Callers : Claim(t, account, to)
    \/ \E t \in Tokens : Rescue(t)
    \/ Pause
    \/ Unpause
    \/ \E t \in Tokens, from \in Callers, amount \in DonationSizes : Donate(t, from, amount)
    \/ \E t \in Tokens, account \in Blockable, value \in BOOLEAN :
            SetBlacklisted(t, account, value)

-----------------------------------------------------------------------------

\* The escrow holds at least what it owes, in every token (SECURITY.md:
\* "token.balanceOf(escrow) >= owed[token]").
Solvent == \A t \in Tokens : money[t].owed <= money[t].bal[Self]

\* What is held above the obligations never shrinks, except that a rescue takes
\* all of it: no settlement rounds in one party's favour at the cost of another
\* position, and no payout is made twice.
Surplus(m) == m.bal[Self] - m.owed
SurplusStep(t) ==
    \/ Surplus(money'[t]) >= Surplus(money[t])
    \/ Surplus(money'[t]) = 0
SurplusKept == [][\A t \in Tokens : SurplusStep(t)]_money

=============================================================================
