------------------------------ MODULE FeeConfig ------------------------------
(***************************************************************************)
(* contracts/core/FeeConfig.sol: one per chain.  Fee rates per (feature,   *)
(* token), value limits per token, and the single fee recipient.  It holds *)
(* no funds; both escrows read it when a position is opened and, for the   *)
(* recipient alone, when one is settled.  Every setter is CONFIG_ROLE      *)
(* only, so the caller is left out.  UUPS upgrades are not modelled.       *)
(***************************************************************************)
EXTENDS Naturals

CONSTANTS
    Features,       \* fee feature keys: "order", "p2p_platform", "p2p_gas"
    Tokens,         \* token contracts, configured or not
    Accounts,       \* every address outside the escrow
    InitialRates,   \* rate rows given to initialize: [Features \X Tokens -> Rate]
    InitialLimits,  \* limits given to initialize: [Tokens -> Limits]
    RateBatches,    \* the batches setRates may be called with
    LimitChoices,   \* the limits setLimits may be called with
    Recipients      \* the addresses setFeeRecipient may be called with

VARIABLES
    rates,          \* rates[<<feature, token>>]
    limits,         \* limits[token]
    feeRecipient

configVars == <<rates, limits, feeRecipient>>

MAX_BPS == 1000     \* hard ceiling on any rate (10%)
BPS_DENOMINATOR == 10000

Rate   == [bps : Nat, flatFee : Nat, active : BOOLEAN]
Limits == [maxPerOrder : Nat, maxOwed : Nat]

NoLimits == [maxPerOrder |-> 0, maxOwed |-> 0]

\* rateFor and limitsFor revert for a row that was never configured.
RateConfigured(feature, token) == rates[<<feature, token>>].active
LimitsConfigured(token)        == limits[token].maxPerOrder # 0

\* The same rules guard initialize and the setters.
RateAllowed(r)   == r.bps <= MAX_BPS
LimitsAllowed(l) == l.maxPerOrder # 0 /\ l.maxOwed # 0

\* The fee on an amount: integer division, rounded down.
BpsOf(amount, bps) == (amount * bps) \div BPS_DENOMINATOR

ASSUME ConfigAssumption ==
    /\ InitialRates \in [Features \X Tokens -> {r \in Rate : RateAllowed(r)}]
    /\ InitialLimits \in [Tokens -> {l \in Limits : LimitsAllowed(l)} \cup {NoLimits}]
    /\ \A batch \in RateBatches : DOMAIN batch \subseteq Features \X Tokens
    /\ \A batch \in RateBatches : \A row \in DOMAIN batch : batch[row] \in Rate
    /\ LimitChoices \subseteq Limits
    /\ Recipients \subseteq Accounts

ConfigTypeOK ==
    /\ rates \in [Features \X Tokens -> Rate]
    /\ limits \in [Tokens -> Limits]
    /\ feeRecipient \in Accounts

ConfigInit ==
    /\ rates = InitialRates
    /\ limits = InitialLimits
    /\ feeRecipient \in Recipients

\* setRate is a batch of one row; one bad row reverts the whole batch.
SetRates(batch) ==
    /\ \A row \in DOMAIN batch : RateAllowed(batch[row])
    /\ rates' = [row \in Features \X Tokens |->
                    IF row \in DOMAIN batch THEN batch[row] ELSE rates[row]]
    /\ UNCHANGED <<limits, feeRecipient>>

SetLimits(token, l) ==
    /\ LimitsAllowed(l)
    /\ limits' = [limits EXCEPT ![token] = l]
    /\ UNCHANGED <<rates, feeRecipient>>

SetFeeRecipient(recipient) ==
    /\ feeRecipient' = recipient
    /\ UNCHANGED <<rates, limits>>

ConfigNext ==
    \/ \E batch \in RateBatches : SetRates(batch)
    \/ \E token \in Tokens, l \in LimitChoices : SetLimits(token, l)
    \/ \E recipient \in Recipients : SetFeeRecipient(recipient)

=============================================================================
