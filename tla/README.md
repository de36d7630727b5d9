# TLA+ models of the tsaconnect escrows, of their records, and of what pays

tsaconnect is a marketplace and P2P exchange whose money is held by smart
contracts (`smart-contracts/`), driven by a Go API with a database and
background workers (`tsa-api-go/`) and used from a mobile and a web app
(`tsa-app/`, `tsa-web/`). This directory specifies the part of it that must not
lose or misdirect money: the two escrow contracts; the backend's record of
an escrowed order, which is written by handlers and workers that race with each
other and with the chain; the key lane, through which every transaction that
the backend signs itself leaves; and the payout of a sale to the seller's bank.

Paths below are relative to `src/`; `core/` is `smart-contracts/contracts/core/`
and `internal/` is `tsa-api-go/internal/`.

Contents: [1 the system](#1-the-system), [2 the modules](#2-the-modules),
[3 the runs](#3-the-runs), [4 bounds](#4-bounds), [5 fairness](#5-fairness),
[6 the proofs](#6-the-proofs), [7 where code and documentation
disagree](#7-where-code-and-documentation-disagree), [8 what is left
out](#8-what-is-left-out), [9 the plan](#9-the-plan).

## 1 The system

### Components

| component | state | operations | modelled |
|---|---|---|---|
| FeeConfig (`core/FeeConfig.sol`) | rate per (feature, token), limits per token, fee recipient | setRate(s), setLimits, setFeeRecipient; read by both escrows | yes |
| EscrowBase (`core/EscrowBase.sol`) | what the escrow owes per token, what is claimable per account, paused | `_pull`, `_push`, claim, rescue, pause, unpause | yes |
| OrderEscrow (`core/OrderEscrow.sol`) | one record per order: phase, parties, fee, three deadlines | createOrder, markDelivered, confirmReceipt, cancel, dispute, claimTimeout, resolve | yes |
| P2PTradeEscrow (`core/P2PTradeEscrow.sol`) | sellers' pools (available, locked), filled and cancelled vouchers, trades, sellers' releasers and release windows | deposit, withdraw, setReleaser, setAutoReleaseWindow, cancelVoucher, openTrade, openTradeWithDeposit, markPaid, release, finalizeRelease, cancelByTimeout, raiseDispute, adminResolve, claimDisputeBackstop | yes |
| order handlers (`internal/handlers/checkout_handler.go`, `checkout_payout.go`, `order_settlement.go`) | the `orders` row: status, dispute flag, recorded deadlines and times, release transaction; the product's stock | prepare-escrow, submit-escrow, ship, deliver, submit-confirm, submit-refund, reject-refund, cancel, request/submit/reject-cancel, dispute, admin submit-resolve and dismiss-request | yes, see section 8 |
| unpaid-order expiry (`internal/services/unpaid_order_expiry.go`) | `orders.updated_at` as a payment clock | ExpireUnpaidOrders every 10 minutes; TouchUnpaidOrder by the handlers | yes |
| deadline sweep (`internal/services/order_timeout.go`) | none of its own, apart from the transaction it sent | Sweep every 5 minutes: read, claimTimeout, note the hash, record | yes |
| key lanes (`internal/services/key_lane_store.go`, `release_signer_lanes.go`) | an outbox of nonces and signings per hot key, in the database; tombstones of operations given up; the hold | Send, the review of the next nonce (re-send, speed up, cancel, hold), MarkMined, resolveCancels, RetireOp, the super-admin's RequestCancel, RetrySpeedUp, RaisePriceCap, ClearHold, FillGap | yes |
| ramp legs and treasury sales (`ramp_leg_store.go`, `leg_runner.go`, `it_treasury_deliver.go`) | one `ramp_legs` row per attempt at a payment | Reserve, SetTxHash (the lane's hook), Confirm, FailExpected, recoverHashless, followLeg, settleSale | partly |
| P2P trade records and keepers (`internal/services/p2p_*.go`) | the `p2p_trades` row | open/mark-paid/release/dispute prepare-and-confirm pairs, expiry, reconciler, stale and backstop alerts | planned |
| seller bank payouts (`seller_payout_orchestrator.go`, `seller_payout_company.go`, `seller_payout_admin.go`, `seller_payout_operator.go`; what they use of `paycrest_sell_fiat.go`, `paycrest_order_service.go`) | the `seller_payouts` row, its legs, its Paycrest sales, the company transfer's reference | Tick and Advance through release, bridge, sale, deposit and settlement, or the company's transfer; the operators' Retry, Reroute, PayWallet, MarkPaid, Cancel; the reversal webhook | yes, see section 8 |
| conversions (`conversion_orchestrator.go`) | a saga row and a ledger of legs | Tick, Advance, recover, park | planned |
| Spendable MCGP orders (`order_spendable_*.go`) | a hold on the buyer's entitlement | fund, drive, reconcile | planned |
| inbound bank credits, TSA Pay, pool vault, rewards, entitlement swap, relayer, retired contracts, the apps | | | no; reasons in `PROJECT.json` and section 8 |

### How they interact

The apps send transactions to the chain themselves, signed by the user, and then
report the hash to the API. The API never learns of a transaction nobody reports,
except by reading the escrow. Handlers run concurrently, in several processes;
each one reads the row, may read the chain, then writes the row. The workers
(`internal/jobs/scheduler.go`) run each on its own ticker; ticks of one worker do
not overlap, ticks of different workers and handlers do. The only coordination
is the database: most writers repeat the status they expect in the UPDATE's
condition, some do not. The sweep's transactions are signed by the release key
and go out through its key lane, which answers a repeated operation with the
transaction it already sent. A lane is shared by all API processes: its rows are
read and written under a database lock (`WithLock`), except what is asked of the node
in between, which is why every later write names the version of the row it read. A leg
hands the lane a hook, so that its hash is written in the transaction that
allocates the nonce. The payout worker loads every row that moves and takes one step
with it; its writes are conditional on the status, the legs' unique indexes stop a
second deposit and a second pending refund, and the operators' calls decide on a row
they loaded. Paycrest and the bank are polled or send a webhook that may not come.

### What is hard

* **Money** (both escrows): a payout the token refuses must neither revert the
  exit nor be lost; a token that keeps part of a transfer; stray donations next to
  an admin's rescue; rounding of fees and of a resolver's split; capacity given
  back and taken again.
* **Deadlines**: each is one party's last second and another's first; the same
  instant can allow several calls by different parties.
* **Configuration under way**: rates, limits, fee recipient, a seller's releaser and
  release window change while positions are open.
* **Stale reads** (records): what a handler read of the row or of the chain is old
  by the time it writes.
* **Unreported events**: nobody need tell the backend anything.
* **Partial failure**: a tick may stop after sending and before noting the hash;
  the claim may lose to another settlement; a process may stop between allocating,
  signing, broadcasting and recording, and a broadcast's answer may say nothing.
* **Three ways to pay one seller** (payouts): a sale, a company transfer and a refund to the
  wallet, each with an outcome that may stay unknown, and operators who switch between them.
* **One nonce, several signings**: a nonce is bumped, re-sent and cancelled while earlier
  signings of it may still be mined, and a reorganisation may change which one was.

`PROJECT.json` lists each hazard at its line with the properties that cover it.

### What makes each component correct

The invariants of `core/SECURITY.md` ("Invariants") are the contracts' own
statement of correctness, fuzzed by `test/core/*.invariants.test.js`. They appear
here as `Solvent`, `OwedIsExact`, `LockedIsExact`, `FilledIsExact`,
`SettlementPaysInFull` (conservation: nobody outside the parties and the fee
recipient gains), `NothingIsReopened` (terminal states are absorbing, the fee does
not change; proved, section 6) and `EveryOrderEnds` / `KeepersEndTrades` (liveness without an admin).
To them come statements that need more than one call to break: every ending has
its reason (`EndsAreJustified`), no party stretches the clock (`ClockIsBounded`), no
exit can revert on arithmetic (`ExitsPayable`), a buy ad is never armed
(`BuyAdsAreNeverArmed`).

A record is correct when a closed row tells what the chain did
(`RecordIsProven`), a recorded phase was seen on the chain (`PhaseIsProven`), the
stock follows the money (`StockFollowsMoney`, `StockReturnsOnce`), an expiry never
cancels a paid order (`ExpiryKeepsPaid`, `NoPaymentAfterExpiry`), and the sweep
ends and records every order nobody looks after (`SweepEndsOrders`,
`PayoutsAreRecorded`).

A lane is correct when a payment is made at most once however often it is attempted
(`PaidOnce`), a leg's end says what the chain did for good (`LegTellsTheTruth`), a
cancelled nonce and an operation given up stay so (`CancelIsFinal`, `GiveUpIsFinal`), no
process writes over what another settled (`SettledStays`), and the lane never waits in
silence (`LaneMoves`).

A payout is correct when the seller is paid once over all three ways (`PaidOnce`), the
treasury funds one sale (`FundedOnce`), no status of the row says more than happened
(`EndsAreProven`), an operator is told that a retry is safe only when nothing sent can still
pay (`SafeParkIsSafe`), and a released payout ends or reaches a person (`PayoutsMove`).

## 2 The modules

```
FeeConfig <- EscrowBase <- OrderEscrow <- OrderRefinement --- implements ---> OrderLife
                  ^                                                             |
                  +------ P2PTradeEscrow                          OrderRecord --+ extends

KeyLane (lane, legs and chain of one hot key)      SellerPayout (one payout)

SumTheorems <- EscrowBaseProofs <- OrderEscrowProofs <- OrderRefinementProofs
                                <- P2PTradeEscrowProofs
OrderRecord <- OrderRecordProofs
KeyLane <- KeyLaneProofs          SellerPayout <- SellerPayoutProofs
```

**FeeConfig.** Three variables, one action per setter. Callers hold CONFIG_ROLE and
are left out. `RateBatches` may contain rows the contract refuses.

**EscrowBase.** The state of one token is a record `money[t]`: the token contract's
balances and blacklist, and the escrow's own `owed` and `claimable` in it. `Pull`,
`Push`, `AddOwed`, `SubOwed` are functions on that record, because a call is one
transaction which composes several of them; an action is a whole external function.
`Push` has the two outcomes of `_push`: delivered, or claimable and owed again.
The token (`Transferred`, `SetBlacklisted`, `Skim`) is modelled from how the escrow
uses it. Reentrancy is excluded by the contract's guard and is not explored.

**OrderEscrow.** `orders[<<buyer, id>>]` is the order's storage record plus
`endedBy`, the sender of the call that ended it, which the contract only emits.
Reverts are guards. `_release`, `_refund` and `_markTerminal` are `Release`,
`Refund` and `End`. Deadlines are compared exactly as written: `InTime` is
`now <= deadline`, `Passed` is `now > deadline`.

**P2PTradeEscrow.** `available` and `locked` per (account, token), the filled amount
per voucher, and one record per trade. A voucher is the signed struct;
membership in `SignedVouchers` stands for a valid EIP-712 signature of its seller.
The status `Cancelled`, `Released`, `Resolved` and the field `paidOut` give the
ending; `funding` distinguishes pooled trades from deposited ones.

**OrderLife.** The abstract specification of one order: a state and, for each of the
three deadlines, whether it is unset, running or passed. This is all that
`escrow_service.go` (`OnChainOrder`) lets the backend see. **OrderRefinement** maps
each order of OrderEscrow onto it; `EachOrderIsALife` says that every step of the
contract is, for each order, one step of OrderLife or a stutter.

**OrderRecord.** Builds on OrderLife the backend's record of one order. State of
the chain: `state`, `clock`, `outcome` (which event ended the order), the sweep's
own transaction `claim`, and `prepared` (the buyer holds a createOrder to sign).
State of the database: `row`, `idle` (the order's payment clock has passed the
unpaid TTL), `restored` (how often the stock came back). State in flight: `calls`,
one record per handler call with what it read, and `sweep`. A handler is up to three
actions, so that everything else can happen in between: `Begin` reads the row and
checks it (`Admits` takes each route to the check of its handler, `MayShip` to `MayRaiseDispute`),
`ReadChain` reads the escrow, `Finish` verifies the reported
event and writes. `GiveUp` is an error answer or a crash after any of them; nothing
but the database survives. A writer is conditional exactly where its UPDATE is
(`RecordReleased`, `RecordRefunded`, `CancelPending`, `FinishSellerCancel`,
`MarkOrderEscrowed`) and an `Overwrite` where the code updates by id alone. A sweep
tick is `SweepPick`, `SweepRead`, `SweepSend`, `SweepNote`, or after a settlement
`SweepDrop`, `SweepRecord`; `SweepFails` stops it anywhere.

A `release_tx_hash` is three values: none, a transaction whose event was verified
before it was written, or the sweep's own claim.

**KeyLane.** One hot key on one chain. State of the database: `alloc` (the row of each
nonce), `txs` (its signings in the order of their prices), `retired` (the tombstones),
`hold` (the nonce the lane is held at) and `leg` (the ramp leg of a hooked
operation). State outside: `chain` (which signing of which nonce was mined and whether
it succeeded), `final` (how much of it no reorganisation drops), `out` (the signings
that ever left a process: any of them may be mined when its nonce comes) and `known`
(those the lane's node holds). State of the processes: `thread`, one record per thing a
process is doing, with what it read before it took the lane's lock. A send is `Begin`
(the operation holds nothing, this many give-ups are known), `Commit` (the allocation
transaction: nonce, first signing and the leg's hash, or nothing), `Broadcast` and
`Record`; or `Refuse` and `NotSent`. The upkeep is `Look`, then `Resend` or
`SpeedUp`; `LookCancel`, then `SignCancel`; `HoldHole`; `ReadMined`, then `MarkMined`;
`ReadReceipts`, then `Resolve`. Each second step has the version check of `Save`
(`Unchanged`). One step is at most one hold of the lane's lock: what the code does after
it, the thread does in a step of its own. That is putting the lane on hold (`PutHold`, after a
refused broadcast, a capped speed-up or cancel, and a hole), reading the row again after a
re-send (`Reread`), and taking off the hold of a filled hole (`FillGap` reads, `FillHole` allocates
under the lock, then the broadcast, then `UnholdFilled`). The code runs part of the upkeep inside a
send before it allocates; here it is always a keeper's. Callers reserve legs, confirm or fail them by deep receipts
(`Confirm`, `FollowReverted`), and free one only after a give-up (`RecoverHashless`,
`FollowCancelled` and `GiveUp`, then `FailFreed` and `FailGiven`). `Abandon` ends a
thread anywhere: a crash, a timeout, a failed read or a version that has changed.
Only the database, the chain and what left survive it.

The statuses `signed` and `sent` of a nonce are one value, `live`, because no code path
tells them apart; `accepted`, `uncertain`, `replaced` and `mined` of a signing are `left`.

**SellerPayout.** One payout. State of the database: `pay` (the row), `leg` (its legs by
kind and attempt: bridge, deposit, and the refund that pays the wallet), `sale` (its Paycrest
orders). State of the world: `order` (what became of the marketplace order), `tx` (of each
leg's call), `desk` (of each sale at Paycrest), `bank` (of each company transfer, by the
generation of its reference). State of the processes: `thread`, one record per tick or
operator's call, with the row it loaded: `Load` takes any moving row, and each action of
`Tick` is the part of the machine between two points where another process, a crash or an
answer can come. A claim of the row is `Move`, conditional on the status alone, as in the
code; `Reroute` compares the whole row, as its UPDATE does. `Reserve` is the leg's insert
under its unique indexes, `Claim` the status that follows it, `Send` the commit of the hash
(which for a lane's call is the send). `Observe` is what a pending leg may show: never sent or
cancelled (failed), proven (confirmed), refuted or too late (parked). An operator's call is
`LoadParked` and then one of `Retry`, `RetryCompany`, `MarkPaid`, `Cancel`, `PayWallet`,
`Reroute`. `Crash` stops a thread anywhere. Clocks are choices, so every ceiling, grace and
window is explored both ways; a tick that only waits takes no step.

Operators whose comment starts with "Mutant:" are plausible mistakes, each a
variant of the operator defined after it. They are used to show that every
checked property can fail.

The MC modules give the constants small values and contain nothing else.

## 3 The runs

| run | question | distinct states |
|---|---|---|
| `order_lives` | two buyers' orders, a seller who also buys, a blacklistable account, prices that round or are too wide, rates and limits that change, donations and rescues: are obligations exact, terms kept, endings justified and paid in full, exits payable, nothing owed taken; does each order live an OrderLife, and does it end? | 706,512 |
| `p2p_pool` | two buyers on one public ad that two trades fill, one pool, forged, bound and reused vouchers, donations and rescues: are owed, locked and filled exact sums, whatever order trades end in? | 732,096 |
| `p2p_fair` | rates, releaser and window change under a pooled or deposited trade in one of two tokens, a seller blacklisted at any time, only keepers acting: does the trade keep its terms, and end or wait for its parties? | 446,272 |
| `record_calls` | every handler, one call at a time, against the chain, the expiry and a sweep that may fail: does the stock follow the money, is a recorded phase seen on the chain, does the sweep end and record every order? | 200,794 |
| `record_races` | two calls at once among the conditional recorders, and the sweep: does only one of them act, and does the row tell what happened? | 128,732 |
| `lane_pay` | two attempts at one payment, a sender and a keeper that may stop anywhere, reverts and reorganisations, give-ups and cancels: is the payment made once, and do the legs tell the truth? | 2,570,679 |
| `lane_moves` | one operation and the upkeep of two processes, a node that refuses, forgets or takes what is broadcast, a foreign transaction, a super-admin: is every write over a row that the other process settled, cancelled or bumped refused, and does the lane never wait in silence? | 386,044 |
| `lane_hole` | one operation above a nonce nobody allocated, on a node that never says what became of a broadcast: does the lane notice, and does a filled hole let it through? | 812,363 |
| `payout_moves` | one payout, a worker, an operator with every call, two things that go wrong: is the seller paid once, one sale funded, every status true, a safe park safe, and does the payout move on? | 445,999 |
| `record_prepare`, `record_stale`, `payout_wallet` | the disagreements of section 7 | |

`CHECK_DEADLOCK FALSE` is set for the record, lane and payout runs only: an order that is closed on
both sides, with no call to make, really stops, and so does a payout that is over, and a lane
whose bounded nonces are used up. The escrow runs check deadlock: a
final state still has the blacklist and the pause to change.

Every property of every passing run has a mutant in `PROJECT.json`: a variant of
one definition under which TLC finds that property violated. They range from a
payout that forgets to be owed, through a deadline met a second late, to a sweep
that leaves refunds to their submit.

## 4 Bounds

* **Time** (`Horizon`, `LastOpen`): windows are one or two units, and positions open
  no later than `LastOpen`, so that the longest life (all windows in sequence, each
  overrun by one) fits before `Horizon`. Time values matter only by comparison with
  deadlines; a unit window gives before, at and after. In `P2PTradeEscrow` a dispute
  is bounded (`DisputeInBound`) so that its backstop is reachable.
* **Amounts**: chosen per run so that a fee rounds down (34 and 67), or is too wide to
  record (67 with `MaxUint96 = 1`), a split falls within the shipping and beyond it, two
  trades fill an ad exactly (50 of 100), and limits are met and exceeded. `MaxUint96` is a stand-in for the width
  of a field; the proofs take it as any natural number.
* **Parties**: two buyers and one id each (ids live under their buyer, so a second id
  of the same buyer behaves like a second buyer); one account with two roles.
* **OrderRecord**: one order, because rows do not share anything except the stock
  counter and the sweep's page (section 8). `Requests` bounds the
  calls in flight, not their number: calls follow each other for ever. `restored`
  stops at 2, which already means "more than once". `SlowPayers = FALSE` means a
  buyer sends the payment within the unpaid TTL of asking for it; the two runs that
  need this say so in their properties, the others allow a payment at any time.
  All sixteen handlers with two calls in flight exceed 20 million states, so `record_calls` has
  one call at a time and `record_races` the recorders; the proofs take any number of calls of
  any handler, of products and of services.
* **KeyLane**: `MaxNonce` nonces and `MaxSignings` signings of each (the latter also stands
  for the price cap: a nonce with that many can be bumped no further). Two nonces
  suffice for what relates nonces, a hole and a second attempt, because nothing in the
  lane relates three. `final` has one value for all the code's depths (`cancelDepth`,
  `saleDepth`), each of which the code takes to be below any reorganisation. `MaxGiveUps` bounds
  the sequenced give-ups. The features that multiply each other are switched per run:
  reverts, reorganisations and give-ups in `lane_pay`; refusals, evictions, foreign
  transactions and a second process in `lane_moves`; read-ahead and broadcasts of unknown outcome
  in `lane_hole`. With those outcomes `lane_moves` has 814,546 states, too many for its liveness
  property; to the chain such a broadcast is one that was taken or one that was lost, and
  both are in `lane_moves`. The proofs have all of it at once, and any number of processes.
* **SellerPayout**: one worker and one operator (the loss of more is section 7). `MaxFaults` counts
  refusals, losses, lapses, reversals and crashes; each may cost an attempt, so `MaxLegs` and `MaxSales`
  are one more than `MaxFaults`, and no retry is stopped by a bound. `MaxRefs = 2` allows one
  new reference for the company's transfer. `Forced = TRUE` lets the operator force a retry of
  anything, having read the chain.

## 5 Fairness

* **The escrows** (`FairSpec`): time passes, and a call that settles an overdue
  position is eventually mined. Anyone may send it; the API's sweep sends
  claimTimeout (`cmd/server/p2p_direct.go`, `orderTimeoutWorker`) and its expiry
  sends cancelByTimeout (`p2p_expiry.go`); for an armed release or a stale dispute the
  buyer or the seller gains by sending it. Nothing is assumed of admins, resolvers,
  buyers or sellers otherwise, and the pause and the blacklist may hold for ever.
* **OrderRecord**: time passes, the sent claim is mined, and the scheduler keeps
  starting ticks (WF on `SweepPick`). Within a tick the steps have strong fairness:
  any tick may fail at any step, but not every tick at the same step, which is what
  a node with intermittent failures does. No fairness is given to handlers, to
  reporting by the apps, to the expiry, or to anybody else's transactions.
* **KeyLane**: the chain mines the next transaction its node holds, and blocks get deep. The
  keeper's tick runs every 30 seconds in every process (`cmd/server/signer_guard.go`,
  line 255), so what a tick would do at the first unmined nonce (`ReviewNext`) and below it
  (`SettlePassed`) is eventually done (strong fairness, as something else may happen
  to the nonce in between), a tick that has begun goes on, and ticks do not fail for ever.
  Nothing is assumed of senders, callers or super-admins: a hold may last for ever, and
  `LaneMoves` counts it as an answer, because the code raises an alert with it.
* **SellerPayout**: the worker ticks (WF on each tick's steps: `cmd/server/seller_payout.go`, line 59, every 30 seconds), calls
  are mined, Paycrest pays or returns what it got, the poller syncs, and the bank answers. A tick
  that may go on does: the kill switch is not held for ever. Nothing is assumed of
  operators or of the webhook.

## 6 The proofs

The proofs hold for any accounts, tokens, skims, amounts, windows and
configurations that satisfy the ASSUMEs beside the constants. Three of these say that a set is
finite, which the theorems about sums need: an address has 160 bits, an order id and a trade
id have 256 (`Accounts`, `OrderIds`, `TradeIds`).

**SumTheorems.** What the sums over open positions need to know of `FoldFunction`: over a finite
set a sum exists and is a natural number, a change at one argument changes the sum by as much
(`SumChange`), and no term exceeds the sum (`SumMember`). The library's induction theorems take
an operator and cannot be used, so the induction is done on the smallest counterexample: among
the subsets of the domain for which the claim fails, one is minimal under strict inclusion
(`WFMin` with the well-foundedness of finite sets), and removing one element from it refutes it.

**OrderEscrowProofs, P2PTradeEscrowProofs.** `TypeOK` is inductive by itself and
carries real arithmetic: a fee within 96 bits, no balance or obligation below
zero, P2P fee rates within their joint cap. Above it, solvency is proved not as an
invariant about sums but about the *surplus*, what the escrow holds minus what it
owes. Each building block has a lemma in EscrowBaseProofs (a push lowers the surplus
by at most its amount, subtracting from owed raises it by exactly that amount, and so on), and
an ending frees the gross amount and pushes shares that add up to it; hence every step
keeps the surplus or rescues all of it (`SurplusIsKept`), and `AlwaysSolvent` follows by
induction. This argument never looks at which positions are open, which is why it
holds for any number of them.

`EndsJustified` and `ClockBounded` need to know which deadlines are set in which
phase; the strengthenings `Phased` (OrderEscrow: for instance an order that is not
delivered has no confirm deadline) and `Armed` (P2PTradeEscrow) say so and are inductive with
TypeOK. `TermsAreKept` and `BuyAdsNeverArmed` follow action by action.

*Exactness.* `OwedAlwaysExact` says what solvency leaves out, that nothing is owed to nobody. The
measure is what is *committed* in a token, `owed` minus the sum of `claimable`: a transfer, a
claim, a rescue and a donation keep it, a push that cannot be delivered keeps it (it adds to
both), and only `AddOwed` and `SubOwed` move it (EscrowBaseProofs). Each step of a contract then
changes it by exactly what it changes in the one order, or the one pool slot, that it touches
(`Booked`), so that the ledger (committed is the sum over the positions) is inductive by
`SumChange`. `LockedAlwaysExact` and `FilledAlwaysExact` are the same argument about `locked` and
`voucherFilled`; they need `Armed` to know that a buy-ad fills no voucher.

*Exits.* `ExitsAlwaysPayable`: by the ledger and `SumMember` an open order's amount is within `owed`, and
by `FeeCapped` (the recorded fee is at most `MAX_FEE_BPS` of the price, whatever the rates are
now) the pro rata fee of any split fits in the seller's part (`SplitBounds`, the nonlinear arithmetic
done by hand).

*Settlements.* `SettlesInFull`, in both escrows: a push adds exactly its amount to what the payee
holds or may claim and nothing to anybody else's (`PushHeld`), if the token does not skim; and money
only gets in by a pull that proves it does not, so an existing order (`Whole`), or a pool slot that
holds anything (`PoolWhole`), is in such a token. No hypothesis about skimming is therefore left
in the theorem. The parties of an order may coincide, and one may be blacklisted.

**OrderRefinementProofs.** `OrdersLive`: `Spec => EachOrderIsALife`. The invariant is
TypeOK with `Created` and `Phased`; each action is shown to be, for the order it
touches, the action of OrderLife with the same name, and for every other order a
stutter; a tick is a `TimePasses` for the deadlines it crosses. One strengthening was
found this way: a new order's delivery deadline is later than `now`, without which
creation could start a life whose first deadline has already passed.

**OrderRecordProofs.** For any set of concurrent requests, any handlers, products
and services. `RecordInv` says what a call or a tick may still rely on of what it
read. An event that happened stays and a final state stays (`LifeIsTold`,
`ChainGrows`), so a tick that found the order settled found it as it still is
(`SweepIsCurrent`), and a call that means to put an order back to delivered still
may (`CallsAreJustified`). While the payment is not recorded, nothing is in flight but
paying, expiring and cancelling, each of which writes conditionally
(`UnpaidIsUntouched`). Without the last part the unconditional writes (`Overwrite`) could
revive an order that was cancelled unpaid. `EndingWrites` has one step per handler and
rests on one lemma per way of writing the row; `SweepStep` does the same for the tick.
From it follow `TypeOK`, `RecordIsProven`, `StockFollowsMoney` and `PhaseIsProven`.
`ExpirySafe` adds `ExpiryInv`: once the payment clock of an unpaid row has run out, the
buyer holds nothing to sign, and an expiry that saw no escrow order is still right. It
assumes `~SlowPayers` (section 4). `StockComesBackOnce` is about any set of the handlers that write
conditionally, with the expiry and the sweep: while stock is back the row is closed, and nothing
that runs opens it. The other handlers are excluded by a hypothesis because with them
it is false (section 7).

**KeyLaneProofs.** For any number of threads, operations, nonces and signings, with every
switch on. `PaidOnce` is far from inductive, and `LaneInv` adds what each participant relies on:
a free nonce has no call and no signings, and only a live one holds a key (`RowsAreWhole`,
`FreeIsClean`), only recorded signings ever leave or are mined (`OnlyRecordedLeaves`), what a
thread remembers is still true or will be refused (`ThreadsAreRight`), a leg names the
only nonce its call ever had, and its status says what became of it (`LegsAreRight`), and of
the attempts at one payment only one may still pay (`OneAttempt`). The step most worth reading is the
give-up: between `GiveUp` and `FailGiven` the leg is still pending, and what keeps another
attempt out is that the receipt of the cancel is below every reorganisation (`DeepKept`), so
that the call can never be mined at that nonce, and the permanent tombstone, so that
no late attempt gets another. The lemmas follow the variables and not the
actions: what a row may become (`RowsStep`), what a reorganisation keeps (`DeepStep`), what an
operation's fate does (`FateStays`), what allocating does (`AllocStep`), what changing one leg
does (`LegChange`); each action then cites the two or three that it touches.
`SettledNeverMoves` is the version check: a thread's `Unchanged` write finds the row it read.

**SellerPayoutProofs.** For any number of workers, operators, legs, sales, references and faults,
forced or not. `PayoutInv` adds to `TypeOK` what a thread relies on of what it holds (a reserved
leg is its own until it is sent, a landed leg is done), what a leg's status says of its call, that
one deposit at most is pending or confirmed (the unique index), that a failed deposit never
lands, and that each status of the row stands on what it names. From it follow
`DepositsAreFundedOnce` and `PayoutsAreProven`.

Nothing in the code keeps two processes from ticking at one payout, or two operators from working
at it, and `PaidOnce` and `SafeParkIsSafe` are false then (section 7). `SellersArePaidOnce` and
`SafeParksAreSafe` therefore assume nothing of the constants and say what a behaviour must contain
to get there: `Spec => ([]PaidOnce \/ <>Overlap)`, and the same of `SafeParkIsSafe`, for any
number of workers and operators. `Overlap` is a state in which two processes are in the middle
of a tick of this payout, or two operators in the middle of a call about it; one tick and one
operator at the same time are not an overlap, nor are two processes that take turns, nor one that crashed. `Spec` has
no fairness, so a behaviour may stop at the first violation: the overlap comes before it. The proof is
`OncePayment`, `Spec => ([]~Overlap => []OnceInv)`: a thread that takes a step is, before it or
after it, the only one of its kind at work (`OnlyAtWork`). There are three ways
to pay a seller, a Paycrest sale, a company transfer and a payment to the wallet, and the
invariant `OnceInv` says that whatever has been sent on one closes the others:

* `OneWay`: a deposit leaves only behind a bridge, there is one payment to the wallet, and it
  excludes a bridge and a used reference.
* `Books`: what the row notes of its transfers is enough to know them. No reference after `ref` was
  used, only `ref` may still pay, and a row that may start a transfer has a newer reference to start
  it with. `transferDead` and `companyNothingSent` look at nothing else.
* `Locked`: where the row can be. After a reference was used its venue is the company and it never
  looks as if nothing had been sent; after a bridge its venue is Paycrest and it is not at a
  company transfer; after a payment to the wallet it stays there, or is paid, or is parked from there.
* `Calm`: where nothing may still pay: before the deposit and the transfer (`Quiet`), and whenever
  the row says it is safe to retry, of which `SafeParkIsSafe` is a part.
* `TickerSafe`, `OperatorSafe`: what the thread at work may still rely on of what it read. The tick's row is
  the payout's, unless a reversal or an operator's payment to the wallet took it from under it, and
  then it can only park it, as what it was; between the operator's claim and the call nothing else
  has left.
* `PaidIsFunded`: a sale that was paid was funded, so that `FundedOnce` bounds the sales.

The invariant was checked by TLC at the bounds of `payout_moves`, and beyond them with two legs of
each kind, two sales, three references and four faults (4.1 million states), before it was proved.
Two parts were found by the proof:
a retry of a company transfer that never used its reference is safe only because no bridge was ever
sent from there (`Locked`), and an operator's call that fails must find its own park unsafe
(`OperatorSafe`). Each action is shown to keep it as long as the chain and the bank are left alone
(`Keeps`); what the world does only cools what was sent (`Cools`), and the two steps that send,
`Send` and `Request`, are done by hand (`SendOnce`, `RequestOnce`).

**Only model-checked.** Every invariant and action property that a passing run checks is a
theorem. What is left to TLC is liveness: the prover has no rule for fairness here.

## 7 Where code and documentation disagree

Each is a run that ends in a counterexample, and an entry of `findings`.

1. **A payment for a cancelled order** (`record_prepare`). Prepare-escrow reads the
   order, the expiry cancels it, and prepare's touch, which is conditional on
   `pending_payment` and whose row count nobody reads, changes nothing; the handler
   still answers with the transaction to sign. The comment above the touch says it
   keeps the expiry from cancelling.
2. **A closed order reopened, its stock returned twice** (`record_stale`). Deliver
   decides on the row it read and updates by id. If the sweep records a refund
   in between, the row is open again and the next tick restocks again. Several
   handlers write this way; the recorders' comment says that of two racing only one
   acts.
3. **A wallet payment after a reroute** (`payout_wallet`). `StartWalletPayment` checks the row it
   was given and then claims the payout by its status alone. Between the two, another operator
   may have rerouted the payout to the company, whose transfer's outcome was lost, so that it is
   parked again: the claim succeeds and both the bank and the wallet pay. The comment calls the
   payment safe by construction; the reroute's own claim compares everything its decision read.

More were met and have no run:

* *A retry that gets a second nonce.* A send looks for its operation's allocation by key, and
  marking a nonce mined clears the key. An attempt that was delayed in between commits a second
  nonce for the same call, although `WithOperationRef` promises that a retry gets the existing
  allocation back, "never a new nonce". Sends with a leg are safe, since the hook refuses a leg
  that has a hash (KeyLane's `PaidOnce`); the others (a release, a claim, an operator's debit) rely
  on the contract to refuse the second call.
* *A short sale that is funded.* `openOfframp` writes the sale's row before `CreateSellForFiat`
  finds that it underpays. If the process stops there, or the cancel fails and an operator forces
  a retry, `recoverSelling` adopts the sale and the machine funds it, although "a deposit address is
  never handed out for a sale that would underpay" (`paycrest_sell_fiat.go`, line 193).
* *Two processes at one payout.* `Tick` takes no lock on a row: a second process may park a payout
  as safe on a row that has moved to where money is in flight, and two operators may retry past
  each other. `PaidOnce` and `SafeParkIsSafe` are violated then, and only then (section 6);
  `FundedOnce` and `EndsAreProven` are proved for any number, overlapping or not.
* *A transfer without its id marked paid.* `hasLiveVenue` looks a company transfer up by the id on
  the row; an answer that was lost left none, and an unforced MarkPaid goes through while the
  transfer may be alive.
* *A lost claim kept as payout proof.* If the receipt of the sweep's claim cannot be read at
  the tick that finds the order settled, `dropUnprovenClaimHash` keeps the hash
  (`order_timeout.go`, line 136) and the same tick closes the row, so the "next tick" of its
  comment never sees it.
* *A payout waiting for a hash nobody writes.* An order the sweep records as completed has
  no release transaction; a later submit-confirm is refused, and the seller's bank payout
  returns early on every tick (`seller_payout_orchestrator.go`, line 349), expecting the
  confirm to record it.

## 8 What is left out

* **Contracts**: UUPS upgrades, role administration, ERC-2771 forwarding (`by` is
  `_msgSender()`), reentrancy, `createdAt` (never read), the split of a P2P fee into
  platform and gas parts beyond its checks and its sum.
* **Order handlers**: orders paid from Spendable MCGP (no escrow); booking requests;
  the approve flags of approve-refund and approve-cancel, which change no status;
  an escrow record that does not match its order (submit-escrow refuses it, the
  sweep skips it); pricing, notices, fee shares, wallets; UpdateOrderStatus, which has
  no route. `CancelAsTreasury` is the cancel of an order whose seller is paid through
  the treasury.
* **Expiry and sweep**: paging over orders, clock skew between the API and the
  chain, a claim replaced by a speed-up with another hash, an API without a release key.
* **Key lane**: the fee gate (it may refuse a send, which `Refuse` covers), gap timers
  (`Look` may happen at any time, so nothing depends on their length), each process's own
  copy of the hold (a process that knows of none may move it, see `PutHold`), sponsored
  top-ups of gas, the in-memory signer of the tests. A nonce marked mined whose
  transaction a reorganisation drops from every node is not explored: the code has
  dropped its raw bytes by then, and nothing holds the lane (listed as a hazard).
* **Ramp legs**: approve-and-route legs (two operations for one leg), amounts, adopting
  the hash of another signing, the evidence an admin uses to resend.
* **Seller payouts**: planning and pricing (`seller_payout.go`), amounts, fees and the exposure cap
  (a refusal may happen at any time), which venue can take a payout, notices and audit rows. The
  sale's row and the payout are one payout's; what sales share at Paycrest is not modelled.
* **The sweep's page** of 100 orders: OrderRecord follows one order.
* **A resolution nobody submits** leaves its order open; the code knows this (it
  alerts), and `PayoutsAreRecorded` excludes it visibly.
* **Not modelled components**: the pool vault and the entitlement swap are rational
  arithmetic on large numbers, of which a small instance says little; rewards are Merkle
  proofs over a claim bitmap; the relayer only changes who sends; the retired
  contracts receive no new money; the apps are the environment: they may
  send or omit anything.

## 9 The plan

Done, in this order: FeeConfig, EscrowBase, OrderEscrow with its proofs,
P2PTradeEscrow with its proofs, OrderLife and the refinement with its proof, OrderRecord
with its proofs, KeyLane with its proofs, SellerPayout with its proofs.

Next, most important first:

1. **TradeLife, TradeRefinement, TradeRecord**: the same triple for P2P trades. The
   record adds the prepare/confirm pairs, the expiry whose decision commits together
   with its signed cancel (`p2p_expiry.go`, `cancelOnChain`), mark-paid against it, and
   the reconciler. Runs: the expiry against mark-paid, and a fair run for the reconciler.
2. **Conversions**, which share SellerPayout's leg runner.
3. **Custody**: the abstract ledger (owed equals positions plus claimable; funds leave
   only to parties) that both escrows implement, as one refinement for each.
4. Spendable MCGP orders as a second way to pay in OrderRecord; inbound bank credits.
