------------------------------- MODULE KeyLane -------------------------------
(***************************************************************************)
(* One hot key on one chain: the lane that allocates its nonces, signs,     *)
(* broadcasts, speeds up and cancels (services/release_signer_lanes.go),    *)
(* its record in the database (services/key_lane_store.go), and the legs    *)
(* of a payment that are sent through it (services/leg_runner.go,           *)
(* services/ramp_leg_store.go).                                             *)
(*                                                                          *)
(* Several processes share the record.  A thread is one thing a process is  *)
(* doing: a send, the upkeep of a nonce, a caller giving up.  Everything    *)
(* inside the lane's lock is one step; what a thread read before it took    *)
(* the lock is kept in the thread and may be stale by then.  A thread can   *)
(* stop after any step, which stands for a crash, a cancelled context and   *)
(* a read that fails.                                                       *)
(*                                                                          *)
(* Nonces count from 1: nonce n is the n-th transaction the chain mines.    *)
(* The signings of a nonce are in the order of their prices, each above the *)
(* one before.                                                              *)
(***************************************************************************)
EXTENDS Naturals, Sequences, FiniteSets

CONSTANTS
    Senders,        \* sends the processes run at once
    Keepers,        \* keeper ticks and callers' ticks they run at once
    Ops,            \* operation keys: each names one call
    Hooked,         \* the operations sent with a leg's pre-broadcast hook
    Payment,        \* Payment[o]: what o pays; the legs of one payment are attempts at it
    MaxBumps,       \* keyLaneMaxBumps
    Answers,        \* what the node may answer to a broadcast
    Foreign,        \* how many nonces something outside the server may take
    Evicts,         \* may the node forget a pending transaction?
    Reorgs,         \* may the chain drop blocks that are not final?
    MaxNonce,       \* bound: nonces
    MaxSignings,    \* bound: signings of one nonce
    MaxGiveUps      \* bound: sequenced give-ups of one operation

ASSUME LaneAssumption ==
    /\ Hooked \subseteq Ops
    /\ "fill" \notin Ops /\ "none" \notin Ops
    /\ Answers \subseteq {"accepted", "refused", "intrinsic", "fee_cap", "uncertain"}
    /\ MaxBumps \in Nat /\ Foreign \in Nat /\ Evicts \in BOOLEAN /\ Reorgs \in BOOLEAN
    /\ MaxNonce \in Nat \ {0} /\ MaxSignings \in Nat \ {0} /\ MaxGiveUps \in Nat

VARIABLES
    alloc,          \* key_lane_nonces: alloc[n], who has nonce n
    txs,            \* key_lane_txs: the signings of each nonce
    retired,        \* key_lane_retired_ops: the tombstones
    hold,           \* key_lane_states: the nonce the lane is held at, or 0
    leg,            \* ramp_legs: leg[o], the caller's record of a hooked operation
    chain,          \* what is mined, by nonce
    final,          \* how much of it is at least cancelDepth deep
    out,            \* the signings that ever left for a node
    known,          \* those the lane's node holds
    thread

recordVars == <<alloc, txs, retired, hold, leg>>
chainVars == <<chain, final, out, known>>
vars == <<alloc, txs, retired, hold, leg, chain, final, out, known, thread>>

Threads == Senders \cup Keepers
Nonces == 1..MaxNonce
Index == 1..MaxSignings
Idle == [pc |-> "idle"]

\* live: the row is 'signed' or 'sent', which nothing tells apart.
\* op_key is the call's operation while key holds, else ''.  "fill" is the
\* self-transfer of FillGap.  born: the give-ups its attempt had seen.
Allocation == [status : {"free", "live", "mined", "cancelled"},
               call : Ops \cup {"fill", "none"}, key : BOOLEAN, born : Nat,
               cancel : BOOLEAN, accepted : 0..MaxSignings,
               bumps : Nat, limit : Nat, again : BOOLEAN]
Free == [status |-> "free", call |-> "none", key |-> FALSE, born |-> 0, cancel |-> FALSE,
         accepted |-> 0, bumps |-> 0, limit |-> 0, again |-> FALSE]
Fresh(call, key, born) ==
    [status |-> "live", call |-> call, key |-> key, born |-> born, cancel |-> FALSE,
     accepted |-> 0, bumps |-> 0, limit |-> MaxBumps, again |-> FALSE]
\* left: accepted, uncertain, and what those become (replaced, mined).
Signing == [cancel : BOOLEAN, status : {"signed", "left", "refused"}]
Tombstone == [seq : Nat, permanent : BOOLEAN]
Leg == [status : {"none", "pending", "confirmed", "failed"}, nonce : 0..MaxNonce]
\* tx 0: a transaction that is not the lane's.  ok: it did not revert.
Block == [tx : 0..MaxSignings, ok : BOOLEAN]

\* Where a thread goes when a broadcast is recorded: a refused re-send is read
\* again and sped up, the hold a fill ends is taken away.
After == {"idle", "reread", "unhold"}

\* row and count are what the thread last read of the nonce: its version.
Thread ==
    {Idle}
    \cup [pc : {"begun"}, op : Ops, seen : Nat]
    \cup [pc : {"refused", "freed"}, op : Ops]
    \cup [pc : {"signed"}, n : Nonces, i : Index, then : After]
    \cup [pc : {"sent"}, n : Nonces, i : Index, then : After, got : Answers]
    \cup [pc : {"holding"}, n : Nonces, then : After]
    \cup [pc : {"filling", "reread", "unhold"}, n : Nonces]
    \cup [pc : {"resend"}, n : Nonces, i : Index, row : Allocation, count : 0..MaxSignings]
    \cup [pc : {"bump", "cancelling"}, n : Nonces, row : Allocation, count : 0..MaxSignings]
    \cup [pc : {"mark"}, mined : 0..MaxNonce]
    \cup [pc : {"settle"}, n : Nonces, row : Allocation, count : 0..MaxSignings,
          to : {"mined", "cancelled"}]
    \cup [pc : {"proved", "given"}, op : Ops, n : Nonces]

Live(n) == alloc[n].status = "live"
Used == {n \in Nonces : alloc[n].status # "free"}

\* KeyLaneTxn.ByOp.
Holder(o) == {n \in Nonces : alloc[n].key /\ alloc[n].call = o}

\* sameCall: the signings of n's own call.  A fill and its cancel are one call.
Own(n, i) == alloc[n].call = "fill" \/ ~txs[n][i].cancel
OwnSignings(n) == {i \in DOMAIN txs[n] : Own(n, i)}
CancelSignings(n) == {i \in DOMAIN txs[n] : alloc[n].call = "fill" \/ txs[n][i].cancel}
\* receiptBlock: the receipt of one of n's signings among S, at least deep.
Receipt(n, S, deep) == n \in DOMAIN chain /\ chain[n].tx \in S /\ (deep => n <= final)

\* currentSigning: the accepted one, else the latest live one, else the latest.
IsCurrent(n, i) ==
    LET live == {j \in DOMAIN txs[n] : txs[n][j].status # "refused"}
        S == IF alloc[n].accepted # 0 THEN {alloc[n].accepted}
             ELSE IF live = {} THEN DOMAIN txs[n] ELSE live
    IN  i \in S /\ \A j \in S : j <= i

\* TransactionKnown: the node answers for what it holds or has mined.
NodeKnows(n, i) == <<n, i>> \in known \/ Receipt(n, {i}, FALSE)

\* The version an update names: Save and RecordTx change one of the two.
Unchanged(t) == alloc[thread[t].n] = thread[t].row /\ Len(txs[thread[t].n]) = thread[t].count

At(t, pc) == thread[t].pc = pc
Goto(t, state) == thread' = [thread EXCEPT ![t] = state]
Stop(t) == Goto(t, Idle)
Onward(n, then) == IF then = "idle" THEN Idle ELSE [pc |-> then, n |-> n]
GoHold(t, n) == Goto(t, [pc |-> "holding", n |-> n, then |-> "idle"])
\* unholdLocked.
Unhold(n) == hold' = IF hold = n THEN 0 ELSE hold

Init ==
    /\ alloc = [n \in Nonces |-> Free]
    /\ txs = [n \in Nonces |-> <<>>]
    /\ retired = [o \in Ops |-> [seq |-> 0, permanent |-> FALSE]]
    /\ hold = 0
    /\ leg = [o \in Ops |-> [status |-> "none", nonce |-> 0]]
    /\ chain = <<>> /\ final = 0
    /\ out = {} /\ known = {}
    /\ thread = [t \in Threads |-> Idle]

-----------------------------------------------------------------------------
(* The chain and the lane's node. *)

Mine(i) ==
    LET n == Len(chain) + 1 IN
    /\ <<n, i>> \in out
    /\ \E ok \in (IF Own(n, i) THEN BOOLEAN ELSE {TRUE}) :
          chain' = Append(chain, [tx |-> i, ok |-> ok])
    /\ known' = {x \in known : x[1] # n}
    /\ UNCHANGED <<recordVars, final, out, thread>>

\* Something outside the server uses the key.
MineForeign ==
    /\ Cardinality({n \in DOMAIN chain : chain[n].tx = 0}) < Foreign
    /\ Len(chain) < MaxNonce
    /\ chain' = Append(chain, [tx |-> 0, ok |-> TRUE])
    /\ known' = {x \in known : x[1] # Len(chain) + 1}
    /\ UNCHANGED <<recordVars, final, out, thread>>

\* Blocks become cancelDepth deep.
Finalize ==
    /\ final < Len(chain)
    /\ \E d \in (final + 1)..Len(chain) : final' = d
    /\ UNCHANGED <<recordVars, chain, out, known, thread>>

\* Blocks that are not that deep may be dropped.
Reorg ==
    /\ Reorgs
    /\ \E d \in final..(Len(chain) - 1) : chain' = SubSeq(chain, 1, d)
    /\ UNCHANGED <<recordVars, final, out, known, thread>>

\* The node forgets a pending transaction (a restart, a full pool, a replacement).
Evict ==
    /\ Evicts
    /\ \E x \in known : known' = known \ {x}
    /\ UNCHANGED <<recordVars, chain, final, out, thread>>

-----------------------------------------------------------------------------
(* A send. *)

\* sendCore up to the lock: the operation holds nothing, and this many give-ups
\* of it are known.  A hooked operation is sent for a leg that is pending.
Begin(t, o) ==
    /\ At(t, "idle")
    /\ Holder(o) = {}
    /\ o \in Hooked => leg[o].status = "pending"
    /\ Goto(t, [pc |-> "begun", op |-> o, seen |-> retired[o].seq])
    /\ UNCHANGED <<recordVars, chainVars>>

\* giveUpRefused: a read that failed, a hold, the fee gate or the build refuses
\* the attempt; "not sent" is answered only if nothing is allocated by now.
Refuse(t) ==
    /\ At(t, "begun")
    /\ IF Holder(thread[t].op) = {}
       THEN Goto(t, [pc |-> "refused", op |-> thread[t].op])
       ELSE Stop(t)
    /\ UNCHANGED <<recordVars, chainVars>>

\* The least unallocated nonce at or above the pending nonce of the node, whose
\* view may be behind the chain or ahead of it by what is not the lane's.
IsNext(n) ==
    /\ \A u \in Used : u < n
    /\ n = 1 \/ n - 1 \in Used \/ n <= Len(chain) + 1 + Foreign

\* LaneHook = SetTxHash: the leg is pending and has no transaction.
Hook(o, n) ==
    IF o \in Hooked
    THEN /\ leg[o] = [status |-> "pending", nonce |-> 0]
         /\ leg' = [leg EXCEPT ![o] = [status |-> "pending", nonce |-> n]]
    ELSE leg' = leg

\* Mutant: the allocation does not look at the tombstone.
CommitUnasked(t) ==
    /\ At(t, "begun")
    /\ LET o == thread[t].op IN
       /\ Holder(o) = {} /\ hold = 0
       /\ \E n \in Nonces :
             /\ IsNext(n)
             /\ Hook(o, n)
             /\ alloc' = [alloc EXCEPT ![n] = Fresh(o, TRUE, thread[t].seen)]
             /\ txs' = [txs EXCEPT ![n] = <<[cancel |-> FALSE, status |-> "signed"]>>]
             /\ Goto(t, [pc |-> "signed", n |-> n, i |-> 1, then |-> "idle"])
    /\ UNCHANGED <<retired, hold, chainVars>>

\* The allocation transaction: the nonce, its first signing and the caller's
\* own record, or nothing.
Commit(t) ==
    /\ At(t, "begun")
    /\ LET o == thread[t].op IN
       /\ Holder(o) = {}
       /\ hold = 0
       /\ ~retired[o].permanent
       /\ retired[o].seq <= thread[t].seen
       /\ \E n \in Nonces :
             /\ IsNext(n)
             /\ Hook(o, n)
             /\ alloc' = [alloc EXCEPT ![n] = Fresh(o, TRUE, thread[t].seen)]
             /\ txs' = [txs EXCEPT ![n] = <<[cancel |-> FALSE, status |-> "signed"]>>]
             /\ Goto(t, [pc |-> "signed", n |-> n, i |-> 1, then |-> "idle"])
    /\ UNCHANGED <<retired, hold, chainVars>>

\* broadcastRaw: what left stays out for good; an uncertain answer says nothing
\* of whether it did.
Broadcast(t) ==
    /\ At(t, "signed")
    /\ LET x == <<thread[t].n, thread[t].i>> IN
       \E got \in Answers :
          /\ got = "accepted" => thread[t].n > Len(chain)
          /\ \/ got \in {"accepted", "uncertain"} /\ out' = out \cup {x} /\ known' = known \cup {x}
             \/ got # "accepted" /\ UNCHANGED <<out, known>>
          /\ Goto(t, [pc |-> "sent", n |-> x[1], i |-> x[2],
                      then |-> thread[t].then, got |-> got])
    /\ UNCHANGED <<recordVars, chain, final>>

\* What recordOutcome makes of the signings and the row, by the node's answer.
RecordLeft(n, i, got) ==
    /\ txs' = [txs EXCEPT ![n] = [j \in DOMAIN txs[n] |->
                 IF j = i \/ (got = "accepted" /\ txs[n][j].status = "signed")
                 THEN [txs[n][j] EXCEPT !.status = "left"] ELSE txs[n][j]]]
    /\ alloc' = IF got = "accepted" THEN [alloc EXCEPT ![n].accepted = i] ELSE alloc

\* The node will never take this signing of the call.
Unsendable(n, i, got) ==
    /\ got \in {"intrinsic", "fee_cap"} /\ txs[n][i].status = "signed"
    /\ alloc[n].status # "mined" /\ ~alloc[n].cancel /\ Own(n, i)

\* A cheaper signing may still be mined: the lane is to be held.
HoldDue(n, i, got) ==
    /\ Unsendable(n, i, got)
    /\ alloc[n].accepted # 0 \/ (got = "fee_cap" /\ i # 1)

\* A signing that has left before may still be mined: it stays live.  With an
\* accepted signing there are no more bumps; with none that can ever be
\* accepted the call is cancelled.
RecordRefused(n, i, got) ==
    IF txs[n][i].status # "signed" THEN UNCHANGED <<txs, alloc>>
    ELSE /\ txs' = [txs EXCEPT ![n][i].status = "refused"]
         /\ alloc' = IF ~Unsendable(n, i, got) THEN alloc
                     ELSE IF alloc[n].accepted # 0
                     THEN [alloc EXCEPT ![n].limit = alloc[n].bumps]
                     ELSE IF HoldDue(n, i, got) THEN alloc
                     ELSE [alloc EXCEPT ![n].cancel = TRUE]

\* recordOutcome under the lock.  Its hold is put after the lock, and before
\* the thread goes on: a re-sent signing that was refused is sped up next.
Record(t) ==
    /\ At(t, "sent")
    /\ LET n == thread[t].n
           i == thread[t].i
           got == thread[t].got
           left == got \in {"accepted", "uncertain"}
           then == IF left /\ thread[t].then = "reread" THEN "idle" ELSE thread[t].then
       IN  /\ IF alloc[n].status = "mined" THEN UNCHANGED <<txs, alloc>>
              ELSE IF left THEN RecordLeft(n, i, got)
              ELSE RecordRefused(n, i, got)
           /\ Goto(t, IF HoldDue(n, i, got) THEN [pc |-> "holding", n |-> n, then |-> then]
                      ELSE Onward(n, then))
    /\ UNCHANGED <<retired, hold, leg, chainVars>>

\* hold takes the lock anew.  A process that knows of a hold sets none; one that
\* does not yet moves it.
PutHold(t) ==
    /\ At(t, "holding")
    /\ hold' \in IF hold = 0 THEN {thread[t].n} ELSE {hold, thread[t].n}
    /\ Goto(t, Onward(thread[t].n, thread[t].then))
    /\ UNCHANGED <<alloc, txs, retired, leg, chainVars>>

-----------------------------------------------------------------------------
(* The upkeep: the keeper's tick, and every send before it allocates. *)

Signs(n, cancel) == [txs EXCEPT ![n] = Append(txs[n], [cancel |-> cancel, status |-> "signed"])]

\* Mutant: what was sent once is taken to be with the node still.
LookTrusting(t, n) ==
    /\ At(t, "idle")
    /\ hold = 0
    /\ n > Len(chain)
    /\ Live(n) /\ ~alloc[n].cancel
    /\ \A i \in DOMAIN txs[n] : txs[n][i].status = "refused"
    /\ Goto(t, [pc |-> "bump", n |-> n, row |-> alloc[n], count |-> Len(txs[n])])
    /\ UNCHANGED <<recordVars, chainVars>>

\* reviewGap at a pending nonce: the row and its signings are read, the node is
\* asked for each, and only then is the row changed.
Look(t, n) ==
    /\ At(t, "idle")
    /\ hold = 0
    /\ n > Len(chain)
    /\ Live(n) /\ ~alloc[n].cancel
    /\ \A i \in DOMAIN txs[n] : txs[n][i].status # "refused" => ~NodeKnows(n, i)
    /\ \E i \in DOMAIN txs[n] :
          /\ IsCurrent(n, i)
          /\ Goto(t, IF ~alloc[n].again /\ txs[n][i].status # "refused"
                     THEN [pc |-> "resend", n |-> n, i |-> i, row |-> alloc[n],
                           count |-> Len(txs[n])]
                     ELSE [pc |-> "bump", n |-> n, row |-> alloc[n], count |-> Len(txs[n])])
    /\ UNCHANGED <<recordVars, chainVars>>

\* Mutant: only the nonce right above the hole is looked at, once it is mined.
HoldHoleLate(t, n) ==
    /\ At(t, "idle")
    /\ hold = 0
    /\ n > Len(chain) /\ n \notin Used
    /\ n < MaxNonce /\ alloc[n + 1].status = "mined"
    /\ GoHold(t, n)
    /\ UNCHANGED <<recordVars, chainVars>>

\* A hole: nobody allocated n and live nonces wait above it.  It is to be held.
HoldHole(t, n) ==
    /\ At(t, "idle")
    /\ hold = 0
    /\ n > Len(chain) /\ n \notin Used
    /\ \E m \in Nonces : m > n /\ Live(m)
    /\ GoHold(t, n)
    /\ UNCHANGED <<recordVars, chainVars>>

\* Mutant: the row is saved as it was read, whatever its version is now.
ResendStale(t) ==
    /\ At(t, "resend")
    /\ alloc' = [alloc EXCEPT ![thread[t].n] = [thread[t].row EXCEPT !.again = TRUE]]
    /\ Goto(t, [pc |-> "signed", n |-> thread[t].n, i |-> thread[t].i, then |-> "reread"])
    /\ UNCHANGED <<txs, retired, hold, leg, chainVars>>

Resend(t) ==
    /\ At(t, "resend")
    /\ Unchanged(t)
    /\ alloc' = [alloc EXCEPT ![thread[t].n].again = TRUE]
    /\ Goto(t, [pc |-> "signed", n |-> thread[t].n, i |-> thread[t].i, then |-> "reread"])
    /\ UNCHANGED <<txs, retired, hold, leg, chainVars>>

\* A re-send that was refused: the row is read anew, outside the lock.
Reread(t) ==
    /\ At(t, "reread")
    /\ LET n == thread[t].n IN
       Goto(t, [pc |-> "bump", n |-> n, row |-> alloc[n], count |-> Len(txs[n])])
    /\ UNCHANGED <<recordVars, chainVars>>

\* speedUp: the same call at the next price, or a hold at the limit or the cap.
SpeedUp(t) ==
    /\ At(t, "bump")
    /\ Unchanged(t)
    /\ LET n == thread[t].n IN
       /\ Live(n) /\ ~alloc[n].cancel
       /\ alloc[n].bumps < alloc[n].limit
       /\ Len(txs[n]) < MaxSignings
       /\ txs' = Signs(n, FALSE)
       /\ alloc' = [alloc EXCEPT ![n].bumps = alloc[n].bumps + 1]
       /\ Goto(t, [pc |-> "signed", n |-> n, i |-> Len(txs[n]) + 1, then |-> "idle"])
    /\ UNCHANGED <<retired, hold, leg, chainVars>>

SpeedUpCapped(t) ==
    /\ At(t, "bump")
    /\ Unchanged(t)
    /\ LET n == thread[t].n IN
       /\ Live(n) /\ ~alloc[n].cancel
       /\ alloc[n].bumps >= alloc[n].limit \/ Len(txs[n]) = MaxSignings
       /\ GoHold(t, n)
    /\ UNCHANGED <<recordVars, chainVars>>

\* reviewCancel, with the same reads before the lock.
LookCancel(t, n) ==
    /\ At(t, "idle")
    /\ hold = 0
    /\ n > Len(chain)
    /\ Live(n) /\ alloc[n].cancel
    /\ \A i \in CancelSignings(n) : ~NodeKnows(n, i)
    /\ Goto(t, [pc |-> "cancelling", n |-> n, row |-> alloc[n], count |-> Len(txs[n])])
    /\ UNCHANGED <<recordVars, chainVars>>

SignCancel(t) ==
    /\ At(t, "cancelling")
    /\ Unchanged(t)
    /\ LET n == thread[t].n IN
       /\ Live(n) /\ alloc[n].cancel
       /\ Len(txs[n]) < MaxSignings
       /\ txs' = Signs(n, TRUE)
       /\ Goto(t, [pc |-> "signed", n |-> n, i |-> Len(txs[n]) + 1, then |-> "idle"])
    /\ UNCHANGED <<alloc, retired, hold, leg, chainVars>>

CancelCapped(t) ==
    /\ At(t, "cancelling")
    /\ Unchanged(t)
    /\ LET n == thread[t].n IN
       /\ Live(n) /\ alloc[n].cancel
       /\ Len(txs[n]) = MaxSignings
       /\ GoHold(t, n)
    /\ UNCHANGED <<recordVars, chainVars>>

\* Mutant: the next nonce is taken for the number of mined ones.
ReadMinedNext(t) ==
    /\ At(t, "idle")
    /\ Len(chain) > 0
    /\ Goto(t, [pc |-> "mark", mined |-> Len(chain) + 1])
    /\ UNCHANGED <<recordVars, chainVars>>

\* Watch reads how many nonces the chain has mined ...
ReadMined(t) ==
    /\ At(t, "idle")
    /\ Len(chain) > 0
    /\ Goto(t, [pc |-> "mark", mined |-> Len(chain)])
    /\ UNCHANGED <<recordVars, chainVars>>

\* ... and MarkMined settles every call below it that is not being cancelled,
\* frees its operation key, and drops a hold the chain has passed.
MarkMined(t) ==
    /\ At(t, "mark")
    /\ LET mined == thread[t].mined IN
       /\ alloc' = [n \in Nonces |->
             IF n <= mined /\ Live(n) /\ ~alloc[n].cancel
             THEN [alloc[n] EXCEPT !.status = "mined", !.key = FALSE] ELSE alloc[n]]
       /\ txs' = [n \in Nonces |->
             [i \in DOMAIN txs[n] |->
                IF n <= mined /\ txs[n][i].status = "signed"
                THEN [txs[n][i] EXCEPT !.status = "left"] ELSE txs[n][i]]]
       /\ hold' = IF hold <= mined THEN 0 ELSE hold
    /\ Stop(t)
    /\ UNCHANGED <<retired, leg, chainVars>>

\* Mutant: a cancel is believed as soon as it is mined.
ReadReceiptsShallow(t, n) ==
    /\ At(t, "idle")
    /\ Live(n) /\ alloc[n].cancel
    /\ Receipt(n, OwnSignings(n) \cup CancelSignings(n), FALSE)
    /\ Goto(t, [pc |-> "settle", n |-> n, row |-> alloc[n], count |-> Len(txs[n]),
                to |-> IF Receipt(n, OwnSignings(n), FALSE) THEN "mined" ELSE "cancelled"])
    /\ UNCHANGED <<recordVars, chainVars>>

\* resolveCancels: by receipts, the call was executed, or its cancel is deep.
ReadReceipts(t, n) ==
    /\ At(t, "idle")
    /\ Live(n) /\ alloc[n].cancel
    /\ \/ Receipt(n, OwnSignings(n), FALSE)
       \/ Receipt(n, CancelSignings(n), TRUE)
    /\ Goto(t, [pc |-> "settle", n |-> n, row |-> alloc[n], count |-> Len(txs[n]),
                to |-> IF Receipt(n, OwnSignings(n), FALSE) THEN "mined" ELSE "cancelled"])
    /\ UNCHANGED <<recordVars, chainVars>>

Resolve(t) ==
    /\ At(t, "settle")
    /\ Unchanged(t)
    /\ alloc' = [alloc EXCEPT ![thread[t].n].status = thread[t].to, ![thread[t].n].key = FALSE]
    /\ Stop(t)
    /\ UNCHANGED <<txs, retired, hold, leg, chainVars>>

-----------------------------------------------------------------------------
(* A super-admin. *)

RequestCancel(n) ==
    /\ Live(n)
    /\ alloc' = [alloc EXCEPT ![n].cancel = TRUE]
    /\ Unhold(n)
    /\ UNCHANGED <<txs, retired, leg, chainVars, thread>>

\* RetrySpeedUp; RaisePriceCap does the same to the row.
RetrySpeedUp(n) ==
    /\ Live(n) /\ ~alloc[n].cancel
    /\ alloc' = [alloc EXCEPT ![n].limit = alloc[n].bumps + MaxBumps]
    /\ Unhold(n)
    /\ UNCHANGED <<txs, retired, leg, chainVars, thread>>

RaisePriceCap(n) ==
    /\ Live(n)
    /\ alloc' = [alloc EXCEPT ![n].limit = alloc[n].bumps + MaxBumps]
    /\ Unhold(n)
    /\ UNCHANGED <<txs, retired, leg, chainVars, thread>>

ClearHold ==
    /\ hold # 0
    /\ ~alloc[hold].cancel /\ alloc[hold].status # "cancelled"
    /\ hold' = 0
    /\ UNCHANGED <<alloc, txs, retired, leg, chainVars, thread>>

\* FillGap: by the chain and the record read before the lock, n is a hole ...
FillGap(t, n) ==
    /\ At(t, "idle")
    /\ n > Len(chain)
    /\ \E m \in Used : m > n
    /\ Goto(t, [pc |-> "filling", n |-> n])
    /\ UNCHANGED <<recordVars, chainVars>>

\* ... fillHole takes it for a self-transfer if still nobody has it; the same
\* thread broadcasts ...
FillHole(t) ==
    /\ At(t, "filling")
    /\ LET n == thread[t].n IN
       /\ n \notin Used
       /\ alloc' = [alloc EXCEPT ![n] = Fresh("fill", FALSE, 0)]
       /\ txs' = [txs EXCEPT ![n] = <<[cancel |-> FALSE, status |-> "signed"]>>]
       /\ Goto(t, [pc |-> "signed", n |-> n, i |-> 1, then |-> "unhold"])
    /\ UNCHANGED <<retired, hold, leg, chainVars>>

\* ... and ends the hold once that is recorded.
UnholdFilled(t) ==
    /\ At(t, "unhold")
    /\ Unhold(thread[t].n)
    /\ Stop(t)
    /\ UNCHANGED <<alloc, txs, retired, leg, chainVars>>

-----------------------------------------------------------------------------
(* The callers: legs are reserved, confirmed and given up. *)

\* KeyLaneTxn.RetireOp when nothing holds the operation.
RetireOp(o, permanent) ==
    /\ Holder(o) = {}
    /\ retired[o].seq < MaxGiveUps
    /\ retired' = [retired EXCEPT ![o] =
          [seq |-> retired[o].seq + 1, permanent |-> retired[o].permanent \/ permanent]]

\* A leg is reserved when no other attempt at its payment may still pay.
Reserve(o) ==
    /\ o \in Hooked
    /\ leg[o].status = "none"
    /\ \A p \in Hooked \ {o} : Payment[p] = Payment[o] => leg[p].status \in {"none", "failed"}
    /\ leg' = [leg EXCEPT ![o].status = "pending"]
    /\ UNCHANGED <<alloc, txs, retired, hold, chainVars, thread>>

Pending(o) == o \in Hooked /\ leg[o].status = "pending"

\* Mutant: the first receipt that succeeded settles the leg.
ConfirmShallow(o) ==
    /\ Pending(o) /\ leg[o].nonce # 0
    /\ LET n == leg[o].nonce IN Receipt(n, OwnSignings(n), FALSE) /\ chain[n].ok
    /\ leg' = [leg EXCEPT ![o].status = "confirmed"]
    /\ UNCHANGED <<alloc, txs, retired, hold, chainVars, thread>>

\* settleSale: a receipt of the call that succeeded and is deep.
Confirm(o) ==
    /\ Pending(o) /\ leg[o].nonce # 0
    /\ LET n == leg[o].nonce IN Receipt(n, OwnSignings(n), TRUE) /\ chain[n].ok
    /\ leg' = [leg EXCEPT ![o].status = "confirmed"]
    /\ UNCHANGED <<alloc, txs, retired, hold, chainVars, thread>>

\* FailExpected: only while the leg still shows that transaction, or none (0).
FailLeg(o, n) ==
    leg' = IF leg[o] = [status |-> "pending", nonce |-> n]
           THEN [leg EXCEPT ![o] = [status |-> "failed", nonce |-> n]] ELSE leg

\* "Not sent": a hooked leg that still shows no transaction is failed
\* (failLeg); an operation without a hook is given up (operatorBroadcastLocked).
NotSent(t) ==
    /\ At(t, "refused")
    /\ LET o == thread[t].op IN
       IF o \in Hooked
       THEN FailLeg(o, 0) /\ retired' = retired
       ELSE RetireOp(o, FALSE) /\ leg' = leg
    /\ Stop(t)
    /\ UNCHANGED <<alloc, txs, hold, chainVars>>

\* recoverHashless: a leg that shows no transaction for long is given up for
\* good, and failed only after that.
RecoverHashless(t, o) ==
    /\ At(t, "idle")
    /\ Pending(o) /\ leg[o].nonce = 0
    /\ RetireOp(o, TRUE)
    /\ Goto(t, [pc |-> "freed", op |-> o])
    /\ UNCHANGED <<alloc, txs, hold, leg, chainVars>>

FailFreed(t) ==
    /\ At(t, "freed")
    /\ FailLeg(thread[t].op, 0)
    /\ Stop(t)
    /\ UNCHANGED <<alloc, txs, retired, hold, chainVars>>

\* followLeg: the lane says the call was cancelled, and the chain shows it now.
FollowCancelled(t, o) ==
    /\ At(t, "idle")
    /\ Pending(o) /\ leg[o].nonce # 0
    /\ LET n == leg[o].nonce IN
       /\ alloc[n].status = "cancelled"
       /\ ~Receipt(n, OwnSignings(n), FALSE)
       /\ Receipt(n, CancelSignings(n), TRUE)
       /\ Goto(t, [pc |-> "proved", op |-> o, n |-> n])
    /\ UNCHANGED <<recordVars, chainVars>>

\* giveUp by key and by hash: a call not resolved as cancelled is not given up.
GiveUp(t) ==
    /\ At(t, "proved")
    /\ LET o == thread[t].op IN
       /\ alloc[thread[t].n].status = "cancelled"
       /\ RetireOp(o, TRUE)
       /\ Goto(t, [pc |-> "given", op |-> o, n |-> thread[t].n])
    /\ UNCHANGED <<alloc, txs, hold, leg, chainVars>>

\* Mutant: the first receipt that reverted frees the leg.
FollowRevertedShallow(t, o) ==
    /\ At(t, "idle")
    /\ Pending(o) /\ leg[o].nonce # 0
    /\ LET n == leg[o].nonce IN
       /\ Receipt(n, OwnSignings(n), FALSE) /\ ~chain[n].ok
       /\ Goto(t, [pc |-> "given", op |-> o, n |-> n])
    /\ UNCHANGED <<recordVars, chainVars>>

\* A receipt of the call that reverted and is deep needs no give-up.
FollowReverted(t, o) ==
    /\ At(t, "idle")
    /\ Pending(o) /\ leg[o].nonce # 0
    /\ LET n == leg[o].nonce IN
       /\ Receipt(n, OwnSignings(n), TRUE) /\ ~chain[n].ok
       /\ Goto(t, [pc |-> "given", op |-> o, n |-> n])
    /\ UNCHANGED <<recordVars, chainVars>>

FailGiven(t) ==
    /\ At(t, "given")
    /\ FailLeg(thread[t].op, thread[t].n)
    /\ Stop(t)
    /\ UNCHANGED <<alloc, txs, retired, hold, chainVars>>

\* A crash, a timeout, or an update that finds its row changed.
Abandon(t) ==
    /\ ~At(t, "idle")
    /\ Stop(t)
    /\ UNCHANGED <<recordVars, chainVars>>

-----------------------------------------------------------------------------
Network == (\E i \in Index : Mine(i)) \/ MineForeign \/ Finalize \/ Reorg \/ Evict

Sender(t) ==
    \/ \E o \in Ops : Begin(t, o)
    \/ Refuse(t) \/ Commit(t) \/ NotSent(t)

Upkeep(t) ==
    \/ \E n \in Nonces :
          Look(t, n) \/ HoldHole(t, n) \/ LookCancel(t, n) \/ ReadReceipts(t, n)
    \/ Resend(t) \/ Reread(t) \/ SpeedUp(t) \/ SpeedUpCapped(t)
    \/ SignCancel(t) \/ CancelCapped(t)
    \/ ReadMined(t) \/ MarkMined(t) \/ Resolve(t)

Admin ==
    \/ \E n \in Nonces : RequestCancel(n) \/ RetrySpeedUp(n) \/ RaisePriceCap(n)
    \/ ClearHold

Filler(t) == (\E n \in Nonces : FillGap(t, n)) \/ FillHole(t) \/ UnholdFilled(t)

Caller(t) ==
    \/ \E o \in Ops :
          RecoverHashless(t, o) \/ FollowCancelled(t, o) \/ FollowReverted(t, o)
    \/ FailFreed(t) \/ GiveUp(t) \/ FailGiven(t)

Next ==
    \/ Network
    \/ \E t \in Senders : Sender(t)
    \/ \E t \in Keepers : Upkeep(t) \/ Filler(t) \/ Caller(t)
    \/ \E t \in Threads : Broadcast(t) \/ Record(t) \/ PutHold(t) \/ Abandon(t)
    \/ Admin
    \/ \E o \in Ops : Reserve(o) \/ Confirm(o)

Spec == Init /\ [][Next]_vars

\* What a tick does at the first nonce the chain has not mined: at most one of
\* these is possible.
ReviewNext(k) ==
    \E n \in Nonces : n = Len(chain) + 1 /\ (Look(k, n) \/ LookCancel(k, n) \/ HoldHole(k, n))

\* What it does below, when there is something to settle.
SettlePassed(k) ==
    \/ ReadMined(k) /\ \E n \in DOMAIN chain : hold = n \/ (Live(n) /\ ~alloc[n].cancel)
    \/ \E n \in Nonces : ReadReceipts(k, n)

Busy(k) ==
    \/ Resend(k) \/ Reread(k) \/ SpeedUp(k) \/ SpeedUpCapped(k) \/ SignCancel(k) \/ CancelCapped(k)
    \/ MarkMined(k) \/ Resolve(k) \/ FillHole(k) \/ UnholdFilled(k)
    \/ Broadcast(k) \/ Record(k) \/ PutHold(k)

\* Every process runs the tick every 30 seconds.  What one fails to read or to
\* send a later one does: ticks do not fail for ever.  The chain mines the next
\* transaction its node keeps, and blocks get deep.
Fairness ==
    /\ WF_vars(\E i \in Index : <<Len(chain) + 1, i>> \in known /\ Mine(i))
    /\ WF_vars(Finalize)
    /\ \A k \in Keepers :
         /\ WF_vars(Busy(k) \/ Abandon(k))
         /\ SF_vars(ReviewNext(k)) /\ SF_vars(SettlePassed(k))
         /\ <>[][Abandon(k) => ~ENABLED Busy(k)]_vars

FairSpec == Spec /\ Fairness

-----------------------------------------------------------------------------
(* Properties. *)

TypeOK ==
    /\ alloc \in [Nonces -> Allocation]
    /\ txs \in [Nonces -> Seq(Signing)]
    /\ \A n \in Nonces : Len(txs[n]) <= MaxSignings
    /\ retired \in [Ops -> Tombstone]
    /\ hold \in 0..MaxNonce
    /\ leg \in [Ops -> Leg]
    /\ chain \in Seq(Block) /\ Len(chain) <= MaxNonce
    /\ final \in 0..Len(chain)
    /\ out \subseteq Nonces \X Index /\ known \subseteq Nonces \X Index
    /\ thread \in [Threads -> Thread]

\* The nonces at which the chain carries out o's call and it succeeds.
Paid(o) == {n \in DOMAIN chain :
              alloc[n].call = o /\ chain[n].tx \in OwnSignings(n) /\ chain[n].ok}

\* However sends, give-ups, cancels and reorganisations interleave, the chain
\* never carries out two attempts at one payment, nor one attempt twice.
PaidOnce ==
    \A o, p \in Hooked : Payment[o] = Payment[p] =>
        \A n \in Paid(o), m \in Paid(p) : n = m

\* A leg that was failed is one whose call was never carried out and never will
\* be; a leg that was confirmed is one whose call was, for good.
LegTellsTheTruth ==
    \A o \in Hooked :
        /\ leg[o].status = "failed" => Paid(o) = {}
        /\ leg[o].status = "confirmed" => Paid(o) # {}

\* A nonce recorded as cancelled mined its cancel, below every reorganisation.
CancelIsFinal ==
    \A n \in Nonces : alloc[n].status = "cancelled" =>
        Receipt(n, CancelSignings(n), TRUE)

\* An attempt begun before its operation was given up never gets a nonce: what
\* holds an operation's key began after every give-up of it.
GiveUpIsFinal ==
    \A n \in Nonces : alloc[n].key =>
        /\ alloc[n].born = retired[alloc[n].call].seq
        /\ ~retired[alloc[n].call].permanent

\* No stale write: a settled nonce stays as it was settled, a nonce never
\* changes hands, and what is being cancelled is never sent on as the call.
SettledStays ==
    [][\A n \in Nonces :
         /\ alloc[n].status \in {"mined", "cancelled"} => alloc'[n].status = alloc[n].status
         /\ n \in Used => alloc'[n].call = alloc[n].call
         /\ alloc[n].cancel =>
              /\ alloc'[n].cancel
              /\ \A i \in DOMAIN txs'[n] : i > Len(txs[n]) => Own(n, i)' = (alloc[n].call = "fill")]_vars

\* The lane never waits in silence: a committed nonce is settled, or the lane is
\* held and says so, or something else took the nonce.
LaneMoves ==
    \A n \in Nonces :
        Live(n) ~> \/ ~Live(n) \/ hold # 0
                   \/ n \in DOMAIN chain /\ chain[n].tx = 0
=============================================================================
