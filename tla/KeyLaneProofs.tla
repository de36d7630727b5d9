---------------------------- MODULE KeyLaneProofs ----------------------------
(***************************************************************************)
(* Theorems about KeyLane for any number of threads, operations, nonces,    *)
(* signings and give-ups.  Two facts carry them: what is deep in the chain  *)
(* stays (DeepKept), and a nonce that was handed out keeps its call and     *)
(* the signings it has (Grows).  So a call that is known to be carried out  *)
(* or never to be carried out stays that (FateStays).                       *)
(***************************************************************************)
EXTENDS KeyLane, TLAPS

\* The nonce is used up for good, by something else than its call, or by the
\* call reverting; or its call is carried out for good.
Deep(n) == n \in DOMAIN chain /\ n <= final
Dead(n) == Deep(n) /\ ~(chain[n].tx \in OwnSignings(n) /\ chain[n].ok)
Sound(n) == Deep(n) /\ chain[n].tx \in OwnSignings(n) /\ chain[n].ok

RowIsWhole(n) ==
    /\ alloc[n].status = "free" => alloc[n].call = "none" /\ txs[n] = <<>>
    /\ alloc[n].status # "free" => alloc[n].call # "none"
    /\ alloc[n].key => alloc[n].status = "live" /\ alloc[n].call \in Ops
RowsAreWhole == \A n \in Nonces : RowIsWhole(n)

\* What left, and what is mined, was recorded before.
OnlyRecordedLeaves ==
    /\ \A n \in Nonces, i \in Index : <<n, i>> \in out => i \in DOMAIN txs[n]
    /\ \A n \in DOMAIN chain : chain[n].tx <= Len(txs[n])

\* What a thread still relies on of what it read.
ThreadIsRight(t) ==
    /\ At(t, "begun") => thread[t].seen <= retired[thread[t].op].seq
    /\ thread[t].pc \in {"signed", "sent", "resend"} => thread[t].i \in DOMAIN txs[thread[t].n]
    /\ At(t, "settle") =>
         /\ thread[t].row.status = "live"
         /\ thread[t].to = "cancelled" =>
              \A n \in Nonces : n = thread[t].n => Receipt(n, CancelSignings(n), TRUE)
    /\ thread[t].pc \in {"proved", "given"} =>
         \A n \in Nonces : n = thread[t].n => Dead(n)
ThreadsAreRight == \A t \in Threads : ThreadIsRight(t)

\* A leg names the only nonce its call ever had, and its status says what
\* became of it; a second attempt waits for the first to be failed.
LegIsRight(o) ==
    /\ \A n \in Nonces : alloc[n].call = o => leg[o].nonce = n
    /\ leg[o].nonce # 0 => alloc[leg[o].nonce].call = o
    /\ leg[o].status = "none" => leg[o].nonce = 0
    /\ leg[o].status = "failed" => leg[o].nonce = 0 \/ Dead(leg[o].nonce)
    /\ leg[o].status = "confirmed" => leg[o].nonce # 0 /\ Sound(leg[o].nonce)
LegsAreRight == \A o \in Hooked : LegIsRight(o)
OneAttempt ==
    \A o, p \in Hooked : o # p /\ Payment[o] = Payment[p] =>
        leg[o].status \in {"none", "failed"} \/ leg[p].status \in {"none", "failed"}

\* Nothing is being cancelled at a nonce nobody has.
FreeIsClean == \A n \in Nonces : alloc[n].status = "free" => ~alloc[n].cancel

LaneInv ==
    /\ TypeOK /\ RowsAreWhole /\ FreeIsClean /\ OnlyRecordedLeaves /\ ThreadsAreRight
    /\ LegsAreRight /\ OneAttempt /\ CancelIsFinal /\ GiveUpIsFinal

-----------------------------------------------------------------------------
(* Sequences and threads. *)

LEMMA RelabelledSeq ==
    ASSUME NEW S, NEW k \in Nat, NEW f \in [1..k -> S]
    PROVE  f \in Seq(S) /\ Len(f) = k
  OBVIOUS

\* What a thread's record holds, by where the thread is.
LEMMA ThreadFields ==
    ASSUME TypeOK, NEW t \in Threads
    PROVE  /\ At(t, "begun") => /\ thread[t].op \in Ops /\ thread[t].seen \in Nat
           /\ thread[t].pc \in {"refused", "freed"} => thread[t].op \in Ops
           /\ thread[t].pc \in {"signed", "sent", "resend"} =>
                thread[t].n \in Nonces /\ thread[t].i \in Index
           /\ thread[t].pc \in {"signed", "sent", "holding"} => thread[t].then \in After
           /\ thread[t].pc \in {"holding", "filling", "reread", "unhold"} => thread[t].n \in Nonces
           /\ At(t, "sent") => thread[t].got \in Answers
           /\ thread[t].pc \in {"resend", "bump", "cancelling", "settle"} =>
                /\ thread[t].n \in Nonces /\ thread[t].row \in Allocation
                /\ thread[t].count \in 0..MaxSignings
           /\ At(t, "mark") => thread[t].mined \in 0..MaxNonce
           /\ At(t, "settle") => thread[t].to \in {"mined", "cancelled"}
           /\ thread[t].pc \in {"proved", "given"} =>
                thread[t].op \in Ops /\ thread[t].n \in Nonces
<1> DEFINE x == thread[t]
<1>1. x \in Thread
  BY DEF TypeOK
<1> QED
  BY <1>1 DEF At, Thread, Idle

LEMMA OnwardType ==
    ASSUME NEW n \in Nonces, NEW then \in After
    PROVE  /\ Onward(n, then) \in Thread
           /\ Onward(n, then).pc \in {"idle", "reread", "unhold"}
  BY DEF Onward, After, Thread, Idle

LEMMA GotoType ==
    ASSUME TypeOK, NEW t \in Threads, NEW s \in Thread, Goto(t, s)
    PROVE  thread' \in [Threads -> Thread]
  BY DEF TypeOK, Goto

LEMMA StopType ==
    ASSUME TypeOK, NEW t \in Threads, Stop(t)
    PROVE  thread' \in [Threads -> Thread]
<1>1. Idle \in Thread
  BY DEF Thread
<1> QED
  BY <1>1, GotoType DEF Stop

\* What the types of the record say of one row.
LEMMA RowTypes ==
    ASSUME TypeOK, NEW n \in Nonces
    PROVE  /\ alloc[n] \in Allocation /\ txs[n] \in Seq(Signing)
           /\ Len(txs[n]) \in 0..MaxSignings /\ DOMAIN txs[n] = 1..Len(txs[n])
           /\ DOMAIN txs[n] \subseteq Index
           /\ \A i \in DOMAIN txs[n] : txs[n][i] \in Signing
<1>1. alloc[n] \in Allocation /\ txs[n] \in Seq(Signing) /\ Len(txs[n]) <= MaxSignings
  BY DEF TypeOK
<1>2. MaxSignings \in Nat
  BY LaneAssumption
<1> QED
  BY <1>1, <1>2 DEF Index

\* The record keeps its types when one row of it is replaced.
RecordTypes ==
    /\ alloc \in [Nonces -> Allocation]
    /\ txs \in [Nonces -> Seq(Signing)]
    /\ \A n \in Nonces : Len(txs[n]) <= MaxSignings
    /\ hold \in 0..MaxNonce
ChainTypes ==
    /\ chain \in Seq(Block) /\ Len(chain) <= MaxNonce
    /\ final \in 0..Len(chain)
    /\ out \subseteq Nonces \X Index /\ known \subseteq Nonces \X Index
CallerTypes == retired \in [Ops -> Tombstone] /\ leg \in [Ops -> Leg]

LEMMA TypeParts ==
    TypeOK <=> RecordTypes /\ ChainTypes /\ CallerTypes /\ thread \in [Threads -> Thread]
  BY DEF TypeOK, RecordTypes, ChainTypes, CallerTypes

LEMMA OneSigning ==
    ASSUME NEW c \in BOOLEAN
    PROVE  LET s == <<[cancel |-> c, status |-> "signed"]>> IN
           s \in Seq(Signing) /\ Len(s) = 1
  BY DEF Signing

LEMMA SignsType ==
    ASSUME TypeOK, NEW n \in Nonces, NEW c \in BOOLEAN, Len(txs[n]) < MaxSignings,
           txs' = Signs(n, c)
    PROVE  /\ txs' \in [Nonces -> Seq(Signing)]
           /\ \A m \in Nonces : Len(txs'[m]) <= MaxSignings
           /\ Len(txs[n]) + 1 \in Index
           /\ Len(txs'[n]) = Len(txs[n]) + 1
           /\ \A i \in DOMAIN txs[n] : txs'[n][i] = txs[n][i]
           /\ txs'[n][Len(txs[n]) + 1] = [cancel |-> c, status |-> "signed"]
           /\ \A m \in Nonces \ {n} : txs'[m] = txs[m]
<1> DEFINE e == [cancel |-> c, status |-> "signed"]
<1>1. e \in Signing
  BY DEF Signing
<1>2. txs \in [Nonces -> Seq(Signing)] /\ \A m \in Nonces : Len(txs[m]) <= MaxSignings
  BY DEF TypeOK
<1>3. txs' = [txs EXCEPT ![n] = Append(txs[n], e)]
  BY DEF Signs
<1>4. txs[n] \in Seq(Signing) /\ Len(txs[n]) \in Nat /\ MaxSignings \in Nat
      /\ DOMAIN txs[n] = 1..Len(txs[n])
  BY <1>2, LaneAssumption
<1> HIDE DEF e
<1>5. /\ Append(txs[n], e) \in Seq(Signing) /\ Len(Append(txs[n], e)) = Len(txs[n]) + 1
      /\ \A i \in DOMAIN txs[n] : Append(txs[n], e)[i] = txs[n][i]
      /\ Append(txs[n], e)[Len(txs[n]) + 1] = e
  BY <1>1, <1>4
<1>6. txs'[n] = Append(txs[n], e) /\ \A m \in Nonces \ {n} : txs'[m] = txs[m]
  BY <1>2, <1>3
<1>7. txs' \in [Nonces -> Seq(Signing)]
  BY <1>2, <1>3, <1>5
<1>8. \A m \in Nonces : Len(txs'[m]) <= MaxSignings
  <2> TAKE m \in Nonces
  <2>1. CASE m = n
    BY <2>1, <1>4, <1>5, <1>6
  <2>2. CASE m # n
    BY <2>2, <1>2, <1>6
  <2> QED
    BY <2>1, <2>2
<1>9. Len(txs[n]) + 1 \in Index
  BY <1>4 DEF Index
<1> QED
  BY <1>4, <1>5, <1>6, <1>7, <1>8, <1>9 DEF e

\* The first signing of a fresh nonce.
LEMMA FreshType ==
    ASSUME TypeOK, NEW n \in Nonces, NEW row \in Allocation,
           alloc' = [alloc EXCEPT ![n] = row],
           txs' = [txs EXCEPT ![n] = <<[cancel |-> FALSE, status |-> "signed"]>>]
    PROVE  /\ alloc' \in [Nonces -> Allocation]
           /\ txs' \in [Nonces -> Seq(Signing)]
           /\ \A m \in Nonces : Len(txs'[m]) <= MaxSignings
           /\ 1 \in Index
<1> DEFINE s == <<[cancel |-> FALSE, status |-> "signed"]>>
<1>1. s \in Seq(Signing) /\ Len(s) = 1
  BY OneSigning
<1> HIDE DEF s
<1>2. txs' = [txs EXCEPT ![n] = s]
  BY DEF s
<1>3. /\ txs \in [Nonces -> Seq(Signing)] /\ alloc \in [Nonces -> Allocation]
      /\ \A m \in Nonces : Len(txs[m]) <= MaxSignings
      /\ MaxSignings \in Nat \ {0}
  BY LaneAssumption DEF TypeOK
<1>4. txs'[n] = s /\ \A m \in Nonces \ {n} : txs'[m] = txs[m]
  BY <1>2, <1>3
<1>5. \A m \in Nonces : Len(txs'[m]) <= MaxSignings
  <2> TAKE m \in Nonces
  <2>1. CASE m = n
    BY <2>1, <1>1, <1>3, <1>4
  <2>2. CASE m # n
    BY <2>2, <1>3, <1>4
  <2> QED
    BY <2>1, <2>2
<1>6. txs' \in [Nonces -> Seq(Signing)]
  BY <1>1, <1>2, <1>3
<1> QED
  BY <1>3, <1>5, <1>6 DEF Index

\* Relabelling the signings of a nonce changes neither how many there are nor
\* which of them are cancels.
Relabelled(n) ==
    /\ Len(txs'[n]) = Len(txs[n]) /\ txs'[n] \in Seq(Signing)
    /\ \A i \in DOMAIN txs[n] : txs'[n][i].cancel = txs[n][i].cancel

\* The row is as it was, but for how it is to be sent.
SameRow(n) ==
    /\ alloc'[n].status = alloc[n].status /\ alloc'[n].call = alloc[n].call
    /\ alloc'[n].key = alloc[n].key /\ alloc'[n].born = alloc[n].born

\* What recordOutcome may do to the row n.
LEMMA RecordSteps ==
    ASSUME TypeOK, NEW t \in Threads, Record(t)
    PROVE  LET n == thread[t].n IN
           /\ n \in Nonces
           /\ alloc' \in [Nonces -> Allocation] /\ hold' \in 0..MaxNonce
           /\ \A m \in Nonces : Relabelled(m)
           /\ txs' \in [Nonces -> Seq(Signing)]
           /\ \A m \in Nonces \ {n} : alloc'[m] = alloc[m] /\ txs'[m] = txs[m]
           /\ SameRow(n)
           /\ alloc[n].cancel => alloc'[n].cancel
<1> DEFINE n == thread[t].n
           i == thread[t].i
           got == thread[t].got
<1>1. n \in Nonces /\ i \in Index /\ got \in Answers
  BY ThreadFields DEF Record, At
<1>2. /\ alloc \in [Nonces -> Allocation] /\ txs \in [Nonces -> Seq(Signing)]
      /\ hold \in 0..MaxNonce /\ Nonces = 1..MaxNonce /\ MaxNonce \in Nat
      /\ Index \subseteq 0..MaxSignings /\ MaxSignings \in Nat
  BY LaneAssumption DEF TypeOK, Nonces, Index
<1>3. \/ UNCHANGED <<txs, alloc>>
      \/ RecordLeft(n, i, got)
      \/ RecordRefused(n, i, got)
  BY DEF Record
<1>4. \A m \in Nonces : /\ Len(txs[m]) \in Nat /\ txs[m] \in Seq(Signing)
                        /\ DOMAIN txs[m] = 1..Len(txs[m])
                        /\ \A j \in DOMAIN txs[m] : txs[m][j] \in Signing
  BY <1>2
<1> HIDE DEF n, i, got
<1>5. hold' \in 0..MaxNonce
  BY <1>2 DEF Record
<1>6. /\ txs' \in [Nonces -> Seq(Signing)]
      /\ \A m \in Nonces : Relabelled(m)
      /\ \A m \in Nonces \ {n} : txs'[m] = txs[m]
  <2>1. CASE txs' = txs
    BY <2>1, <1>2, <1>4 DEF Relabelled
  <2>2. ASSUME NEW f \in [1..Len(txs[n]) -> Signing],
               \A j \in DOMAIN txs[n] : f[j].cancel = txs[n][j].cancel,
               txs' = [txs EXCEPT ![n] = f]
        PROVE  <1>6
    <3>1. f \in Seq(Signing) /\ Len(f) = Len(txs[n])
      BY <1>1, <1>4, RelabelledSeq
    <3>2. txs'[n] = f /\ \A m \in Nonces \ {n} : txs'[m] = txs[m]
      BY <1>1, <1>2, <2>2
    <3>3. txs' \in [Nonces -> Seq(Signing)]
      BY <1>2, <2>2, <3>1
    <3> QED
      BY <1>4, <2>2, <3>1, <3>2, <3>3 DEF Relabelled
  <2>3. CASE RecordLeft(n, i, got)
    <3> DEFINE f == [j \in DOMAIN txs[n] |->
                 IF j = i \/ (got = "accepted" /\ txs[n][j].status = "signed")
                 THEN [txs[n][j] EXCEPT !.status = "left"] ELSE txs[n][j]]
    <3>1. f \in [1..Len(txs[n]) -> Signing]
          /\ \A j \in DOMAIN txs[n] : f[j].cancel = txs[n][j].cancel
      BY <1>1, <1>4 DEF Signing
    <3>2. txs' = [txs EXCEPT ![n] = f]
      BY <2>3 DEF RecordLeft
    <3> HIDE DEF f
    <3> QED
      BY <2>2, <3>1, <3>2
  <2>4. CASE RecordRefused(n, i, got)
    <3> DEFINE f == [txs[n] EXCEPT ![i].status = "refused"]
    <3>a. DOMAIN txs[n] = 1..Len(txs[n]) /\ DOMAIN f = DOMAIN txs[n]
          /\ \A j \in DOMAIN txs[n] :
                txs[n][j] \in [cancel : BOOLEAN, status : {"signed", "left", "refused"}]
      BY <1>1, <1>4 DEF Signing
    <3>b. ASSUME NEW j \in DOMAIN txs[n]
          PROVE  f[j] \in Signing /\ f[j].cancel = txs[n][j].cancel
      <4>1. CASE j = i
        <5>1. f[j] = [txs[n][j] EXCEPT !.status = "refused"]
          BY <3>a, <4>1
        <5>2. txs[n][j] = [cancel |-> txs[n][j].cancel, status |-> txs[n][j].status]
              /\ txs[n][j].cancel \in BOOLEAN
          BY <3>a
        <5> QED
          BY <5>1, <5>2 DEF Signing
      <4>2. CASE j # i
        <5>1. f[j] = txs[n][j]
          BY <3>a, <4>2
        <5> QED
          BY <5>1, <1>1, <1>4
      <4> QED
        BY <4>1, <4>2
    <3>1. f \in [1..Len(txs[n]) -> Signing]
          /\ \A j \in DOMAIN txs[n] : f[j].cancel = txs[n][j].cancel
      BY <3>a, <3>b
    <3>2. txs' = [txs EXCEPT ![n] = f] \/ txs' = txs
      BY <2>4 DEF RecordRefused
    <3> HIDE DEF f
    <3> QED
      BY <2>1, <2>2, <3>1, <3>2
  <2> QED
    BY <1>3, <2>1, <2>3, <2>4
<1>7. /\ alloc' \in [Nonces -> Allocation]
      /\ \A m \in Nonces \ {n} : alloc'[m] = alloc[m]
      /\ SameRow(n)
      /\ alloc[n].cancel => alloc'[n].cancel
  <2>0. alloc[n] \in Allocation
    BY <1>1, <1>2
  <2>1. ASSUME NEW row \in Allocation, alloc' = [alloc EXCEPT ![n] = row],
               row.status = alloc[n].status, row.call = alloc[n].call,
               row.key = alloc[n].key, row.born = alloc[n].born,
               alloc[n].cancel => row.cancel
        PROVE  <1>7
    BY <2>1, <1>1, <1>2 DEF SameRow
  <2>2. CASE alloc' = alloc
    BY <2>2, <1>1, <1>2 DEF SameRow
  <2>3. CASE alloc' = [alloc EXCEPT ![n].accepted = i]
    <3> DEFINE row == [alloc[n] EXCEPT !.accepted = i]
    <3>1. row \in Allocation
      BY <2>0, <1>1, <1>2 DEF Allocation
    <3> QED
      BY <2>0, <2>1, <2>3, <3>1 DEF Allocation
  <2>4. CASE alloc' = [alloc EXCEPT ![n].limit = alloc[n].bumps]
    <3> DEFINE row == [alloc[n] EXCEPT !.limit = alloc[n].bumps]
    <3>1. row \in Allocation
      BY <2>0 DEF Allocation
    <3> QED
      BY <2>0, <2>1, <2>4, <3>1 DEF Allocation
  <2>5. CASE alloc' = [alloc EXCEPT ![n].cancel = TRUE]
    <3> DEFINE row == [alloc[n] EXCEPT !.cancel = TRUE]
    <3>1. row \in Allocation
      BY <2>0 DEF Allocation
    <3> QED
      BY <2>0, <2>1, <2>5, <3>1 DEF Allocation
  <2> QED
    BY <1>3, <2>2, <2>3, <2>4, <2>5 DEF RecordLeft, RecordRefused
<1> QED
  BY <1>1, <1>5, <1>6, <1>7 DEF n

-----------------------------------------------------------------------------
(* Every step keeps the types. *)

LEMMA NetworkTypes ==
    ASSUME TypeOK, Network
    PROVE  TypeOK'
<1>0. /\ chain \in Seq(Block) /\ Len(chain) \in Nat /\ Len(chain) <= MaxNonce
      /\ final \in 0..Len(chain) /\ MaxNonce \in Nat /\ MaxSignings \in Nat
      /\ out \subseteq Nonces \X Index /\ known \subseteq Nonces \X Index
  BY LaneAssumption DEF TypeOK
<1>1. ASSUME UNCHANGED <<recordVars, thread>>, ChainTypes'
      PROVE  TypeOK'
  BY <1>1 DEF recordVars, TypeOK, ChainTypes
<1>3. ASSUME NEW e \in Block, chain' = Append(chain, e), Len(chain) < MaxNonce,
             known' \subseteq known, final' = final, out' = out
      PROVE  ChainTypes'
  <2>1. chain' \in Seq(Block) /\ Len(chain') = Len(chain) + 1
    BY <1>0, <1>3
  <2> QED
    BY <1>0, <1>3, <2>1 DEF ChainTypes
<1>4. ASSUME NEW i \in Index, Mine(i)
      PROVE  TypeOK'
  <2>1. Len(chain) + 1 \in Nonces
    BY <1>0, <1>4 DEF Mine
  <2>2. PICK ok \in BOOLEAN : chain' = Append(chain, [tx |-> i, ok |-> ok])
    BY <1>4 DEF Mine
  <2>3. [tx |-> i, ok |-> ok] \in Block
    BY DEF Block, Index
  <2>4. known' \subseteq known /\ UNCHANGED <<recordVars, final, out, thread>>
    BY <1>4 DEF Mine
  <2>5. Len(chain) < MaxNonce
    BY <1>0, <2>1 DEF Nonces
  <2> QED
    BY <1>1, <1>3, <2>2, <2>3, <2>4, <2>5
<1>5. CASE MineForeign
  <2>1. [tx |-> 0, ok |-> TRUE] \in Block
    BY <1>0 DEF Block
  <2> QED
    BY <1>1, <1>3, <1>5, <2>1 DEF MineForeign
<1>6. CASE Finalize
  BY <1>0, <1>1, <1>6 DEF Finalize, ChainTypes
<1>7. CASE Reorg
  <2>1. PICK d \in final..(Len(chain) - 1) : chain' = SubSeq(chain, 1, d)
    BY <1>7 DEF Reorg
  <2>2. chain' \in Seq(Block) /\ Len(chain') = d
    BY <1>0, <2>1
  <2>3. d \in Nat /\ d <= Len(chain) /\ final <= d
    BY <1>0, <2>1
  <2> QED
    BY <1>0, <1>1, <1>7, <2>2, <2>3 DEF Reorg, ChainTypes
<1>8. CASE Evict
  BY <1>0, <1>1, <1>8 DEF Evict, ChainTypes
<1> QED
  BY <1>4, <1>5, <1>6, <1>7, <1>8 DEF Network

\* A step that only moves a thread.
LEMMA MoveTypes ==
    ASSUME TypeOK, thread' \in [Threads -> Thread], UNCHANGED <<recordVars, chainVars>>
    PROVE  TypeOK'
  BY DEF TypeOK, recordVars, chainVars

\* A step of the record.
LEMMA WriteTypes ==
    ASSUME TypeOK, thread' \in [Threads -> Thread], UNCHANGED chainVars,
           RecordTypes', CallerTypes'
    PROVE  TypeOK'
  BY DEF TypeOK, chainVars, RecordTypes, CallerTypes

LEMMA HoldTypes ==
    ASSUME TypeOK, NEW n \in Nonces, Unhold(n)
    PROVE  hold' \in 0..MaxNonce
  BY LaneAssumption DEF TypeOK, Unhold, Nonces

\* A row taken afresh, and what RetireOp writes.
LEMMA NewRowType ==
    ASSUME NEW o \in Ops \cup {"fill"}, NEW k \in BOOLEAN, NEW b \in Nat
    PROVE  Fresh(o, k, b) \in Allocation
  BY LaneAssumption DEF Fresh, Allocation

\* Failing a leg changes its status, if it was pending with that nonce.
LEMMA FailTypes ==
    ASSUME TypeOK, NEW o \in Ops, NEW n \in 0..MaxNonce, FailLeg(o, n)
    PROVE  /\ leg' \in [Ops -> Leg]
           /\ \A p \in Ops \ {o} : leg'[p] = leg[p]
           /\ \/ leg'[o] = leg[o]
              \/ leg[o] = [status |-> "pending", nonce |-> n]
                 /\ leg'[o] = [status |-> "failed", nonce |-> n]
<1>1. leg \in [Ops -> Leg]
  BY DEF TypeOK
<1>2. CASE leg' = leg
  BY <1>1, <1>2
<1>3. CASE leg[o] = [status |-> "pending", nonce |-> n]
           /\ leg' = [leg EXCEPT ![o] = [status |-> "failed", nonce |-> n]]
  <2>1. [status |-> "failed", nonce |-> n] \in Leg
    BY DEF Leg
  <2> QED
    BY <1>1, <1>3, <2>1
<1> QED
  BY <1>2, <1>3 DEF FailLeg

\* The hook names the nonce in a leg that is pending and names none.
LEMMA HookTypes ==
    ASSUME TypeOK, NEW o \in Ops, NEW n \in Nonces, Hook(o, n)
    PROVE  /\ leg' \in [Ops -> Leg]
           /\ \A p \in Ops : p # o \/ p \notin Hooked => leg'[p] = leg[p]
           /\ o \in Hooked => /\ leg[o] = [status |-> "pending", nonce |-> 0]
                              /\ leg'[o] = [status |-> "pending", nonce |-> n]
<1>1. leg \in [Ops -> Leg]
  BY DEF TypeOK
<1>2. CASE o \notin Hooked
  BY <1>1, <1>2 DEF Hook
<1>3. CASE o \in Hooked
  <2>1. [status |-> "pending", nonce |-> n] \in Leg
    BY LaneAssumption DEF Leg, Nonces
  <2>2. /\ leg[o] = [status |-> "pending", nonce |-> 0]
        /\ leg' = [leg EXCEPT ![o] = [status |-> "pending", nonce |-> n]]
    BY <1>3 DEF Hook
  <2> QED
    BY <1>1, <1>3, <2>1, <2>2
<1> QED
  BY <1>2, <1>3

LEMMA RetireTypes ==
    ASSUME TypeOK, NEW o \in Ops, NEW p \in BOOLEAN, RetireOp(o, p)
    PROVE  /\ retired' \in [Ops -> Tombstone]
           /\ \A q \in Ops : retired[q].seq <= retired'[q].seq
           /\ \A q \in Ops \ {o} : retired'[q] = retired[q]
           /\ Holder(o) = {}
<1>1. retired \in [Ops -> Tombstone]
  BY DEF TypeOK
<1> QED
  BY <1>1 DEF RetireOp, Tombstone

\* Where recordOutcome leaves the thread.
LEMMA RecordGoes ==
    ASSUME TypeOK, NEW t \in Threads, Record(t)
    PROVE  \E then \in After :
              \/ Goto(t, [pc |-> "holding", n |-> thread[t].n, then |-> then])
              \/ Goto(t, Onward(thread[t].n, then))
<1>1. thread[t].then \in After
  BY ThreadFields DEF Record, At
<1>2. "idle" \in After
  BY DEF After
<1> QED
  BY <1>1, <1>2 DEF Record

LEMMA SenderTypes ==
    ASSUME TypeOK, NEW t \in Threads, Sender(t) \/ Broadcast(t) \/ Record(t) \/ PutHold(t) \/ Abandon(t)
    PROVE  TypeOK'
<1>0. /\ RecordTypes /\ ChainTypes /\ CallerTypes
      /\ Nonces = 1..MaxNonce /\ MaxNonce \in Nat \ {0} /\ Index = 1..MaxSignings
      /\ MaxSignings \in Nat \ {0} /\ Hooked \subseteq Ops
  BY TypeParts, LaneAssumption DEF Nonces, Index
<1>1. ASSUME NEW o \in Ops, Begin(t, o)
      PROVE  TypeOK'
  <2>1. retired[o].seq \in Nat
    BY <1>0 DEF CallerTypes, Tombstone
  <2>2. [pc |-> "begun", op |-> o, seen |-> retired[o].seq] \in Thread
    BY <2>1 DEF Thread
  <2> QED
    BY <1>1, <2>2, GotoType, MoveTypes DEF Begin
<1>2. CASE Refuse(t)
  <2>1. [pc |-> "refused", op |-> thread[t].op] \in Thread
    BY <1>2, ThreadFields DEF Refuse, Thread
  <2> QED
    BY <1>2, <2>1, GotoType, StopType, MoveTypes DEF Refuse
<1>3. CASE Commit(t)
  <2> DEFINE o == thread[t].op
  <2>1. o \in Ops /\ thread[t].seen \in Nat
    BY <1>3, ThreadFields DEF Commit
  <2>2. PICK n \in Nonces :
          /\ Hook(o, n)
          /\ alloc' = [alloc EXCEPT ![n] =
               Fresh(o, TRUE, thread[t].seen)]
          /\ txs' = [txs EXCEPT ![n] = <<[cancel |-> FALSE, status |-> "signed"]>>]
          /\ Goto(t, [pc |-> "signed", n |-> n, i |-> 1, then |-> "idle"])
    BY <1>3 DEF Commit
  <2>3. UNCHANGED <<retired, hold, chainVars>>
    BY <1>3 DEF Commit
  <2>4. /\ alloc' \in [Nonces -> Allocation] /\ txs' \in [Nonces -> Seq(Signing)]
        /\ \A m \in Nonces : Len(txs'[m]) <= MaxSignings
    BY <2>1, <2>2, NewRowType, FreshType
  <2>5. [pc |-> "signed", n |-> n, i |-> 1, then |-> "idle"] \in Thread
    BY <1>0 DEF Thread, After
  <2>6. leg' \in [Ops -> Leg]
    BY <1>0, <2>1, <2>2, HookTypes
  <2>7. thread' \in [Threads -> Thread]
    BY <2>2, <2>5, GotoType
  <2>8. RecordTypes'
    BY <1>0, <2>3, <2>4 DEF RecordTypes
  <2> QED
    BY <1>0, <2>3, <2>6, <2>7, <2>8, WriteTypes DEF CallerTypes
<1>4. CASE NotSent(t)
  <2>1. thread[t].op \in Ops
    BY <1>4, ThreadFields DEF NotSent, At
  <2>2. leg' \in [Ops -> Leg]
    BY <1>0, <1>4, <2>1, 0 \in 0..MaxNonce, FailTypes DEF NotSent, CallerTypes
  <2>3. retired' \in [Ops -> Tombstone]
    BY <1>0, <1>4, <2>1, RetireTypes DEF NotSent, CallerTypes
  <2>4. thread' \in [Threads -> Thread]
    BY <1>4, StopType DEF NotSent
  <2> QED
    BY <1>0, <1>4, <2>2, <2>3, <2>4, WriteTypes DEF NotSent, CallerTypes, RecordTypes
<1>5. CASE Broadcast(t)
  <2>1. thread[t].n \in Nonces /\ thread[t].i \in Index /\ thread[t].then \in After
    BY <1>5, ThreadFields DEF Broadcast, At
  <2>2. PICK got \in Answers :
          /\ \/ out' = out \cup {<<thread[t].n, thread[t].i>>}
                /\ known' = known \cup {<<thread[t].n, thread[t].i>>}
             \/ UNCHANGED <<out, known>>
          /\ Goto(t, [pc |-> "sent", n |-> thread[t].n, i |-> thread[t].i,
                      then |-> thread[t].then, got |-> got])
    BY <1>5 DEF Broadcast
  <2>3. [pc |-> "sent", n |-> thread[t].n, i |-> thread[t].i,
         then |-> thread[t].then, got |-> got] \in Thread
    BY <2>1 DEF Thread
  <2>4. thread' \in [Threads -> Thread]
    BY <2>2, <2>3, GotoType
  <2>5. out' \subseteq Nonces \X Index /\ known' \subseteq Nonces \X Index
    BY <1>0, <2>1, <2>2 DEF ChainTypes
  <2>6. UNCHANGED <<recordVars, chain, final>>
    BY <1>5 DEF Broadcast
  <2> QED
    BY <2>4, <2>5, <2>6 DEF TypeOK, recordVars
<1>6. CASE Record(t)
  <2>1. /\ thread[t].n \in Nonces
        /\ alloc' \in [Nonces -> Allocation] /\ hold' \in 0..MaxNonce
        /\ txs' \in [Nonces -> Seq(Signing)]
        /\ \A m \in Nonces : Len(txs'[m]) = Len(txs[m])
    BY <1>6, RecordSteps DEF Relabelled
  <2>2. PICK then \in After :
          \/ Goto(t, [pc |-> "holding", n |-> thread[t].n, then |-> then])
          \/ Goto(t, Onward(thread[t].n, then))
    BY <1>6, RecordGoes
  <2>3. thread' \in [Threads -> Thread]
    <3>1. [pc |-> "holding", n |-> thread[t].n, then |-> then] \in Thread
      BY <2>1 DEF Thread
    <3> QED
      BY <2>1, <2>2, <3>1, OnwardType, GotoType
  <2>4. RecordTypes'
    BY <1>0, <2>1 DEF RecordTypes
  <2> QED
    BY <1>0, <1>6, <2>3, <2>4, WriteTypes DEF Record, CallerTypes
<1>7. CASE Abandon(t)
  BY <1>7, StopType, MoveTypes DEF Abandon
<1>8. CASE PutHold(t)
  <2>1. thread[t].n \in Nonces /\ thread[t].then \in After
    BY <1>8, ThreadFields DEF PutHold, At
  <2>2. thread' \in [Threads -> Thread]
    BY <1>8, <2>1, OnwardType, GotoType DEF PutHold
  <2>3. hold' \in 0..MaxNonce
    BY <1>0, <1>8, <2>1 DEF PutHold, RecordTypes
  <2>4. UNCHANGED <<alloc, txs, retired, leg, chainVars>>
    BY <1>8 DEF PutHold
  <2> QED
    BY <1>0, <2>2, <2>3, <2>4, WriteTypes DEF RecordTypes, CallerTypes
<1> QED
  BY <1>1, <1>2, <1>3, <1>4, <1>5, <1>6, <1>7, <1>8 DEF Sender

\* A write to the row n that leaves it its call.
RowKept(n) ==
    /\ alloc' \in [Nonces -> Allocation]
    /\ \A m \in Nonces \ {n} : alloc'[m] = alloc[m]
    /\ alloc'[n].call = alloc[n].call /\ alloc'[n].born = alloc[n].born
    /\ alloc[n].cancel => alloc'[n].cancel

LEMMA RowWritten ==
    ASSUME TypeOK, NEW n \in Nonces, NEW row \in Allocation,
           alloc' = [alloc EXCEPT ![n] = row],
           row.call = alloc[n].call, row.born = alloc[n].born,
           alloc[n].cancel => row.cancel
    PROVE  RowKept(n) /\ alloc'[n] = row
  BY DEF TypeOK, RowKept

\* The writes that change one row.
LEMMA RowWrites ==
    ASSUME TypeOK, NEW n \in Nonces
    PROVE  /\ alloc' = [alloc EXCEPT ![n].again = TRUE] =>
                RowKept(n) /\ SameRow(n) /\ alloc'[n].cancel = alloc[n].cancel
           /\ alloc' = [alloc EXCEPT ![n].cancel = TRUE] => RowKept(n) /\ SameRow(n)
           /\ \A l \in Nat : alloc' = [alloc EXCEPT ![n].limit = l] =>
                RowKept(n) /\ SameRow(n) /\ alloc'[n].cancel = alloc[n].cancel
           /\ alloc' = [alloc EXCEPT ![n].bumps = alloc[n].bumps + 1] =>
                RowKept(n) /\ SameRow(n) /\ alloc'[n].cancel = alloc[n].cancel
           /\ \A to \in {"mined", "cancelled"} :
                alloc' = [alloc EXCEPT ![n].status = to, ![n].key = FALSE] =>
                  /\ RowKept(n) /\ alloc'[n].status = to /\ ~alloc'[n].key
                  /\ alloc'[n].cancel = alloc[n].cancel
<1>1. alloc[n] \in Allocation
  BY RowTypes
<1>2. ASSUME alloc' = [alloc EXCEPT ![n].again = TRUE]
      PROVE  RowKept(n) /\ SameRow(n) /\ alloc'[n].cancel = alloc[n].cancel
  <2> DEFINE row == [alloc[n] EXCEPT !.again = TRUE]
  <2>1. row \in Allocation
    BY <1>1 DEF Allocation
  <2>2. alloc' = [alloc EXCEPT ![n] = row]
    BY <1>1, <1>2 DEF TypeOK
  <2>3. /\ row.status = alloc[n].status /\ row.key = alloc[n].key
        /\ row.call = alloc[n].call /\ row.born = alloc[n].born
        /\ row.cancel = alloc[n].cancel
    BY <1>1 DEF Allocation
  <2>4. row.call = alloc[n].call /\ row.born = alloc[n].born
        /\ (alloc[n].cancel => row.cancel)
    BY <2>3, Zenon
  <2> HIDE DEF row
  <2>5. RowKept(n) /\ alloc'[n] = row
    BY <2>1, <2>2, <2>4, RowWritten
  <2> QED
    BY <2>3, <2>5, Zenon DEF SameRow
<1>3. ASSUME alloc' = [alloc EXCEPT ![n].cancel = TRUE]
      PROVE  RowKept(n) /\ SameRow(n)
  <2> DEFINE row == [alloc[n] EXCEPT !.cancel = TRUE]
  <2>1. row \in Allocation
    BY <1>1 DEF Allocation
  <2>2. alloc' = [alloc EXCEPT ![n] = row]
    BY <1>1, <1>3 DEF TypeOK
  <2>3. /\ row.status = alloc[n].status /\ row.key = alloc[n].key
        /\ row.call = alloc[n].call /\ row.born = alloc[n].born
        /\ row.cancel
    BY <1>1 DEF Allocation
  <2>4. row.call = alloc[n].call /\ row.born = alloc[n].born
        /\ (alloc[n].cancel => row.cancel)
    BY <2>3, Zenon
  <2> HIDE DEF row
  <2>5. RowKept(n) /\ alloc'[n] = row
    BY <2>1, <2>2, <2>4, RowWritten
  <2> QED
    BY <2>3, <2>5, Zenon DEF SameRow
<1>4. ASSUME NEW l \in Nat, alloc' = [alloc EXCEPT ![n].limit = l]
      PROVE  RowKept(n) /\ SameRow(n) /\ alloc'[n].cancel = alloc[n].cancel
  <2> DEFINE row == [alloc[n] EXCEPT !.limit = l]
  <2>1. row \in Allocation
    BY <1>1 DEF Allocation
  <2>2. alloc' = [alloc EXCEPT ![n] = row]
    BY <1>1, <1>4 DEF TypeOK
  <2>3. /\ row.status = alloc[n].status /\ row.key = alloc[n].key
        /\ row.call = alloc[n].call /\ row.born = alloc[n].born
        /\ row.cancel = alloc[n].cancel
    BY <1>1 DEF Allocation
  <2>4. row.call = alloc[n].call /\ row.born = alloc[n].born
        /\ (alloc[n].cancel => row.cancel)
    BY <2>3, Zenon
  <2> HIDE DEF row
  <2>5. RowKept(n) /\ alloc'[n] = row
    BY <2>1, <2>2, <2>4, RowWritten
  <2> QED
    BY <2>3, <2>5, Zenon DEF SameRow
<1>5. ASSUME alloc' = [alloc EXCEPT ![n].bumps = alloc[n].bumps + 1]
      PROVE  RowKept(n) /\ SameRow(n) /\ alloc'[n].cancel = alloc[n].cancel
  <2> DEFINE row == [alloc[n] EXCEPT !.bumps = alloc[n].bumps + 1]
  <2>1. row \in Allocation
    BY <1>1 DEF Allocation
  <2>2. alloc' = [alloc EXCEPT ![n] = row]
    BY <1>1, <1>5 DEF TypeOK
  <2>3. /\ row.status = alloc[n].status /\ row.key = alloc[n].key
        /\ row.call = alloc[n].call /\ row.born = alloc[n].born
        /\ row.cancel = alloc[n].cancel
    BY <1>1 DEF Allocation
  <2>4. row.call = alloc[n].call /\ row.born = alloc[n].born
        /\ (alloc[n].cancel => row.cancel)
    BY <2>3, Zenon
  <2> HIDE DEF row
  <2>5. RowKept(n) /\ alloc'[n] = row
    BY <2>1, <2>2, <2>4, RowWritten
  <2> QED
    BY <2>3, <2>5, Zenon DEF SameRow
<1>6. ASSUME NEW to \in {"mined", "cancelled"},
             alloc' = [alloc EXCEPT ![n].status = to, ![n].key = FALSE]
      PROVE  /\ RowKept(n) /\ alloc'[n].status = to /\ ~alloc'[n].key
             /\ alloc'[n].cancel = alloc[n].cancel
  <2> DEFINE row == [alloc[n] EXCEPT !.status = to, !.key = FALSE]
  <2>1. row \in Allocation
    BY <1>1 DEF Allocation
  <2>2. alloc' = [alloc EXCEPT ![n] = row]
    BY <1>1, <1>6 DEF TypeOK
  <2>3. /\ row.status = to /\ row.key = FALSE /\ row.call = alloc[n].call
        /\ row.born = alloc[n].born /\ row.cancel = alloc[n].cancel
    BY <1>1 DEF Allocation
  <2> HIDE DEF row
  <2> QED
    BY <2>1, <2>2, <2>3, RowWritten
<1> QED
  BY <1>2, <1>3, <1>4, <1>5, <1>6

LEMMA MarkEffects ==
    ASSUME TypeOK, NEW t \in Threads, MarkMined(t)
    PROVE  /\ alloc' \in [Nonces -> Allocation]
           /\ txs' \in [Nonces -> Seq(Signing)]
           /\ \A n \in Nonces : Relabelled(n)
           /\ hold' \in 0..MaxNonce
           /\ \A n \in Nonces :
                \/ alloc'[n] = alloc[n]
                \/ /\ Live(n) /\ ~alloc[n].cancel
                   /\ alloc'[n].status = "mined" /\ ~alloc'[n].key /\ ~alloc'[n].cancel
                   /\ alloc'[n].call = alloc[n].call /\ alloc'[n].born = alloc[n].born
<1> DEFINE mined == thread[t].mined
           row(n) == [alloc[n] EXCEPT !.status = "mined", !.key = FALSE]
           f(n) == [i \in DOMAIN txs[n] |->
                      IF n <= mined /\ txs[n][i].status = "signed"
                      THEN [txs[n][i] EXCEPT !.status = "left"] ELSE txs[n][i]]
<1>1. /\ alloc' = [n \in Nonces |->
             IF n <= mined /\ Live(n) /\ ~alloc[n].cancel THEN row(n) ELSE alloc[n]]
      /\ txs' = [n \in Nonces |-> f(n)]
      /\ hold' = IF hold <= mined THEN 0 ELSE hold
  BY DEF MarkMined
<1>2. ASSUME NEW n \in Nonces
      PROVE  /\ alloc[n] \in Allocation /\ row(n) \in Allocation
             /\ row(n).status = "mined" /\ row(n).key = FALSE
             /\ row(n).cancel = alloc[n].cancel /\ row(n).call = alloc[n].call
             /\ row(n).born = alloc[n].born
  BY RowTypes DEF Allocation
<1>3. ASSUME NEW n \in Nonces
      PROVE  /\ f(n) \in Seq(Signing) /\ Len(f(n)) = Len(txs[n])
             /\ \A i \in DOMAIN txs[n] : f(n)[i].cancel = txs[n][i].cancel
  <2>1. \A i \in DOMAIN txs[n] : txs[n][i] \in Signing
    BY RowTypes
  <2>2. f(n) \in [1..Len(txs[n]) -> Signing]
        /\ \A i \in DOMAIN txs[n] : f(n)[i].cancel = txs[n][i].cancel
    BY <2>1, RowTypes DEF Signing
  <2>3. Len(txs[n]) \in Nat
    BY RowTypes
  <2> HIDE DEF f
  <2> QED
    BY <2>2, <2>3, RelabelledSeq
<1> HIDE DEF row, f
<1>4. hold' \in 0..MaxNonce
  BY <1>1, LaneAssumption DEF TypeOK
<1>5. txs' \in [Nonces -> Seq(Signing)] /\ \A n \in Nonces : Relabelled(n)
  BY <1>1, <1>3 DEF Relabelled
<1>6. alloc' \in [Nonces -> Allocation]
  BY <1>1, <1>2
<1>7. ASSUME NEW n \in Nonces
      PROVE  \/ alloc'[n] = alloc[n]
             \/ Live(n) /\ ~alloc[n].cancel /\ alloc'[n] = row(n)
  BY <1>1
<1> QED
  BY <1>2, <1>4, <1>5, <1>6, <1>7

LEMMA UpkeepTypes ==
    ASSUME TypeOK, NEW t \in Threads, Upkeep(t)
    PROVE  TypeOK'
<1>0. /\ RecordTypes /\ ChainTypes /\ CallerTypes
      /\ Nonces = 1..MaxNonce /\ MaxNonce \in Nat \ {0}
  BY TypeParts, LaneAssumption DEF Nonces
<1>a. ASSUME NEW n \in Nonces
      PROVE  /\ [pc |-> "bump", n |-> n, row |-> alloc[n], count |-> Len(txs[n])] \in Thread
             /\ [pc |-> "cancelling", n |-> n, row |-> alloc[n], count |-> Len(txs[n])] \in Thread
             /\ \A i \in DOMAIN txs[n] :
                  [pc |-> "resend", n |-> n, i |-> i, row |-> alloc[n],
                   count |-> Len(txs[n])] \in Thread
             /\ \A to \in {"mined", "cancelled"} :
                  [pc |-> "settle", n |-> n, row |-> alloc[n], count |-> Len(txs[n]),
                   to |-> to] \in Thread
  BY RowTypes DEF Thread
<1>b. \A n \in Nonces, i \in Index, r \in After :
        [pc |-> "signed", n |-> n, i |-> i, then |-> r] \in Thread
  BY DEF Thread
<1>c. ASSUME thread' \in [Threads -> Thread], UNCHANGED <<txs, retired, leg, chainVars>>,
             alloc' \in [Nonces -> Allocation], hold' \in 0..MaxNonce
      PROVE  TypeOK'
  BY <1>0, <1>c, WriteTypes DEF RecordTypes, CallerTypes
<1>d. hold \in 0..MaxNonce /\ alloc \in [Nonces -> Allocation] /\ thread \in [Threads -> Thread]
  BY DEF TypeOK
<1>e. ASSUME NEW n \in Nonces, GoHold(t, n)
      PROVE  thread' \in [Threads -> Thread]
  <2>1. [pc |-> "holding", n |-> n, then |-> "idle"] \in Thread
    BY DEF Thread, After
  <2> QED
    BY <1>e, <2>1, GotoType DEF GoHold
<1>f. "idle" \in After /\ "reread" \in After
  BY DEF After
<1>1. ASSUME NEW n \in Nonces, Look(t, n)
      PROVE  TypeOK'
  <2>1. PICK s \in Thread : Goto(t, s)
    <3>1. PICK i \in DOMAIN txs[n] :
             Goto(t, IF ~alloc[n].again /\ txs[n][i].status # "refused"
                     THEN [pc |-> "resend", n |-> n, i |-> i, row |-> alloc[n],
                           count |-> Len(txs[n])]
                     ELSE [pc |-> "bump", n |-> n, row |-> alloc[n], count |-> Len(txs[n])])
      BY <1>1 DEF Look
    <3> QED
      BY <3>1, <1>a
  <2> QED
    BY <1>1, <2>1, GotoType, MoveTypes DEF Look
<1>2. ASSUME NEW n \in Nonces, HoldHole(t, n)
      PROVE  TypeOK'
  BY <1>2, <1>e, MoveTypes DEF HoldHole
<1>3. ASSUME NEW n \in Nonces, LookCancel(t, n)
      PROVE  TypeOK'
  BY <1>3, <1>a, GotoType, MoveTypes DEF LookCancel
<1>4. ASSUME NEW n \in Nonces, ReadReceipts(t, n)
      PROVE  TypeOK'
  <2>1. PICK to \in {"mined", "cancelled"} :
          Goto(t, [pc |-> "settle", n |-> n, row |-> alloc[n], count |-> Len(txs[n]), to |-> to])
    BY <1>4 DEF ReadReceipts
  <2> QED
    BY <1>4, <2>1, <1>a, GotoType, MoveTypes DEF ReadReceipts
<1>5. CASE Resend(t)
  <2>1. thread[t].n \in Nonces /\ thread[t].i \in Index
    BY <1>5, ThreadFields DEF Resend, At
  <2>2. thread' \in [Threads -> Thread]
    BY <1>5, <2>1, <1>b, <1>f, GotoType DEF Resend
  <2>3. alloc' \in [Nonces -> Allocation]
    BY <1>5, <2>1, RowWrites DEF Resend, RowKept
  <2> QED
    BY <1>5, <1>c, <1>d, <2>2, <2>3 DEF Resend
<1>6. CASE SpeedUp(t)
  <2> DEFINE n == thread[t].n
  <2>1. n \in Nonces /\ Len(txs[n]) < MaxSignings /\ txs' = Signs(n, FALSE)
    BY <1>6, ThreadFields DEF SpeedUp, At
  <2>2. /\ txs' \in [Nonces -> Seq(Signing)]
        /\ \A m \in Nonces : Len(txs'[m]) <= MaxSignings
        /\ Len(txs[n]) + 1 \in Index
    BY <2>1, SignsType
  <2>3. alloc' \in [Nonces -> Allocation]
    BY <1>6, <2>1, RowWrites DEF SpeedUp, RowKept
  <2>4. thread' \in [Threads -> Thread]
    BY <1>6, <2>1, <2>2, <1>b, <1>f, GotoType DEF SpeedUp
  <2>5. UNCHANGED <<retired, hold, leg, chainVars>>
    BY <1>6 DEF SpeedUp
  <2> QED
    BY <1>0, <1>d, <2>2, <2>3, <2>4, <2>5, WriteTypes DEF RecordTypes, CallerTypes
<1>7. CASE SpeedUpCapped(t)
  <2>1. thread[t].n \in Nonces
    BY <1>7, ThreadFields DEF SpeedUpCapped, At
  <2> QED
    BY <1>7, <1>e, <2>1, MoveTypes DEF SpeedUpCapped
<1>8. CASE SignCancel(t)
  <2> DEFINE n == thread[t].n
  <2>1. n \in Nonces /\ Len(txs[n]) < MaxSignings /\ txs' = Signs(n, TRUE)
    BY <1>8, ThreadFields DEF SignCancel, At
  <2>2. /\ txs' \in [Nonces -> Seq(Signing)]
        /\ \A m \in Nonces : Len(txs'[m]) <= MaxSignings
        /\ Len(txs[n]) + 1 \in Index
    BY <2>1, SignsType
  <2>3. thread' \in [Threads -> Thread]
    BY <1>8, <2>1, <2>2, <1>b, <1>f, GotoType DEF SignCancel
  <2>4. UNCHANGED <<alloc, retired, hold, leg, chainVars>>
    BY <1>8 DEF SignCancel
  <2> QED
    BY <1>0, <1>d, <2>2, <2>3, <2>4, WriteTypes DEF RecordTypes, CallerTypes
<1>9. CASE CancelCapped(t)
  <2>1. thread[t].n \in Nonces
    BY <1>9, ThreadFields DEF CancelCapped, At
  <2> QED
    BY <1>9, <1>e, <2>1, MoveTypes DEF CancelCapped
<1>10. CASE ReadMined(t)
  <2>1. [pc |-> "mark", mined |-> Len(chain)] \in Thread
    BY <1>0 DEF Thread, ChainTypes
  <2> QED
    BY <1>10, <2>1, GotoType, MoveTypes DEF ReadMined
<1>11. CASE MarkMined(t)
  <2>1. /\ alloc' \in [Nonces -> Allocation] /\ txs' \in [Nonces -> Seq(Signing)]
        /\ hold' \in 0..MaxNonce /\ \A n \in Nonces : Len(txs'[n]) = Len(txs[n])
    BY <1>11, MarkEffects DEF Relabelled
  <2>2. thread' \in [Threads -> Thread]
    BY <1>11, StopType DEF MarkMined
  <2>3. UNCHANGED <<retired, leg, chainVars>>
    BY <1>11 DEF MarkMined
  <2> QED
    BY <1>0, <2>1, <2>2, <2>3, WriteTypes DEF RecordTypes, CallerTypes
<1>12. CASE Resolve(t)
  <2>1. thread[t].n \in Nonces /\ thread[t].to \in {"mined", "cancelled"}
    BY <1>12, ThreadFields DEF Resolve, At
  <2>2. alloc' \in [Nonces -> Allocation]
    BY <1>12, <2>1, RowWrites DEF Resolve, RowKept
  <2> QED
    BY <1>12, <1>c, <1>d, <2>2, StopType DEF Resolve
<1>13. CASE Reread(t)
  <2>1. thread[t].n \in Nonces
    BY <1>13, ThreadFields DEF Reread, At
  <2> QED
    BY <1>13, <2>1, <1>a, GotoType, MoveTypes DEF Reread
<1> QED
  BY <1>1, <1>2, <1>3, <1>4, <1>5, <1>6, <1>7, <1>8, <1>9, <1>10, <1>11, <1>12, <1>13 DEF Upkeep

LEMMA AdminTypes ==
    ASSUME TypeOK, Admin
    PROVE  TypeOK'
<1>0. /\ RecordTypes /\ ChainTypes /\ CallerTypes /\ thread \in [Threads -> Thread]
  BY TypeParts
<1>c. ASSUME alloc' \in [Nonces -> Allocation], hold' \in 0..MaxNonce,
             UNCHANGED <<txs, retired, leg, chainVars, thread>>
      PROVE  TypeOK'
  BY <1>0, <1>c, WriteTypes DEF RecordTypes, CallerTypes
<1>1. ASSUME NEW n \in Nonces, RequestCancel(n)
      PROVE  TypeOK'
  BY <1>1, <1>c, RowWrites, HoldTypes DEF RequestCancel, RowKept
<1>2. ASSUME NEW n \in Nonces, RetrySpeedUp(n) \/ RaisePriceCap(n)
      PROVE  TypeOK'
  <2>1. alloc[n].bumps + MaxBumps \in Nat
    BY LaneAssumption, RowTypes DEF Allocation
  <2>2. alloc' \in [Nonces -> Allocation]
    BY <1>2, <2>1, RowWrites DEF RetrySpeedUp, RaisePriceCap, RowKept
  <2> QED
    BY <1>2, <1>c, <2>2, HoldTypes DEF RetrySpeedUp, RaisePriceCap
<1>4. CASE ClearHold
  BY <1>0, <1>4, <1>c, LaneAssumption DEF ClearHold, RecordTypes
<1> QED
  BY <1>1, <1>2, <1>4 DEF Admin

LEMMA FillerTypes ==
    ASSUME TypeOK, NEW t \in Threads, Filler(t)
    PROVE  TypeOK'
<1>0. RecordTypes /\ ChainTypes /\ CallerTypes
  BY TypeParts
<1>1. ASSUME NEW n \in Nonces, FillGap(t, n)
      PROVE  TypeOK'
  <2>1. [pc |-> "filling", n |-> n] \in Thread
    BY DEF Thread
  <2> QED
    BY <1>1, <2>1, GotoType, MoveTypes DEF FillGap
<1>2. CASE FillHole(t)
  <2>1. PICK n \in Nonces : n = thread[t].n
    BY <1>2, ThreadFields DEF FillHole, At
  <2>2. /\ alloc' \in [Nonces -> Allocation] /\ txs' \in [Nonces -> Seq(Signing)]
        /\ \A m \in Nonces : Len(txs'[m]) <= MaxSignings
        /\ 1 \in Index
    BY <1>2, <2>1, LaneAssumption, NewRowType, FreshType DEF FillHole
  <2>3. [pc |-> "signed", n |-> n, i |-> 1, then |-> "unhold"] \in Thread
    BY <2>2 DEF Thread, After
  <2>4. thread' \in [Threads -> Thread]
    BY <1>2, <2>1, <2>3, GotoType DEF FillHole
  <2>5. UNCHANGED <<retired, hold, leg, chainVars>>
    BY <1>2 DEF FillHole
  <2> QED
    BY <1>0, <2>2, <2>4, <2>5, WriteTypes DEF RecordTypes, CallerTypes
<1>3. CASE UnholdFilled(t)
  <2>1. thread[t].n \in Nonces
    BY <1>3, ThreadFields DEF UnholdFilled, At
  <2>2. hold' \in 0..MaxNonce /\ thread' \in [Threads -> Thread]
    BY <1>3, <2>1, HoldTypes, StopType DEF UnholdFilled
  <2>3. UNCHANGED <<alloc, txs, retired, leg, chainVars>>
    BY <1>3 DEF UnholdFilled
  <2> QED
    BY <1>0, <2>2, <2>3, WriteTypes DEF RecordTypes, CallerTypes
<1> QED
  BY <1>1, <1>2, <1>3 DEF Filler

LEMMA CallerStepTypes ==
    ASSUME TypeOK, NEW t \in Threads, Caller(t)
    PROVE  TypeOK'
<1>0. /\ RecordTypes /\ ChainTypes /\ CallerTypes /\ thread \in [Threads -> Thread]
      /\ 0 \in 0..MaxNonce /\ Nonces \subseteq 0..MaxNonce /\ Hooked \subseteq Ops
  BY TypeParts, LaneAssumption DEF Nonces
<1>c. ASSUME thread' \in [Threads -> Thread], leg' \in [Ops -> Leg],
             retired' \in [Ops -> Tombstone], UNCHANGED <<alloc, txs, hold, chainVars>>
      PROVE  TypeOK'
  BY <1>0, <1>c, WriteTypes DEF RecordTypes, CallerTypes
<1>d. leg \in [Ops -> Leg] /\ retired \in [Ops -> Tombstone]
  BY <1>0 DEF CallerTypes
<1>a. \A o \in Ops, n \in Nonces :
        /\ [pc |-> "freed", op |-> o] \in Thread
        /\ [pc |-> "proved", op |-> o, n |-> n] \in Thread
        /\ [pc |-> "given", op |-> o, n |-> n] \in Thread
  BY DEF Thread
<1>1. ASSUME NEW o \in Ops, RecoverHashless(t, o)
      PROVE  TypeOK'
  <2>1. RetireOp(o, TRUE) /\ Goto(t, [pc |-> "freed", op |-> o])
        /\ UNCHANGED <<alloc, txs, hold, leg, chainVars>>
    BY <1>1 DEF RecoverHashless
  <2>2. thread' \in [Threads -> Thread] /\ retired' \in [Ops -> Tombstone]
    <3>1. [pc |-> "freed", op |-> o] \in Thread
      BY DEF Thread
    <3> QED
      BY <2>1, <3>1, GotoType, RetireTypes
  <2> QED
    BY <2>1, <2>2, <1>c, <1>d
<1>2. ASSUME NEW o \in Ops, FollowCancelled(t, o) \/ FollowReverted(t, o)
      PROVE  TypeOK'
  <2>1. leg[o].nonce \in Nonces
    <3>1. leg[o].nonce \in 0..MaxNonce
      BY <1>d DEF Leg
    <3>2. leg[o].nonce # 0
      BY <1>2 DEF FollowCancelled, FollowReverted
    <3> QED
      BY <3>1, <3>2, LaneAssumption DEF Nonces
  <2> QED
    BY <1>2, <1>a, <2>1, GotoType, MoveTypes DEF FollowCancelled, FollowReverted
<1>3. CASE FailFreed(t)
  <2>1. thread[t].op \in Ops
    BY <1>3, ThreadFields DEF FailFreed, At
  <2> QED
    BY <1>0, <1>3, <1>c, <1>d, <2>1, FailTypes, StopType DEF FailFreed
<1>4. CASE GiveUp(t)
  <2>1. thread[t].op \in Ops /\ thread[t].n \in Nonces
    BY <1>4, ThreadFields DEF GiveUp, At
  <2> QED
    BY <1>4, <1>a, <1>c, <1>d, <2>1, GotoType, RetireTypes DEF GiveUp
<1>5. CASE FailGiven(t)
  <2>1. thread[t].op \in Ops /\ thread[t].n \in 0..MaxNonce
    BY <1>0, <1>5, ThreadFields DEF FailGiven, At
  <2> QED
    BY <1>0, <1>5, <1>c, <1>d, <2>1, FailTypes, StopType DEF FailGiven
<1> QED
  BY <1>1, <1>2, <1>3, <1>4, <1>5 DEF Caller

\* What the callers do to a leg without a thread.
LEMMA LegTypes ==
    ASSUME TypeOK, NEW o \in Ops, Reserve(o) \/ Confirm(o)
    PROVE  /\ TypeOK'
           /\ o \in Hooked
           /\ \A p \in Ops \ {o} : leg'[p] = leg[p]
           /\ leg'[o].nonce = leg[o].nonce
           /\ Reserve(o) => leg'[o].status = "pending"
           /\ Confirm(o) => leg'[o].status = "confirmed"
<1>1. leg \in [Ops -> Leg] /\ leg[o] \in Leg
  BY DEF TypeOK
<1>2. ASSUME NEW s \in {"pending", "confirmed"}, leg' = [leg EXCEPT ![o].status = s]
      PROVE  /\ leg' \in [Ops -> Leg] /\ \A p \in Ops \ {o} : leg'[p] = leg[p]
             /\ leg'[o].nonce = leg[o].nonce /\ leg'[o].status = s
  <2> DEFINE x == [leg[o] EXCEPT !.status = s]
  <2>1. x \in Leg /\ x.nonce = leg[o].nonce /\ x.status = s
    BY <1>1 DEF Leg
  <2>2. leg' = [leg EXCEPT ![o] = x]
    BY <1>1, <1>2
  <2> HIDE DEF x
  <2> QED
    BY <1>1, <2>1, <2>2
<1>3. leg' = [leg EXCEPT ![o].status = "pending"] \/ leg' = [leg EXCEPT ![o].status = "confirmed"]
  BY DEF Reserve, Confirm
<1>4. leg' \in [Ops -> Leg]
  BY <1>2, <1>3
<1>5. TypeOK'
  <2>1. thread' \in [Threads -> Thread] /\ RecordTypes /\ CallerTypes
        /\ UNCHANGED <<alloc, txs, retired, hold, chainVars>>
    BY TypeParts DEF Reserve, Confirm
  <2> QED
    BY <1>4, <2>1, WriteTypes DEF RecordTypes, CallerTypes
<1> QED
  BY <1>2, <1>3, <1>5 DEF Reserve, Confirm, Pending

LEMMA TypeStep ==
    ASSUME TypeOK, [Next]_vars
    PROVE  TypeOK'
<1>1. CASE Next
  <2>1. Senders \subseteq Threads /\ Keepers \subseteq Threads
    BY DEF Threads
  <2> QED
    BY <1>1, <2>1, NetworkTypes, SenderTypes, UpkeepTypes, AdminTypes, FillerTypes,
       CallerStepTypes,
       LegTypes DEF Next
<1>2. CASE UNCHANGED vars
  BY <1>2 DEF TypeOK, vars
<1> QED
  BY <1>1, <1>2

LEMMA TypeInit == Init => TypeOK
<1> SUFFICES ASSUME Init PROVE TypeOK
  OBVIOUS
<1>1. Free \in Allocation
  BY LaneAssumption DEF Free, Allocation
<1>2. alloc \in [Nonces -> Allocation] /\ txs \in [Nonces -> Seq(Signing)]
      /\ \A n \in Nonces : Len(txs[n]) <= MaxSignings
  BY <1>1, LaneAssumption DEF Init
<1>3. retired \in [Ops -> Tombstone] /\ leg \in [Ops -> Leg] /\ hold \in 0..MaxNonce
  BY LaneAssumption DEF Init, Tombstone, Leg
<1>4. /\ chain \in Seq(Block) /\ Len(chain) <= MaxNonce /\ final \in 0..Len(chain)
      /\ out \subseteq Nonces \X Index /\ known \subseteq Nonces \X Index
  BY LaneAssumption DEF Init
<1>5. thread \in [Threads -> Thread]
  BY DEF Init, Thread
<1> QED
  BY <1>2, <1>3, <1>4, <1>5 DEF TypeOK

-----------------------------------------------------------------------------
(* What every step leaves of the record and of the chain. *)

\* A nonce that is handed out keeps its call, and its signings stay what they are.
RowGrows(n) ==
    /\ alloc[n].status # "free" => alloc'[n].call = alloc[n].call
    /\ Len(txs[n]) <= Len(txs'[n])
    /\ \A i \in DOMAIN txs[n] : txs'[n][i].cancel = txs[n][i].cancel
Grows == \A n \in Nonces : RowGrows(n)

DeepKept ==
    /\ final <= final'
    /\ \A n \in DOMAIN chain : n <= final => n \in DOMAIN chain' /\ chain'[n] = chain[n]

LEMMA RowStays ==
    ASSUME TypeOK, NEW n \in Nonces, RowIsWhole(n), alloc'[n] = alloc[n],
           txs'[n] = txs[n] \/ Relabelled(n)
    PROVE  RowGrows(n) /\ RowIsWhole(n)'
<1>1. Len(txs[n]) \in Nat /\ txs[n] \in Seq(Signing)
  BY RowTypes
<1>2. Len(txs'[n]) = Len(txs[n]) /\ txs'[n] \in Seq(Signing)
  BY <1>1 DEF Relabelled
<1>3. txs[n] = <<>> => txs'[n] = <<>>
  BY <1>1, <1>2
<1> QED
  BY <1>1, <1>2, <1>3 DEF RowGrows, RowIsWhole, Relabelled

LEMMA SameRowStays ==
    ASSUME TypeOK, NEW n \in Nonces, RowIsWhole(n), SameRow(n),
           txs'[n] = txs[n] \/ Relabelled(n)
    PROVE  RowGrows(n) /\ RowIsWhole(n)'
<1>1. Len(txs[n]) \in Nat /\ txs[n] \in Seq(Signing)
  BY RowTypes
<1>2. Len(txs'[n]) = Len(txs[n]) /\ txs'[n] \in Seq(Signing)
  BY <1>1 DEF Relabelled
<1>3. txs[n] = <<>> => txs'[n] = <<>>
  BY <1>1, <1>2
<1> QED
  BY <1>1, <1>2, <1>3 DEF RowGrows, RowIsWhole, Relabelled, SameRow

\* A nonce handed out.
LEMMA FreshRow ==
    ASSUME TypeOK, RowsAreWhole, NEW n \in Nonces, n \notin Used,
           NEW o \in Ops \cup {"fill"}, NEW k \in BOOLEAN, NEW b \in Nat,
           k => o \in Ops,
           alloc' = [alloc EXCEPT ![n] = Fresh(o, k, b)],
           txs' = [txs EXCEPT ![n] = <<[cancel |-> FALSE, status |-> "signed"]>>]
    PROVE  /\ Grows /\ RowsAreWhole'
           /\ alloc[n].status = "free" /\ txs[n] = <<>>
           /\ alloc'[n] = Fresh(o, k, b) /\ DOMAIN txs'[n] = {1}
           /\ \A m \in Nonces \ {n} : alloc'[m] = alloc[m] /\ txs'[m] = txs[m]
<1>1. /\ \A m \in Nonces \ {n} : alloc'[m] = alloc[m] /\ txs'[m] = txs[m]
      /\ alloc'[n] = Fresh(o, k, b)
      /\ txs'[n] = <<[cancel |-> FALSE, status |-> "signed"]>>
  BY DEF TypeOK
<1>2. \A m \in Nonces \ {n} : RowGrows(m) /\ RowIsWhole(m)'
  BY <1>1, RowStays DEF RowsAreWhole
<1>3. alloc[n].status = "free" /\ txs[n] = <<>>
  BY DEF Used, RowsAreWhole, RowIsWhole
<1>4. RowIsWhole(n)'
  BY <1>1, LaneAssumption DEF RowIsWhole, Fresh
<1>5. Len(txs'[n]) = 1 /\ DOMAIN txs'[n] = {1}
  BY <1>1
<1>6. RowGrows(n)
  BY <1>3, <1>5 DEF RowGrows
<1> QED
  BY <1>1, <1>2, <1>3, <1>4, <1>5, <1>6 DEF Grows, RowsAreWhole

\* The commit of a send hands a free nonce to the call.
LEMMA CommitEffects ==
    ASSUME TypeOK, RowsAreWhole, NEW t \in Threads, Commit(t)
    PROVE  /\ thread[t].op \in Ops /\ thread[t].seen \in Nat
           /\ \E n \in Nonces :
                /\ Hook(thread[t].op, n)
                /\ alloc[n].status = "free" /\ txs[n] = <<>>
                /\ alloc'[n] = Fresh(thread[t].op, TRUE, thread[t].seen)
                /\ DOMAIN txs'[n] = {1}
                /\ thread' = [thread EXCEPT ![t] = [pc |-> "signed", n |-> n, i |-> 1,
                                                    then |-> "idle"]]
                /\ \A m \in Nonces \ {n} : alloc'[m] = alloc[m] /\ txs'[m] = txs[m]
           /\ Grows /\ RowsAreWhole'
<1> DEFINE o == thread[t].op
<1>1. o \in Ops /\ thread[t].seen \in Nat
  BY ThreadFields DEF Commit
<1>2. PICK n \in Nonces :
        /\ IsNext(n) /\ Hook(o, n)
        /\ alloc' = [alloc EXCEPT ![n] = Fresh(o, TRUE, thread[t].seen)]
        /\ txs' = [txs EXCEPT ![n] = <<[cancel |-> FALSE, status |-> "signed"]>>]
        /\ Goto(t, [pc |-> "signed", n |-> n, i |-> 1, then |-> "idle"])
  BY DEF Commit
<1>3. n \notin Used
  BY <1>2, LaneAssumption DEF IsNext, Nonces
<1> HIDE DEF o
<1>4. /\ Grows /\ RowsAreWhole'
      /\ alloc[n].status = "free" /\ txs[n] = <<>>
      /\ alloc'[n] = Fresh(o, TRUE, thread[t].seen) /\ DOMAIN txs'[n] = {1}
      /\ \A m \in Nonces \ {n} : alloc'[m] = alloc[m] /\ txs'[m] = txs[m]
  BY <1>1, <1>2, <1>3, FreshRow
<1> QED
  BY <1>1, <1>2, <1>4 DEF o, Goto

LEMMA RowsKeptStep ==
    ASSUME TypeOK, RowsAreWhole, UNCHANGED alloc, UNCHANGED txs
    PROVE  Grows /\ RowsAreWhole'
  BY RowStays DEF Grows, RowsAreWhole

LEMMA FillEffects ==
    ASSUME TypeOK, RowsAreWhole, NEW t \in Threads, FillHole(t)
    PROVE  /\ thread[t].n \in Nonces
           /\ \A n \in Nonces : n = thread[t].n =>
                /\ alloc[n].status = "free" /\ txs[n] = <<>>
                /\ alloc'[n] = Fresh("fill", FALSE, 0) /\ DOMAIN txs'[n] = {1}
                /\ \A m \in Nonces \ {n} : alloc'[m] = alloc[m] /\ txs'[m] = txs[m]
           /\ Grows /\ RowsAreWhole'
<1>0. PICK n \in Nonces : n = thread[t].n
  BY ThreadFields DEF FillHole, At
<1>1. /\ n \notin Used
      /\ alloc' = [alloc EXCEPT ![n] = Fresh("fill", FALSE, 0)]
      /\ txs' = [txs EXCEPT ![n] = <<[cancel |-> FALSE, status |-> "signed"]>>]
  BY <1>0 DEF FillHole
<1>2. "fill" \in Ops \cup {"fill"} /\ FALSE \in BOOLEAN /\ 0 \in Nat
  OBVIOUS
<1>3. FALSE => "fill" \in Ops
  OBVIOUS
<1>4. /\ Grows /\ RowsAreWhole'
      /\ alloc[n].status = "free" /\ txs[n] = <<>>
      /\ alloc'[n] = Fresh("fill", FALSE, 0) /\ DOMAIN txs'[n] = {1}
      /\ \A m \in Nonces \ {n} : alloc'[m] = alloc[m] /\ txs'[m] = txs[m]
  BY ONLY <1>1, <1>2, <1>3, FreshRow, TypeOK, RowsAreWhole, n \in Nonces
<1> QED
  BY <1>0, <1>4

LEMMA FillerRows ==
    ASSUME TypeOK, RowsAreWhole, NEW t \in Threads, Filler(t)
    PROVE  /\ Grows /\ RowsAreWhole'
           /\ UNCHANGED <<alloc, txs>> \/ FillHole(t)
<1>1. UNCHANGED <<alloc, txs>> \/ FillHole(t)
  BY DEF Filler, FillGap, UnholdFilled, recordVars
<1> QED
  BY <1>1, FillEffects, RowsKeptStep

\* A new signing of a nonce in flight.
LEMMA SignedRow ==
    ASSUME TypeOK, RowsAreWhole, NEW n \in Nonces, NEW c \in BOOLEAN, Live(n),
           Len(txs[n]) < MaxSignings, txs' = Signs(n, c), SameRow(n),
           \A m \in Nonces \ {n} : alloc'[m] = alloc[m]
    PROVE  Grows /\ RowsAreWhole'
<1>1. /\ Len(txs'[n]) = Len(txs[n]) + 1
      /\ \A i \in DOMAIN txs[n] : txs'[n][i] = txs[n][i]
      /\ \A m \in Nonces \ {n} : txs'[m] = txs[m]
  BY SignsType
<1>2. RowGrows(n)
  BY <1>1, RowTypes DEF RowGrows, SameRow
<1>3. RowIsWhole(n)'
  BY DEF RowIsWhole, RowsAreWhole, SameRow, Live
<1> QED
  BY <1>1, <1>2, <1>3, RowStays DEF Grows, RowsAreWhole

LEMMA UpkeepRows ==
    ASSUME TypeOK, RowsAreWhole, ThreadsAreRight, NEW t \in Threads, Upkeep(t)
    PROVE  Grows /\ RowsAreWhole'
<1>1. CASE UNCHANGED <<alloc, txs>>
  BY <1>1, RowsKeptStep
<1>2. CASE Resend(t)
  <2> DEFINE n == thread[t].n
  <2>1. n \in Nonces /\ alloc' = [alloc EXCEPT ![n].again = TRUE] /\ txs' = txs
    BY <1>2, ThreadFields DEF Resend, At
  <2>2. SameRow(n) /\ \A m \in Nonces \ {n} : alloc'[m] = alloc[m]
    BY <2>1, RowWrites DEF RowKept
  <2> QED
    BY <2>1, <2>2, RowStays, SameRowStays DEF Grows, RowsAreWhole
<1>3. CASE SpeedUp(t)
  <2> DEFINE n == thread[t].n
  <2>1. /\ n \in Nonces /\ Live(n) /\ Len(txs[n]) < MaxSignings /\ txs' = Signs(n, FALSE)
        /\ alloc' = [alloc EXCEPT ![n].bumps = alloc[n].bumps + 1]
    BY <1>3, ThreadFields DEF SpeedUp, At
  <2>2. SameRow(n) /\ \A m \in Nonces \ {n} : alloc'[m] = alloc[m]
    BY <2>1, RowWrites DEF RowKept
  <2> QED
    BY <2>1, <2>2, SignedRow
<1>4. CASE SignCancel(t)
  <2> DEFINE n == thread[t].n
  <2>1. /\ n \in Nonces /\ Live(n) /\ Len(txs[n]) < MaxSignings /\ txs' = Signs(n, TRUE)
        /\ alloc' = alloc
    BY <1>4, ThreadFields DEF SignCancel, At
  <2> QED
    BY <2>1, SignedRow DEF SameRow
<1>5. CASE MarkMined(t)
  <2>1. ASSUME NEW n \in Nonces
        PROVE  RowGrows(n) /\ RowIsWhole(n)'
    <3>1. Relabelled(n)
      BY <1>5, MarkEffects
    <3>2. CASE alloc'[n] = alloc[n]
      BY <3>1, <3>2, RowStays DEF RowsAreWhole
    <3>3. CASE /\ Live(n) /\ ~alloc'[n].key /\ alloc'[n].status = "mined"
               /\ alloc'[n].call = alloc[n].call
      <4>1. RowIsWhole(n)'
        BY <3>3 DEF RowsAreWhole, RowIsWhole, Live
      <4> QED
        BY <3>1, <3>3, <4>1, RowTypes DEF RowGrows, Relabelled
    <3> QED
      BY <1>5, <3>2, <3>3, MarkEffects
  <2> QED
    BY <2>1 DEF Grows, RowsAreWhole
<1>6. CASE Resolve(t)
  <2>0. PICK n \in Nonces : n = thread[t].n
    BY <1>6, ThreadFields DEF Resolve, At
  <2>1. /\ thread[t].to \in {"mined", "cancelled"} /\ txs' = txs
        /\ alloc' = [alloc EXCEPT ![n].status = thread[t].to, ![n].key = FALSE]
        /\ alloc[n] = thread[t].row
    BY <1>6, <2>0, ThreadFields DEF Resolve, At, Unchanged
  <2>2. alloc[n].status = "live"
    BY <1>6, <2>0, <2>1 DEF Resolve, ThreadsAreRight, ThreadIsRight
  <2>3. /\ RowKept(n) /\ alloc'[n].status \in {"mined", "cancelled"} /\ ~alloc'[n].key
    BY <2>1, RowWrites
  <2>4. alloc'[n].call = alloc[n].call /\ \A m \in Nonces \ {n} : alloc'[m] = alloc[m]
    BY <2>3 DEF RowKept
  <2>5. RowIsWhole(n) /\ Len(txs[n]) \in Nat
    BY <2>1, RowTypes DEF RowsAreWhole
  <2>6. RowGrows(n)
    BY <2>1, <2>4, <2>5 DEF RowGrows
  <2>7. RowIsWhole(n)'
    BY <2>2, <2>3, <2>4, <2>5, Zenon DEF RowIsWhole
  <2>8. \A m \in Nonces \ {n} : RowGrows(m) /\ RowIsWhole(m)'
    BY <2>1, <2>4, RowStays DEF RowsAreWhole
  <2> QED
    BY <2>6, <2>7, <2>8 DEF Grows, RowsAreWhole
<1> QED
  BY <1>1, <1>2, <1>3, <1>4, <1>5, <1>6
     DEF Upkeep, recordVars, Look, HoldHole, LookCancel, ReadReceipts, Reread, SpeedUpCapped,
         CancelCapped, ReadMined

LEMMA AdminRows ==
    ASSUME TypeOK, RowsAreWhole, Admin
    PROVE  Grows /\ RowsAreWhole'
<1>1. ASSUME NEW n \in Nonces, RequestCancel(n) \/ RetrySpeedUp(n) \/ RaisePriceCap(n)
      PROVE  Grows /\ RowsAreWhole'
  <2>1. alloc[n].bumps + MaxBumps \in Nat
    BY LaneAssumption, RowTypes DEF Allocation
  <2>2. RowKept(n) /\ SameRow(n)
    BY <1>1, <2>1, RowWrites DEF RequestCancel, RetrySpeedUp, RaisePriceCap
  <2>3. txs' = txs
    BY <1>1 DEF RequestCancel, RetrySpeedUp, RaisePriceCap
  <2>4. \A m \in Nonces \ {n} : RowGrows(m) /\ RowIsWhole(m)'
    BY <2>2, <2>3, RowStays DEF RowsAreWhole, RowKept
  <2>5. RowGrows(n) /\ RowIsWhole(n)'
    BY <2>2, <2>3, SameRowStays DEF RowsAreWhole
  <2> QED
    BY <2>4, <2>5 DEF Grows, RowsAreWhole
<1>3. CASE ClearHold
  BY <1>3, RowsKeptStep DEF ClearHold
<1> QED
  BY <1>1, <1>3 DEF Admin

LEMMA SenderRows ==
    ASSUME TypeOK, RowsAreWhole, NEW t \in Threads,
           Sender(t) \/ Broadcast(t) \/ Record(t) \/ PutHold(t) \/ Abandon(t)
    PROVE  Grows /\ RowsAreWhole'
<1>1. CASE UNCHANGED <<alloc, txs>>
  BY <1>1, RowsKeptStep
<1>2. CASE Commit(t)
  BY <1>2, CommitEffects
<1>3. CASE Record(t)
  <2>1. PICK n \in Nonces : n = thread[t].n
    BY <1>3, RecordSteps
  <2>2. /\ SameRow(n) /\ \A m \in Nonces : Relabelled(m)
        /\ \A m \in Nonces \ {n} : alloc'[m] = alloc[m] /\ txs'[m] = txs[m]
    BY <1>3, <2>1, RecordSteps
  <2>3. \A m \in Nonces \ {n} : RowGrows(m) /\ RowIsWhole(m)'
    BY <2>2, RowStays DEF RowsAreWhole
  <2>4. RowGrows(n) /\ RowIsWhole(n)'
    BY <2>2, SameRowStays DEF RowsAreWhole
  <2> QED
    BY <2>3, <2>4 DEF Grows, RowsAreWhole
<1> QED
  BY <1>1, <1>2, <1>3 DEF Sender, Begin, Refuse, NotSent, Broadcast, PutHold, Abandon, recordVars

LEMMA RowsStep ==
    ASSUME TypeOK, RowsAreWhole, ThreadsAreRight, [Next]_vars
    PROVE  Grows /\ RowsAreWhole'
<1>1. CASE UNCHANGED <<alloc, txs>>
  BY <1>1, RowsKeptStep
<1>2. Senders \subseteq Threads /\ Keepers \subseteq Threads
  BY DEF Threads
<1>3. CASE Network
  BY <1>1, <1>3 DEF Network, Mine, MineForeign, Finalize, Reorg, Evict, recordVars
<1>4. ASSUME NEW t \in Keepers, Caller(t)
      PROVE  UNCHANGED <<alloc, txs>>
  BY <1>4 DEF Caller, RecoverHashless, FollowCancelled, FollowReverted, FailFreed, GiveUp,
              FailGiven, recordVars
<1>5. ASSUME NEW o \in Ops, Reserve(o) \/ Confirm(o)
      PROVE  UNCHANGED <<alloc, txs>>
  BY <1>5 DEF Reserve, Confirm
<1>6. CASE Next
  BY <1>1, <1>2, <1>3, <1>4, <1>5, <1>6, SenderRows, UpkeepRows, AdminRows,
     FillerRows DEF Next
<1> QED
  BY <1>1, <1>6 DEF vars

LEMMA DeepStep ==
    ASSUME TypeOK, [Next]_vars
    PROVE  DeepKept
<1>1. /\ chain \in Seq(Block) /\ Len(chain) \in Nat /\ final \in 0..Len(chain)
      /\ DOMAIN chain = 1..Len(chain)
  BY DEF TypeOK
<1>2. CASE UNCHANGED <<chain, final>>
  BY <1>1, <1>2 DEF DeepKept
<1>3. ASSUME NEW e \in Block, chain' = Append(chain, e), final' = final
      PROVE  DeepKept
  BY <1>1, <1>3 DEF DeepKept
<1>4. CASE Network
  <2>1. ASSUME NEW i \in Index, Mine(i)
        PROVE  DeepKept
    <3>1. PICK ok \in BOOLEAN : chain' = Append(chain, [tx |-> i, ok |-> ok])
      BY <2>1 DEF Mine
    <3>2. [tx |-> i, ok |-> ok] \in Block
      BY LaneAssumption DEF Block, Index
    <3> QED
      BY <1>3, <2>1, <3>1, <3>2 DEF Mine
  <2>2. CASE MineForeign
    <3>1. [tx |-> 0, ok |-> TRUE] \in Block
      BY LaneAssumption DEF Block
    <3> QED
      BY <1>3, <2>2, <3>1 DEF MineForeign
  <2>3. CASE Finalize
    BY <1>1, <2>3 DEF Finalize, DeepKept
  <2>4. CASE Reorg
    <3>1. PICK d \in final..(Len(chain) - 1) : chain' = SubSeq(chain, 1, d)
      BY <2>4 DEF Reorg
    <3>2. d \in Nat /\ d <= Len(chain) /\ final <= d
      BY <1>1, <3>1
    <3>3. Len(chain') = d /\ DOMAIN chain' = 1..d /\ \A n \in 1..d : chain'[n] = chain[n]
      BY <1>1, <3>1, <3>2
    <3> QED
      BY <1>1, <2>4, <3>2, <3>3 DEF Reorg, DeepKept
  <2>5. CASE Evict
    BY <1>2, <2>5 DEF Evict
  <2> QED
    BY <1>4, <2>1, <2>2, <2>3, <2>4, <2>5 DEF Network
<1>5. ASSUME NEW t, Sender(t) \/ Broadcast(t) \/ Record(t) \/ PutHold(t) \/ Abandon(t)
      PROVE  UNCHANGED <<chain, final>>
  BY <1>5 DEF Sender, Begin, Refuse, Commit, NotSent, Broadcast, Record, PutHold, Abandon, chainVars
<1>6. ASSUME NEW t, Upkeep(t) \/ Filler(t) \/ Caller(t)
      PROVE  UNCHANGED <<chain, final>>
  BY <1>6 DEF Upkeep, Filler, FillGap, FillHole, UnholdFilled, Caller, RecoverHashless, FollowCancelled, FollowReverted, FailFreed,
              GiveUp, FailGiven, Look, HoldHole, LookCancel, ReadReceipts, Resend, Reread, SpeedUp,
              SpeedUpCapped, SignCancel, CancelCapped, ReadMined, MarkMined, Resolve, chainVars
<1>7. ASSUME Admin \/ \E o \in Ops : Reserve(o) \/ Confirm(o)
      PROVE  UNCHANGED <<chain, final>>
  BY <1>7 DEF Admin, RequestCancel, RetrySpeedUp, RaisePriceCap, ClearHold,
              Reserve, Confirm, chainVars
<1>8. CASE Next
  BY <1>2, <1>4, <1>5, <1>6, <1>7, <1>8 DEF Next
<1> QED
  BY <1>2, <1>8 DEF vars

\* What became of a nonce for good stays so.
LEMMA FateStays ==
    ASSUME TypeOK, TypeOK', RowsAreWhole, OnlyRecordedLeaves, Grows, DeepKept, NEW n \in Nonces
    PROVE  /\ Dead(n) => Dead(n)'
           /\ Sound(n) => Sound(n)'
           /\ Receipt(n, CancelSignings(n), TRUE) => Receipt(n, CancelSignings(n), TRUE)'
           /\ Deep(n) => Deep(n)' /\ chain'[n] = chain[n]
<1> SUFFICES ASSUME Deep(n)
             PROVE  /\ Dead(n) => Dead(n)'
                    /\ Sound(n) => Sound(n)'
                    /\ Receipt(n, CancelSignings(n), TRUE) => Receipt(n, CancelSignings(n), TRUE)'
                    /\ Deep(n)' /\ chain'[n] = chain[n]
  BY DEF Dead, Sound, Receipt, Deep
<1>1. /\ final \in Nat /\ final' \in Nat /\ n \in Nat /\ chain[n].tx \in Nat
      /\ Len(txs[n]) \in Nat /\ Len(txs'[n]) \in Nat /\ Len(txs[n]) <= Len(txs'[n])
      /\ DOMAIN txs[n] = 1..Len(txs[n]) /\ DOMAIN txs'[n] = 1..Len(txs'[n])
  <2>1. final \in Nat /\ final' \in Nat
    <3>1. final \in 0..Len(chain) /\ chain \in Seq(Block)
      BY DEF TypeOK
    <3>2. final' \in 0..Len(chain') /\ chain' \in Seq(Block)
      BY DEF TypeOK
    <3> QED
      BY <3>1, <3>2
  <2>2. n \in Nat /\ chain[n].tx \in Nat
    <3>1. n \in DOMAIN chain /\ chain \in Seq(Block)
      BY DEF Deep, TypeOK
    <3>2. n \in Nat /\ chain[n] \in Block
      BY <3>1
    <3>3. MaxSignings \in Nat
      BY LaneAssumption
    <3> QED
      BY <3>2, <3>3 DEF Block
  <2>3. txs[n] \in Seq(Signing) /\ txs'[n] \in Seq(Signing)
    BY DEF TypeOK
  <2>4. Len(txs[n]) <= Len(txs'[n])
    BY DEF Grows, RowGrows
  <2> QED
    BY <2>1, <2>2, <2>3, <2>4
<1>2. Deep(n)' /\ chain'[n] = chain[n]
  BY <1>1 DEF Deep, DeepKept
<1>3. \A i \in DOMAIN txs[n] : alloc'[n].call = alloc[n].call /\ txs'[n][i].cancel = txs[n][i].cancel
  BY <1>1 DEF Grows, RowGrows, RowsAreWhole, RowIsWhole
<1>4. chain[n].tx <= Len(txs[n])
  BY DEF OnlyRecordedLeaves, Deep
<1>5. \A i \in DOMAIN txs[n] : /\ i \in DOMAIN txs'[n]
                               /\ i \in OwnSignings(n) <=> i \in OwnSignings(n)'
                               /\ i \in CancelSignings(n) <=> i \in CancelSignings(n)'
  BY <1>1, <1>3 DEF OwnSignings, Own, CancelSignings
<1>6. chain[n].tx \in DOMAIN txs[n] \/ chain[n].tx = 0
  BY <1>1, <1>4
<1>7. 0 \notin OwnSignings(n)' /\ 0 \notin OwnSignings(n) /\ 0 \notin CancelSignings(n)
  BY <1>1 DEF OwnSignings, CancelSignings
<1>8. chain[n].tx \in OwnSignings(n) <=> chain[n].tx \in OwnSignings(n)'
  BY <1>5, <1>6, <1>7
<1>9. chain[n].tx \in CancelSignings(n) => chain[n].tx \in CancelSignings(n)'
  BY <1>5, <1>6, <1>7
<1> QED
  BY <1>2, <1>8, <1>9 DEF Dead, Sound, Receipt, Deep

-----------------------------------------------------------------------------
(* What a step may do to the row of a nonce. *)

\* It is handed out to a call by a send, or to a fill.
Committed(n) ==
    \E t \in Senders :
        /\ Commit(t) /\ Hook(thread[t].op, n)
        /\ alloc[n].status = "free"
        /\ alloc'[n] = Fresh(thread[t].op, TRUE, thread[t].seen)
        /\ \A m \in Nonces \ {n} : alloc'[m] = alloc[m]
Filled(n) == alloc[n].status = "free" /\ alloc'[n] = Fresh("fill", FALSE, 0)

\* It is settled.
Settled(n) ==
    /\ Live(n) /\ ~alloc'[n].key
    /\ alloc'[n].call = alloc[n].call
    /\ alloc[n].cancel => alloc'[n].cancel
    /\ \/ alloc'[n].status = "mined"
       \/ alloc'[n].status = "cancelled" /\ Receipt(n, CancelSignings(n), TRUE)

\* Or it is as it was, but for how it is sent; a cancel is never taken back.
Sending(n) ==
    /\ SameRow(n)
    /\ alloc[n].cancel => alloc'[n].cancel
    /\ alloc[n].status = "free" => alloc'[n] = alloc[n]

\* Only a nonce that was handed out has signings.
LEMMA SignedIsUsed ==
    ASSUME RowsAreWhole, NEW n \in Nonces, NEW i \in DOMAIN txs[n]
    PROVE  alloc[n].status # "free"
  BY DEF RowsAreWhole, RowIsWhole

LEMMA AllocStep ==
    ASSUME TypeOK, RowsAreWhole, ThreadsAreRight, [Next]_vars, NEW n \in Nonces
    PROVE  Sending(n) \/ Committed(n) \/ Filled(n) \/ Settled(n)
<1>0. Senders \subseteq Threads /\ Keepers \subseteq Threads
  BY DEF Threads
<1>1. ASSUME alloc'[n] = alloc[n]
      PROVE  Sending(n)
  BY <1>1 DEF Sending, SameRow
<1>2. ASSUME NEW t \in Senders, Sender(t)
      PROVE  Sending(n) \/ Committed(n)
  <2>1. CASE UNCHANGED alloc
    BY <1>1, <2>1
  <2>2. CASE Commit(t)
    <3>1. RowsAreWhole /\ t \in Threads
      BY <1>0
    <3>2. PICK m \in Nonces :
             /\ Hook(thread[t].op, m)
             /\ alloc[m].status = "free"
             /\ alloc'[m] = Fresh(thread[t].op, TRUE, thread[t].seen)
             /\ \A k \in Nonces \ {m} : alloc'[k] = alloc[k]
      BY <2>2, <3>1, CommitEffects
    <3> QED
      BY <1>1, <2>2, <3>2 DEF Committed
  <2> QED
    BY <1>2, <2>1, <2>2 DEF Sender, Begin, Refuse, NotSent, recordVars
<1>3. ASSUME NEW t \in Threads, Broadcast(t) \/ PutHold(t) \/ Abandon(t) \/ Record(t)
      PROVE  Sending(n)
  <2>1. CASE UNCHANGED alloc
    BY <1>1, <2>1
  <2>2. CASE Record(t)
    <3>1. PICK m \in Nonces : m = thread[t].n
      BY <2>2, RecordSteps
    <3>2. /\ SameRow(m) /\ (alloc[m].cancel => alloc'[m].cancel)
          /\ \A k \in Nonces \ {m} : alloc'[k] = alloc[k]
      BY <2>2, <3>1, RecordSteps
    <3>3. alloc[m].status # "free"
      BY <2>2, <3>1, SignedIsUsed DEF Record, At, ThreadsAreRight, ThreadIsRight
    <3> QED
      BY <1>1, <3>2, <3>3 DEF Sending
  <2> QED
    BY <1>3, <2>1, <2>2 DEF Broadcast, PutHold, Abandon, recordVars
<1>4. ASSUME NEW t \in Keepers, Upkeep(t)
      PROVE  Sending(n) \/ Settled(n)
  <2>0. t \in Threads
    BY <1>0
  <2>1. CASE UNCHANGED alloc
    BY <1>1, <2>1
  <2>2. CASE Resend(t) \/ SpeedUp(t)
    <3>1. PICK m \in Nonces : m = thread[t].n
      BY <2>0, <2>2, ThreadFields DEF Resend, SpeedUp, At
    <3>2. RowKept(m) /\ SameRow(m)
      BY <2>2, <3>1, RowWrites DEF Resend, SpeedUp
    <3>3. alloc[m].status # "free"
      <4>1. CASE Resend(t)
        BY <2>0, <3>1, <4>1, SignedIsUsed DEF Resend, At, ThreadsAreRight, ThreadIsRight
      <4>2. CASE SpeedUp(t)
        BY <3>1, <4>2 DEF SpeedUp, Live
      <4> QED
        BY <2>2, <4>1, <4>2
    <3> QED
      BY <1>1, <3>2, <3>3 DEF Sending, RowKept
  <2>3. CASE MarkMined(t)
    BY <1>1, <2>0, <2>3, MarkEffects DEF Settled
  <2>4. CASE Resolve(t)
    <3>1. PICK m \in Nonces : m = thread[t].n
      BY <2>0, <2>4, ThreadFields DEF Resolve, At
    <3>2. /\ thread[t].to \in {"mined", "cancelled"} /\ alloc[m] = thread[t].row
          /\ alloc' = [alloc EXCEPT ![m].status = thread[t].to, ![m].key = FALSE]
      BY <2>0, <2>4, <3>1, ThreadFields DEF Resolve, At, Unchanged
    <3>3. RowKept(m) /\ alloc'[m].status = thread[t].to /\ ~alloc'[m].key
      BY <3>2, RowWrites
    <3>4. /\ Live(m)
          /\ thread[t].to = "cancelled" => Receipt(m, CancelSignings(m), TRUE)
      BY <2>0, <2>4, <3>1, <3>2 DEF Resolve, ThreadsAreRight, ThreadIsRight, Live
    <3> QED
      BY <1>1, <3>2, <3>3, <3>4 DEF Settled, RowKept
  <2> QED
    BY <1>4, <2>1, <2>2, <2>3, <2>4
       DEF Upkeep, recordVars, Look, HoldHole, LookCancel, ReadReceipts, Reread, SpeedUpCapped,
           SignCancel, CancelCapped, ReadMined
<1>5. ASSUME Admin
      PROVE  Sending(n)
  <2>1. ASSUME NEW m \in Nonces, RequestCancel(m) \/ RetrySpeedUp(m) \/ RaisePriceCap(m)
        PROVE  Sending(n)
    <3>1. alloc[m].bumps + MaxBumps \in Nat
      BY LaneAssumption, RowTypes DEF Allocation
    <3>2. RowKept(m) /\ SameRow(m)
      BY <2>1, <3>1, RowWrites DEF RequestCancel, RetrySpeedUp, RaisePriceCap
    <3>3. Live(m)
      BY <2>1 DEF RequestCancel, RetrySpeedUp, RaisePriceCap
    <3> QED
      BY <1>1, <3>2, <3>3 DEF Sending, RowKept, Live
  <2>3. CASE ClearHold
    BY <1>1, <2>3 DEF ClearHold
  <2> QED
    BY <1>5, <2>1, <2>3 DEF Admin
<1>10. ASSUME NEW t \in Keepers, Filler(t)
       PROVE  Sending(n) \/ Filled(n)
  <2>1. CASE UNCHANGED alloc
    BY <1>1, <2>1
  <2>2. CASE FillHole(t)
    BY <1>0, <1>1, <2>2, FillEffects DEF Filled
  <2> QED
    BY <1>0, <1>10, <2>1, <2>2, FillerRows
<1>6. ASSUME UNCHANGED alloc
      PROVE  Sending(n)
  BY <1>1, <1>6
<1>7. ASSUME NEW t \in Keepers, Caller(t)
      PROVE  UNCHANGED alloc
  BY <1>7 DEF Caller, RecoverHashless, FollowCancelled, FollowReverted, FailFreed, GiveUp,
              FailGiven, recordVars
<1>8. ASSUME Network \/ \E o \in Ops : Reserve(o) \/ Confirm(o)
      PROVE  UNCHANGED alloc
  BY <1>8 DEF Network, Mine, MineForeign, Finalize, Reorg, Evict, recordVars, Reserve, Confirm
<1>9. CASE Next
  BY <1>2, <1>3, <1>4, <1>5, <1>6, <1>7, <1>8, <1>9, <1>10 DEF Next
<1> QED
  BY <1>6, <1>9 DEF vars

-----------------------------------------------------------------------------
(* The parts of the invariant, one by one. *)

\* A tombstone only grows, and only while nothing holds its operation.
LEMMA RetiredStep ==
    ASSUME TypeOK, [Next]_vars, NEW o \in Ops
    PROVE  /\ retired[o].seq <= retired'[o].seq
           /\ retired'[o] = retired[o] \/ Holder(o) = {}
<1>0. retired[o].seq \in Nat
  BY DEF TypeOK, Tombstone
<1>1. CASE UNCHANGED retired
  BY <1>0, <1>1
<1>2. ASSUME NEW p \in Ops, NEW b \in BOOLEAN, RetireOp(p, b)
      PROVE  /\ retired[o].seq <= retired'[o].seq
             /\ retired'[o] = retired[o] \/ Holder(o) = {}
  BY <1>0, <1>2, RetireTypes
<1>3. ASSUME NEW t \in Threads, NotSent(t)
      PROVE  UNCHANGED retired \/ \E p \in Ops : RetireOp(p, FALSE)
  BY <1>3, ThreadFields DEF NotSent, At
<1>4. ASSUME NEW t \in Threads, GiveUp(t)
      PROVE  \E p \in Ops : RetireOp(p, TRUE)
  BY <1>4, ThreadFields DEF GiveUp, At
<1>5. ASSUME NEW t \in Threads, Sender(t)
      PROVE  UNCHANGED retired \/ \E p \in Ops : RetireOp(p, FALSE)
  BY <1>3, <1>5 DEF Sender, Begin, Refuse, Commit, recordVars
<1>6. ASSUME NEW t \in Threads, Caller(t)
      PROVE  UNCHANGED retired \/ \E p \in Ops : RetireOp(p, TRUE)
  BY <1>4, <1>6 DEF Caller, RecoverHashless, FollowCancelled, FollowReverted, FailFreed,
                    FailGiven, recordVars
<1>7. ASSUME NEW t \in Threads, Broadcast(t) \/ Record(t) \/ PutHold(t) \/ Abandon(t) \/ Upkeep(t)
                    \/ Filler(t)
      PROVE  UNCHANGED retired
  BY <1>7 DEF Filler, FillGap, FillHole, UnholdFilled, Broadcast, Record, PutHold, Abandon, Upkeep, recordVars, Look, HoldHole, LookCancel,
              ReadReceipts, Resend, Reread, SpeedUp, SpeedUpCapped, SignCancel, CancelCapped, ReadMined,
              MarkMined, Resolve
<1>8. ASSUME Network \/ Admin \/ \E p \in Ops : Reserve(p) \/ Confirm(p)
      PROVE  UNCHANGED retired
  BY <1>8 DEF Network, Mine, MineForeign, Finalize, Reorg, Evict, recordVars, Reserve, Confirm,
              Admin, RequestCancel, RetrySpeedUp, RaisePriceCap, ClearHold
<1>9. CASE Next
  <2>1. Senders \subseteq Threads /\ Keepers \subseteq Threads
    BY DEF Threads
  <2>2. UNCHANGED retired \/ \E p \in Ops, b \in BOOLEAN : RetireOp(p, b)
    BY <1>5, <1>6, <1>7, <1>8, <1>9, <2>1 DEF Next
  <2> QED
    BY <1>1, <1>2, <2>2
<1> QED
  BY <1>1, <1>9 DEF vars

LEMMA CancelStep ==
    ASSUME LaneInv, TypeOK', [Next]_vars
    PROVE  CancelIsFinal'
<1>1. SUFFICES ASSUME NEW n \in Nonces, alloc'[n].status = "cancelled"
               PROVE  Receipt(n, CancelSignings(n), TRUE)'
  BY DEF CancelIsFinal
<1>2. Receipt(n, CancelSignings(n), TRUE)
  <2>1. Sending(n) \/ Committed(n) \/ Filled(n) \/ Settled(n)
    BY AllocStep DEF LaneInv
  <2>2. ~Committed(n) /\ ~Filled(n)
    <3>1. ASSUME NEW o, NEW k, NEW b
          PROVE  alloc'[n] # Fresh(o, k, b)
      BY <1>1 DEF Fresh
    <3> QED
      BY <3>1 DEF Committed, Filled
  <2>3. CASE Sending(n)
    BY <1>1, <2>3 DEF LaneInv, CancelIsFinal, Sending, SameRow
  <2>4. CASE Settled(n)
    BY <1>1, <2>4 DEF Settled
  <2> QED
    BY <2>1, <2>2, <2>3, <2>4
<1> QED
  BY <1>2, RowsStep, DeepStep, FateStays DEF LaneInv

LEMMA GiveUpStep ==
    ASSUME LaneInv, [Next]_vars
    PROVE  GiveUpIsFinal'
<1>1. SUFFICES ASSUME NEW n \in Nonces, alloc'[n].key
               PROVE  /\ alloc'[n].born = retired'[alloc'[n].call].seq
                      /\ ~retired'[alloc'[n].call].permanent
  BY DEF GiveUpIsFinal
<1>2. CASE Sending(n)
  <2>1. /\ alloc[n].key /\ alloc'[n].call = alloc[n].call /\ alloc'[n].born = alloc[n].born
        /\ alloc[n].call \in Ops
    BY <1>1, <1>2 DEF Sending, SameRow, LaneInv, RowsAreWhole, RowIsWhole
  <2>2. n \in Holder(alloc[n].call)
    BY <2>1 DEF Holder
  <2>3. retired'[alloc[n].call] = retired[alloc[n].call]
    BY <2>1, <2>2, RetiredStep DEF LaneInv
  <2> QED
    BY <2>1, <2>3 DEF LaneInv, GiveUpIsFinal
<1>3. CASE Committed(n)
  <2>1. PICK t \in Senders : /\ Commit(t)
                             /\ alloc'[n] = Fresh(thread[t].op, TRUE, thread[t].seen)
    BY <1>3 DEF Committed
  <2>2. t \in Threads /\ At(t, "begun")
    BY <2>1 DEF Threads, Commit
  <2>3. /\ thread[t].op \in Ops /\ thread[t].seen \in Nat
        /\ thread[t].seen <= retired[thread[t].op].seq
    BY <2>2, ThreadFields DEF LaneInv, ThreadsAreRight, ThreadIsRight
  <2>4. /\ retired' = retired /\ ~retired[thread[t].op].permanent
        /\ retired[thread[t].op].seq <= thread[t].seen
    BY <2>1 DEF Commit
  <2>5. alloc'[n].call = thread[t].op /\ alloc'[n].born = thread[t].seen
    BY <2>1 DEF Fresh
  <2>6. retired[thread[t].op].seq \in Nat
    BY <2>3 DEF LaneInv, TypeOK, Tombstone
  <2> QED
    BY <2>3, <2>4, <2>5, <2>6
<1>4. CASE Filled(n) \/ Settled(n)
  BY <1>1, <1>4 DEF Filled, Fresh, Settled
<1> QED
  BY <1>2, <1>3, <1>4, AllocStep DEF LaneInv

LEMMA LeavesStep ==
    ASSUME LaneInv, TypeOK', [Next]_vars
    PROVE  OnlyRecordedLeaves'
<1>0. Grows /\ TypeOK /\ OnlyRecordedLeaves
  BY RowsStep DEF LaneInv
<1>1. \A n \in Nonces : /\ DOMAIN txs[n] \subseteq DOMAIN txs'[n]
                        /\ Len(txs[n]) \in Nat /\ Len(txs'[n]) \in Nat
                        /\ Len(txs[n]) <= Len(txs'[n])
                        /\ DOMAIN txs[n] = 1..Len(txs[n])
  <2> SUFFICES ASSUME NEW n \in Nonces
               PROVE  /\ DOMAIN txs[n] \subseteq DOMAIN txs'[n]
                      /\ Len(txs[n]) \in Nat /\ Len(txs'[n]) \in Nat
                      /\ Len(txs[n]) <= Len(txs'[n])
                      /\ DOMAIN txs[n] = 1..Len(txs[n])
    OBVIOUS
  <2>1. txs[n] \in Seq(Signing) /\ txs'[n] \in Seq(Signing) /\ Len(txs[n]) <= Len(txs'[n])
    BY <1>0 DEF Grows, RowGrows, TypeOK
  <2> QED
    BY <2>1
<1>2. /\ chain \in Seq(Block) /\ DOMAIN chain = 1..Len(chain) /\ Len(chain) \in Nat
      /\ Len(chain) <= MaxNonce /\ DOMAIN chain \subseteq Nonces /\ MaxNonce \in Nat
      /\ MaxSignings \in Nat
  BY <1>0, LaneAssumption DEF TypeOK, Nonces
<1>3. ASSUME \A n \in Nonces, i \in Index : <<n, i>> \in out' => i \in DOMAIN txs[n],
             \A n \in DOMAIN chain' : n \in Nonces /\ chain'[n].tx \in Nat
                                      /\ chain'[n].tx <= Len(txs[n])
      PROVE  OnlyRecordedLeaves'
  BY <1>1, <1>3 DEF OnlyRecordedLeaves
<1>4. \A n \in DOMAIN chain : /\ n \in Nonces /\ chain[n].tx \in Nat
                              /\ chain[n].tx <= Len(txs[n])
  <2> SUFFICES ASSUME NEW n \in DOMAIN chain
               PROVE  n \in Nonces /\ chain[n].tx \in Nat /\ chain[n].tx <= Len(txs[n])
    OBVIOUS
  <2>1. chain[n] \in Block
    BY <1>2
  <2> QED
    BY <1>0, <1>2, <2>1 DEF Block, OnlyRecordedLeaves
<1>5. CASE UNCHANGED <<out, chain>>
  BY <1>0, <1>3, <1>4, <1>5 DEF OnlyRecordedLeaves
<1>6. ASSUME NEW t \in Threads, Broadcast(t)
      PROVE  OnlyRecordedLeaves'
  <2>1. /\ thread[t].n \in Nonces /\ thread[t].i \in DOMAIN txs[thread[t].n]
        /\ out' \subseteq out \cup {<<thread[t].n, thread[t].i>>} /\ chain' = chain
    BY <1>6, ThreadFields DEF Broadcast, At, LaneInv, ThreadsAreRight, ThreadIsRight
  <2> QED
    BY <1>0, <1>3, <1>4, <2>1 DEF OnlyRecordedLeaves
<1>7. CASE Network
  <2>1. ASSUME NEW i \in Index, Mine(i)
        PROVE  OnlyRecordedLeaves'
    <3>1. PICK ok \in BOOLEAN : chain' = Append(chain, [tx |-> i, ok |-> ok])
      BY <2>1 DEF Mine
    <3>2. [tx |-> i, ok |-> ok] \in Block
      BY <1>2 DEF Block, Index
    <3>3. /\ DOMAIN chain' = 1..(Len(chain) + 1)
          /\ \A n \in DOMAIN chain : chain'[n] = chain[n]
          /\ chain'[Len(chain) + 1] = [tx |-> i, ok |-> ok]
      BY <1>2, <3>1, <3>2
    <3>4. /\ Len(chain) + 1 \in Nonces /\ i \in DOMAIN txs[Len(chain) + 1] /\ out' = out
          /\ <<Len(chain) + 1, i>> \in out
      BY <1>0, <2>1 DEF Mine, OnlyRecordedLeaves, TypeOK
    <3>5. i \in Nat /\ i <= Len(txs[Len(chain) + 1])
      BY <1>1, <3>4
    <3>6. \A n \in DOMAIN chain' : n \in Nonces /\ chain'[n].tx \in Nat
                                      /\ chain'[n].tx <= Len(txs[n])
      <4> TAKE n \in DOMAIN chain'
      <4>1. CASE n \in DOMAIN chain
        BY <1>4, <3>3, <4>1
      <4>2. CASE n = Len(chain) + 1
        BY <3>3, <3>4, <3>5, <4>2
      <4> QED
        BY <1>2, <3>3, <4>1, <4>2
    <3> QED
      BY <1>0, <1>3, <3>4, <3>6 DEF OnlyRecordedLeaves
  <2>2. CASE MineForeign
    <3>1. [tx |-> 0, ok |-> TRUE] \in Block
      BY <1>2 DEF Block
    <3>2. chain' = Append(chain, [tx |-> 0, ok |-> TRUE]) /\ out' = out /\ Len(chain) < MaxNonce
      BY <2>2 DEF MineForeign
    <3>3. /\ DOMAIN chain' = 1..(Len(chain) + 1)
          /\ \A n \in DOMAIN chain : chain'[n] = chain[n]
          /\ chain'[Len(chain) + 1] = [tx |-> 0, ok |-> TRUE]
      BY <1>2, <3>1, <3>2
    <3>4. Len(chain) + 1 \in Nonces
      BY <1>2, <3>2 DEF Nonces
    <3>6. \A n \in DOMAIN chain' : n \in Nonces /\ chain'[n].tx \in Nat
                                      /\ chain'[n].tx <= Len(txs[n])
      <4> TAKE n \in DOMAIN chain'
      <4>1. CASE n \in DOMAIN chain
        BY <1>4, <3>3, <4>1
      <4>2. CASE n = Len(chain) + 1
        BY <1>1, <3>3, <3>4, <4>2
      <4> QED
        BY <1>2, <3>3, <4>1, <4>2
    <3> QED
      BY <1>0, <1>3, <3>2, <3>6 DEF OnlyRecordedLeaves
  <2>3. CASE Reorg
    <3>1. PICK d \in final..(Len(chain) - 1) : chain' = SubSeq(chain, 1, d)
      BY <2>3 DEF Reorg
    <3>2. d \in Nat /\ d <= Len(chain)
      BY <1>0, <3>1 DEF TypeOK
    <3>3. DOMAIN chain' \subseteq DOMAIN chain /\ \A n \in DOMAIN chain' : chain'[n] = chain[n]
      BY <1>2, <3>1, <3>2
    <3> QED
      BY <1>0, <1>3, <1>4, <2>3, <3>3 DEF Reorg, OnlyRecordedLeaves
  <2>4. CASE Finalize \/ Evict
    BY <1>5, <2>4 DEF Finalize, Evict
  <2> QED
    BY <1>7, <2>1, <2>2, <2>3, <2>4 DEF Network
<1>8. ASSUME NEW t, Sender(t) \/ Record(t) \/ PutHold(t) \/ Abandon(t) \/ Upkeep(t)
                    \/ Filler(t) \/ Caller(t)
      PROVE  UNCHANGED <<out, chain>>
  BY <1>8 DEF PutHold, Filler, FillGap, FillHole, UnholdFilled, Sender, Begin, Refuse, Commit, NotSent, Record, PutHold, Abandon, chainVars, Upkeep, Caller,
              RecoverHashless, FollowCancelled, FollowReverted, FailFreed, GiveUp, FailGiven,
              Look, HoldHole, LookCancel, ReadReceipts, Resend, Reread, SpeedUp, SpeedUpCapped,
              SignCancel, CancelCapped, ReadMined, MarkMined, Resolve
<1>9. ASSUME Admin \/ \E o \in Ops : Reserve(o) \/ Confirm(o)
      PROVE  UNCHANGED <<out, chain>>
  BY <1>9 DEF Admin, RequestCancel, RetrySpeedUp, RaisePriceCap, ClearHold,
              Reserve, Confirm, chainVars
<1>10. CASE Next
  BY <1>5, <1>6, <1>7, <1>8, <1>9, <1>10 DEF Next
<1> QED
  BY <1>5, <1>10 DEF vars

\* A thread that rests keeps what it relies on.
LEMMA RestingThread ==
    ASSUME LaneInv, TypeOK', [Next]_vars, NEW t \in Threads, thread'[t] = thread[t]
    PROVE  ThreadIsRight(t)'
<1>1. ThreadIsRight(t) /\ TypeOK /\ Grows
  BY RowsStep DEF LaneInv, ThreadsAreRight
<1>2. \A n \in Nonces : /\ Dead(n) => Dead(n)'
                        /\ Receipt(n, CancelSignings(n), TRUE)
                             => Receipt(n, CancelSignings(n), TRUE)'
  BY RowsStep, DeepStep, FateStays DEF LaneInv
<1>3. At(t, "begun") => thread'[t].seen <= retired'[thread'[t].op].seq
  <2> SUFFICES ASSUME At(t, "begun") PROVE thread[t].seen <= retired'[thread[t].op].seq
    OBVIOUS
  <2>1. thread[t].op \in Ops /\ thread[t].seen \in Nat
    BY <1>1, ThreadFields
  <2>2. /\ retired[thread[t].op].seq <= retired'[thread[t].op].seq
        /\ retired[thread[t].op].seq \in Nat /\ retired'[thread[t].op].seq \in Nat
    BY <1>1, <2>1, RetiredStep DEF TypeOK, Tombstone
  <2> QED
    BY <1>1, <2>1, <2>2 DEF ThreadIsRight
<1>4. thread[t].pc \in {"signed", "sent", "resend"} => thread[t].i \in DOMAIN txs'[thread[t].n]
  <2> SUFFICES ASSUME thread[t].pc \in {"signed", "sent", "resend"}
               PROVE  thread[t].i \in DOMAIN txs'[thread[t].n]
    OBVIOUS
  <2>1. PICK n \in Nonces : n = thread[t].n
    BY <1>1, ThreadFields
  <2>2. thread[t].i \in DOMAIN txs[n]
    BY <1>1, <2>1 DEF ThreadIsRight
  <2>3. txs[n] \in Seq(Signing) /\ txs'[n] \in Seq(Signing) /\ Len(txs[n]) <= Len(txs'[n])
    BY <1>1 DEF TypeOK, Grows, RowGrows
  <2>4. DOMAIN txs[n] \subseteq DOMAIN txs'[n]
    BY <2>3
  <2> QED
    BY <2>1, <2>2, <2>4
<1>5. At(t, "settle") /\ thread[t].to = "cancelled" =>
        \A n \in Nonces : n = thread[t].n => Receipt(n, CancelSignings(n), TRUE)'
  BY <1>1, <1>2 DEF ThreadIsRight
<1>6. thread[t].pc \in {"proved", "given"} =>
        \A n \in Nonces : n = thread[t].n => Dead(n)'
  BY <1>1, <1>2 DEF ThreadIsRight
<1>7. At(t, "settle") => thread[t].row.status = "live"
  BY <1>1 DEF ThreadIsRight
<1> QED
  BY <1>3, <1>4, <1>5, <1>6, <1>7 DEF ThreadIsRight, At

\* Where a thread relies on nothing.
LEMMA FreeThread ==
    ASSUME NEW t \in Threads,
           thread'[t].pc \in {"idle", "refused", "freed", "bump", "cancelling", "mark", "holding",
                            "filling", "reread", "unhold"}
    PROVE  ThreadIsRight(t)'
  BY DEF ThreadIsRight, At

\* Where it has a signing to broadcast or to record.
LEMMA SigningThread ==
    ASSUME NEW t \in Threads, thread'[t].pc \in {"signed", "sent", "resend"},
           thread'[t].i \in DOMAIN txs'[thread'[t].n]
    PROVE  ThreadIsRight(t)'
  BY DEF ThreadIsRight, At

LEMMA MovedSender ==
    ASSUME LaneInv, TypeOK', NEW t \in Threads,
           Sender(t) \/ Broadcast(t) \/ Record(t) \/ PutHold(t) \/ Abandon(t)
    PROVE  /\ ThreadIsRight(t)'
           /\ \A s \in Threads \ {t} : thread'[s] = thread[s]
<1>0. TypeOK /\ RowsAreWhole /\ thread \in [Threads -> Thread] /\ ThreadIsRight(t)
  BY DEF LaneInv, TypeOK, ThreadsAreRight
<1>1. ASSUME NEW x, Goto(t, x)
      PROVE  thread'[t] = x /\ \A s \in Threads \ {t} : thread'[s] = thread[s]
  BY <1>0, <1>1 DEF Goto
<1>2. CASE Stop(t)
  BY <1>1, <1>2, FreeThread DEF Stop, Idle
<1>3. ASSUME NEW o \in Ops, Begin(t, o)
      PROVE  /\ ThreadIsRight(t)' /\ \A s \in Threads \ {t} : thread'[s] = thread[s]
  <2>1. /\ Goto(t, [pc |-> "begun", op |-> o, seen |-> retired[o].seq])
        /\ retired' = retired
    BY <1>3 DEF Begin, recordVars
  <2>2. thread'[t].pc = "begun" /\ thread'[t].op = o /\ thread'[t].seen = retired[o].seq
    BY <1>1, <2>1
  <2>3. retired[o].seq \in Nat
    BY <1>0 DEF TypeOK, Tombstone
  <2> QED
    BY <1>1, <2>1, <2>2, <2>3 DEF ThreadIsRight, At
<1>4. CASE Refuse(t)
  BY <1>1, <1>2, <1>4, FreeThread DEF Refuse
<1>5. CASE Commit(t)
  <2>1. PICK n \in Nonces :
          /\ DOMAIN txs'[n] = {1}
          /\ thread' = [thread EXCEPT ![t] = [pc |-> "signed", n |-> n, i |-> 1, then |-> "idle"]]
    BY <1>0, <1>5, CommitEffects
  <2>2. Goto(t, [pc |-> "signed", n |-> n, i |-> 1, then |-> "idle"])
    BY <2>1 DEF Goto
  <2> QED
    BY <1>1, <2>1, <2>2, SigningThread
<1>6. CASE NotSent(t)
  BY <1>2, <1>6 DEF NotSent
<1>7. CASE Broadcast(t)
  <2>1. PICK got \in Answers :
          Goto(t, [pc |-> "sent", n |-> thread[t].n, i |-> thread[t].i,
                   then |-> thread[t].then, got |-> got])
    BY <1>7 DEF Broadcast
  <2>2. thread[t].i \in DOMAIN txs[thread[t].n] /\ txs' = txs
    BY <1>0, <1>7 DEF ThreadIsRight, Broadcast, At, recordVars
  <2>3. /\ thread'[t].pc = "sent" /\ thread'[t].n = thread[t].n /\ thread'[t].i = thread[t].i
        /\ \A s \in Threads \ {t} : thread'[s] = thread[s]
    BY <1>1, <2>1
  <2>4. thread'[t].i \in DOMAIN txs'[thread'[t].n]
    BY <2>2, <2>3
  <2>5. ThreadIsRight(t)'
    BY <2>3, <2>4, SigningThread
  <2> QED
    BY <2>3, <2>5
<1>8. CASE Record(t)
  <2>1. thread[t].n \in Nonces
    BY <1>0, <1>8, RecordSteps
  <2>2. PICK then \in After :
          \/ Goto(t, [pc |-> "holding", n |-> thread[t].n, then |-> then])
          \/ Goto(t, Onward(thread[t].n, then))
    BY <1>0, <1>8, RecordGoes
  <2>3. /\ thread'[t].pc \in {"idle", "holding", "reread", "unhold"}
        /\ \A s \in Threads \ {t} : thread'[s] = thread[s]
    BY <1>1, <2>1, <2>2, OnwardType
  <2> QED
    BY <2>3, FreeThread
<1>9. CASE Abandon(t)
  BY <1>2, <1>9 DEF Abandon
<1>10. CASE PutHold(t)
  <2>1. thread[t].n \in Nonces /\ thread[t].then \in After
    BY <1>0, <1>10, ThreadFields DEF PutHold, At
  <2>2. /\ thread'[t].pc \in {"idle", "reread", "unhold"}
        /\ \A s \in Threads \ {t} : thread'[s] = thread[s]
    BY <1>1, <1>10, <2>1, OnwardType DEF PutHold
  <2> QED
    BY <2>2, FreeThread
<1> QED
  BY <1>3, <1>4, <1>5, <1>6, <1>7, <1>8, <1>9, <1>10 DEF Sender

LEMMA MovedKeeper ==
    ASSUME LaneInv, TypeOK', Grows, DeepKept, NEW t \in Threads,
           Upkeep(t) \/ Filler(t) \/ Caller(t)
    PROVE  /\ ThreadIsRight(t)' \/ UNCHANGED thread
           /\ \A s \in Threads \ {t} : thread'[s] = thread[s]
<1>0. /\ TypeOK /\ RowsAreWhole /\ OnlyRecordedLeaves /\ thread \in [Threads -> Thread]
      /\ ThreadIsRight(t)
  BY DEF LaneInv, TypeOK, ThreadsAreRight
<1> DEFINE Moved == /\ ThreadIsRight(t)' \/ UNCHANGED thread
                    /\ \A s \in Threads \ {t} : thread'[s] = thread[s]
<1>1. ASSUME NEW x, Goto(t, x)
      PROVE  thread'[t] = x /\ \A s \in Threads \ {t} : thread'[s] = thread[s]
  BY <1>0, <1>1 DEF Goto
<1>2. ASSUME NEW x, Goto(t, x),
             x.pc \in {"idle", "refused", "freed", "bump", "cancelling", "mark", "holding",
                       "filling", "reread", "unhold"}
      PROVE  Moved
  BY <1>1, <1>2, FreeThread
<1>3. CASE Stop(t)
  BY <1>2, <1>3 DEF Stop, Idle
<1>4. ASSUME NEW n \in Nonces, NEW i, NEW r, i \in DOMAIN txs'[n],
             Goto(t, [pc |-> "signed", n |-> n, i |-> i, then |-> r])
      PROVE  Moved
  BY <1>1, <1>4, SigningThread
<1>5. ASSUME NEW n \in Nonces, Dead(n), NEW o, NEW pc \in {"proved", "given"},
             Goto(t, [pc |-> pc, op |-> o, n |-> n])
      PROVE  Moved
  <2>1. Dead(n)'
    BY <1>0, <1>5, FateStays
  <2>2. thread'[t].pc = pc /\ thread'[t].n = n
    BY <1>1, <1>5
  <2>3. ThreadIsRight(t)'
    BY <2>1, <2>2 DEF ThreadIsRight, At
  <2> QED
    BY <1>1, <1>5, <2>3
<1>6. ASSUME NEW n \in Nonces, Look(t, n) PROVE Moved
  <2>1. PICK i \in DOMAIN txs[n] :
           \/ Goto(t, [pc |-> "resend", n |-> n, i |-> i, row |-> alloc[n],
                       count |-> Len(txs[n])])
           \/ Goto(t, [pc |-> "bump", n |-> n, row |-> alloc[n], count |-> Len(txs[n])])
    BY <1>6 DEF Look
  <2>2. txs' = txs
    BY <1>6 DEF Look, recordVars
  <2>3. CASE Goto(t, [pc |-> "resend", n |-> n, i |-> i, row |-> alloc[n],
                      count |-> Len(txs[n])])
    BY <1>1, <2>2, <2>3, SigningThread
  <2>4. CASE Goto(t, [pc |-> "bump", n |-> n, row |-> alloc[n], count |-> Len(txs[n])])
    BY <1>2, <2>4
  <2> QED
    BY <2>1, <2>3, <2>4
<1>7. ASSUME NEW n \in Nonces, HoldHole(t, n) PROVE Moved
  BY <1>2, <1>7 DEF HoldHole, GoHold
<1>8. ASSUME NEW n \in Nonces, LookCancel(t, n) PROVE Moved
  BY <1>2, <1>8 DEF LookCancel
<1>9. ASSUME NEW n \in Nonces, ReadReceipts(t, n) PROVE Moved
  <2>1. PICK to \in {"mined", "cancelled"} :
          /\ to = "cancelled" => Receipt(n, CancelSignings(n), TRUE)
          /\ Goto(t, [pc |-> "settle", n |-> n, row |-> alloc[n], count |-> Len(txs[n]), to |-> to])
    BY <1>9 DEF ReadReceipts
  <2>2. to = "cancelled" => Receipt(n, CancelSignings(n), TRUE)'
    BY <1>0, <2>1, FateStays
  <2>3. /\ thread'[t].pc = "settle" /\ thread'[t].n = n /\ thread'[t].to = to
        /\ thread'[t].row = alloc[n]
    BY <1>1, <2>1
  <2>4. alloc[n].status = "live"
    BY <1>9 DEF ReadReceipts, Live
  <2>5. ThreadIsRight(t)'
    BY <2>2, <2>3, <2>4 DEF ThreadIsRight, At
  <2> QED
    BY <1>1, <2>1, <2>5
<1>10. CASE Resend(t)
  <2>1. PICK n \in Nonces : n = thread[t].n
    BY <1>0, <1>10, ThreadFields DEF Resend, At
  <2>2. thread[t].i \in DOMAIN txs[n] /\ txs' = txs
    BY <1>0, <1>10, <2>1 DEF ThreadIsRight, Resend, At
  <2>3. Goto(t, [pc |-> "signed", n |-> n, i |-> thread[t].i, then |-> "reread"])
    BY <1>10, <2>1 DEF Resend
  <2> QED
    BY <1>4, <2>2, <2>3
<1>11. CASE SpeedUp(t) \/ SignCancel(t)
  <2>1. PICK n \in Nonces : n = thread[t].n
    BY <1>0, <1>11, ThreadFields DEF SpeedUp, SignCancel, At
  <2>2. /\ Len(txs[n]) < MaxSignings
        /\ txs' = Signs(n, FALSE) \/ txs' = Signs(n, TRUE)
        /\ Goto(t, [pc |-> "signed", n |-> n, i |-> Len(txs[n]) + 1, then |-> "idle"])
    BY <1>11, <2>1 DEF SpeedUp, SignCancel
  <2>3. /\ txs' \in [Nonces -> Seq(Signing)] /\ Len(txs'[n]) = Len(txs[n]) + 1
        /\ Len(txs[n]) \in Nat
    <3>1. Len(txs[n]) \in Nat
      BY <1>0, RowTypes
    <3>2. TRUE \in BOOLEAN /\ FALSE \in BOOLEAN
      OBVIOUS
    <3> QED
      BY <1>0, <2>2, <3>1, <3>2, SignsType
  <2>4. Len(txs[n]) + 1 \in DOMAIN txs'[n]
    BY <2>3
  <2> QED
    BY <1>4, <2>2, <2>4
<1>12. CASE MarkMined(t) \/ Resolve(t) \/ UnholdFilled(t) \/ FailFreed(t) \/ FailGiven(t)
  BY <1>3, <1>12 DEF MarkMined, Resolve, UnholdFilled, FailFreed, FailGiven
<1>13. CASE ReadMined(t)
  BY <1>2, <1>13 DEF ReadMined
<1>17. CASE SpeedUpCapped(t) \/ CancelCapped(t) \/ Reread(t)
  BY <1>2, <1>17 DEF SpeedUpCapped, CancelCapped, GoHold, Reread
<1>18. ASSUME NEW n \in Nonces, FillGap(t, n) PROVE Moved
  BY <1>2, <1>18 DEF FillGap
<1>19. CASE FillHole(t)
  <2>1. PICK n \in Nonces : n = thread[t].n
    BY <1>0, <1>19, FillEffects
  <2>2. 1 \in DOMAIN txs'[n]
    BY <1>0, <1>19, <2>1, FillEffects
  <2>3. Goto(t, [pc |-> "signed", n |-> n, i |-> 1, then |-> "unhold"])
    BY <1>19, <2>1 DEF FillHole
  <2> QED
    BY <1>4, <2>2, <2>3
<1>14. ASSUME NEW o \in Ops, RecoverHashless(t, o) PROVE Moved
  BY <1>2, <1>14 DEF RecoverHashless
<1>15. ASSUME NEW o \in Ops, FollowCancelled(t, o) \/ FollowReverted(t, o) PROVE Moved
  <2>1. PICK n \in Nonces : n = leg[o].nonce
    <3>1. leg[o].nonce \in 0..MaxNonce /\ leg[o].nonce # 0
      BY <1>0, <1>15 DEF FollowCancelled, FollowReverted, TypeOK, Leg
    <3> QED
      BY <3>1, LaneAssumption DEF Nonces
  <2>2. Dead(n)
    BY <1>0, <1>15, <2>1 DEF FollowCancelled, FollowReverted, Dead, Deep, Receipt
  <2>3. \E pc \in {"proved", "given"} : Goto(t, [pc |-> pc, op |-> o, n |-> n])
    BY <1>15, <2>1 DEF FollowCancelled, FollowReverted
  <2> QED
    BY <1>5, <2>2, <2>3
<1>16. CASE GiveUp(t)
  <2>1. PICK n \in Nonces : n = thread[t].n
    BY <1>0, <1>16, ThreadFields DEF GiveUp, At
  <2>2. Dead(n) /\ Goto(t, [pc |-> "given", op |-> thread[t].op, n |-> n])
    BY <1>0, <1>16, <2>1 DEF GiveUp, ThreadIsRight, At
  <2> QED
    BY <1>5, <2>2
<1> QED
  BY <1>6, <1>7, <1>8, <1>9, <1>10, <1>11, <1>12, <1>13, <1>14, <1>15, <1>16, <1>17, <1>18, <1>19
     DEF Upkeep, Filler, Caller

LEMMA ThreadsStep ==
    ASSUME LaneInv, TypeOK', [Next]_vars
    PROVE  ThreadsAreRight'
<1>0. /\ TypeOK /\ RowsAreWhole /\ Grows /\ DeepKept /\ thread \in [Threads -> Thread]
      /\ Senders \subseteq Threads /\ Keepers \subseteq Threads
  BY RowsStep, DeepStep DEF LaneInv, TypeOK, Threads
<1>1. ASSUME NEW t \in Threads, ThreadIsRight(t)' \/ UNCHANGED thread,
             \A s \in Threads \ {t} : thread'[s] = thread[s]
      PROVE  ThreadsAreRight'
  BY <1>1, RestingThread DEF ThreadsAreRight
<1>2. CASE UNCHANGED thread
  BY <1>2, RestingThread DEF ThreadsAreRight
<1>3. ASSUME NEW t \in Threads, Sender(t) \/ Broadcast(t) \/ Record(t) \/ PutHold(t) \/ Abandon(t)
      PROVE  ThreadsAreRight'
  BY <1>1, <1>3, MovedSender
<1>4. ASSUME NEW t \in Threads, Upkeep(t) \/ Filler(t) \/ Caller(t)
      PROVE  ThreadsAreRight'
  BY <1>0, <1>1, <1>4, MovedKeeper
<1>6. CASE Network
  BY <1>2, <1>6 DEF Network, Mine, MineForeign, Finalize, Reorg, Evict
<1>7. CASE Admin
  BY <1>2, <1>7 DEF Admin, RequestCancel, RetrySpeedUp, RaisePriceCap, ClearHold
<1>8. ASSUME NEW o \in Ops, Reserve(o) \/ Confirm(o)
      PROVE  ThreadsAreRight'
  BY <1>2, <1>8 DEF Reserve, Confirm
<1>9. CASE Next
  BY <1>0, <1>3, <1>4, <1>6, <1>7, <1>8, <1>9 DEF Next
<1> QED
  BY <1>2, <1>9 DEF vars

\* A call gets a nonce by a commit of its own.
LEMMA NewCall ==
    ASSUME LaneInv, [Next]_vars, NEW n \in Nonces, NEW o \in Ops, alloc'[n].call = o
    PROVE  \/ alloc[n].call = o
           \/ \E t \in Senders : /\ Commit(t) /\ thread[t].op = o /\ Hook(o, n)
                                 /\ \A m \in Nonces \ {n} : alloc'[m] = alloc[m]
<1>1. Sending(n) \/ Committed(n) \/ Filled(n) \/ Settled(n)
  BY AllocStep DEF LaneInv
<1>2. CASE Sending(n) \/ Settled(n)
  BY <1>2 DEF Sending, SameRow, Settled
<1>3. ~Filled(n)
  BY LaneAssumption DEF Filled, Fresh
<1>4. CASE Committed(n)
  BY <1>4 DEF Committed, Fresh
<1> QED
  BY <1>1, <1>2, <1>3, <1>4

\* Who changes a leg.
LEMMA LegChange ==
    ASSUME LaneInv, [Next]_vars, NEW o \in Hooked, leg'[o] # leg[o]
    PROVE  \/ /\ leg[o] = [status |-> "pending", nonce |-> 0]
              /\ \E n \in Nonces : /\ leg'[o] = [status |-> "pending", nonce |-> n]
                                   /\ alloc'[n].call = o
                                   /\ \A m \in Nonces \ {n} : alloc'[m] = alloc[m]
           \/ /\ UNCHANGED alloc
              /\ \E n \in 0..MaxNonce :
                   /\ n = 0 \/ Dead(n)
                   /\ leg[o] = [status |-> "pending", nonce |-> n]
                   /\ leg'[o] = [status |-> "failed", nonce |-> n]
           \/ UNCHANGED alloc /\ (Reserve(o) \/ Confirm(o))
<1>0. /\ TypeOK /\ RowsAreWhole /\ o \in Ops /\ Senders \subseteq Threads
      /\ Keepers \subseteq Threads /\ Nonces \subseteq 0..MaxNonce /\ 0 \in 0..MaxNonce
  BY LaneAssumption DEF LaneInv, Threads, Nonces
<1> DEFINE Failed == /\ UNCHANGED alloc
                     /\ \E n \in 0..MaxNonce :
                          /\ n = 0 \/ Dead(n)
                          /\ leg[o] = [status |-> "pending", nonce |-> n]
                          /\ leg'[o] = [status |-> "failed", nonce |-> n]
           Named == /\ leg[o] = [status |-> "pending", nonce |-> 0]
                    /\ \E n \in Nonces : /\ leg'[o] = [status |-> "pending", nonce |-> n]
                                         /\ alloc'[n].call = o
                                         /\ \A m \in Nonces \ {n} : alloc'[m] = alloc[m]
<1>1. ASSUME NEW p \in Ops, NEW n \in 0..MaxNonce, FailLeg(p, n), n = 0 \/ Dead(n),
             UNCHANGED alloc
      PROVE  Failed
  <2>1. p = o /\ leg[o] = [status |-> "pending", nonce |-> n]
        /\ leg'[o] = [status |-> "failed", nonce |-> n]
    BY <1>0, <1>1, FailTypes
  <2> QED
    BY <1>1, <2>1
<1>2. ASSUME NEW t \in Senders, Commit(t)
      PROVE  Named
  <2>1. PICK n \in Nonces : /\ Hook(thread[t].op, n)
                            /\ alloc'[n] = Fresh(thread[t].op, TRUE, thread[t].seen)
                            /\ \A m \in Nonces \ {n} : alloc'[m] = alloc[m]
    BY <1>0, <1>2, CommitEffects
  <2>2. thread[t].op \in Ops
    BY <1>0, <1>2, CommitEffects
  <2>3. thread[t].op = o
    BY <1>0, <2>1, <2>2, HookTypes
  <2>4. leg[o] = [status |-> "pending", nonce |-> 0] /\ leg'[o] = [status |-> "pending", nonce |-> n]
    BY <1>0, <2>1, <2>3, HookTypes
  <2>5. alloc'[n].call = o
    BY <2>1, <2>3 DEF Fresh
  <2> QED
    BY <2>1, <2>4, <2>5
<1>3. ASSUME NEW t \in Senders, Sender(t)
      PROVE  Named \/ Failed
  <2>1. CASE NotSent(t)
    <3>1. thread[t].op \in Ops /\ UNCHANGED alloc
      BY <1>0, <2>1, ThreadFields DEF NotSent, At
    <3>2. FailLeg(thread[t].op, 0)
      BY <2>1 DEF NotSent
    <3> QED
      BY <1>0, <1>1, <3>1, <3>2
  <2> QED
    BY <1>2, <1>3, <2>1 DEF Sender, Begin, Refuse, recordVars
<1>4. ASSUME NEW t \in Keepers, Caller(t)
      PROVE  Failed
  <2>1. CASE FailFreed(t)
    <3>1. thread[t].op \in Ops /\ UNCHANGED alloc /\ FailLeg(thread[t].op, 0)
      BY <1>0, <2>1, ThreadFields DEF FailFreed, At
    <3> QED
      BY <1>0, <1>1, <3>1
  <2>2. CASE FailGiven(t)
    <3>1. /\ thread[t].op \in Ops /\ thread[t].n \in Nonces /\ UNCHANGED alloc
          /\ FailLeg(thread[t].op, thread[t].n) /\ thread[t].pc = "given"
      BY <1>0, <2>2, ThreadFields DEF FailGiven, At
    <3>2. Dead(thread[t].n)
      BY <1>0, <3>1 DEF LaneInv, ThreadsAreRight, ThreadIsRight
    <3> QED
      BY <1>0, <1>1, <3>1, <3>2
  <2> QED
    BY <1>4, <2>1, <2>2
       DEF Caller, RecoverHashless, FollowCancelled, FollowReverted, GiveUp, recordVars
<1>5. ASSUME NEW p \in Ops, Reserve(p) \/ Confirm(p)
      PROVE  UNCHANGED alloc /\ (Reserve(o) \/ Confirm(o))
  <2>1. p = o
    BY <1>0, <1>5, LegTypes
  <2> QED
    BY <1>5, <2>1 DEF Reserve, Confirm
<1>6. ASSUME NEW t, Broadcast(t) \/ Record(t) \/ PutHold(t) \/ Abandon(t) \/ Upkeep(t)
                    \/ Filler(t)
      PROVE  FALSE
  BY <1>6 DEF Filler, FillGap, FillHole, UnholdFilled, Broadcast, Record, PutHold, Abandon, Upkeep, recordVars, Look, HoldHole, LookCancel,
              ReadReceipts, Resend, Reread, SpeedUp, SpeedUpCapped, SignCancel, CancelCapped, ReadMined,
              MarkMined, Resolve
<1>7. ~Network /\ ~Admin
  BY DEF Network, Mine, MineForeign, Finalize, Reorg, Evict, recordVars,
         Admin, RequestCancel, RetrySpeedUp, RaisePriceCap, ClearHold
<1>8. CASE Next
  BY <1>3, <1>4, <1>5, <1>6, <1>7, <1>8 DEF Next
<1> QED
  BY <1>8 DEF vars

\* What a leg that is reserved or confirmed shows.
LEMMA LegOutcome ==
    ASSUME LaneInv, NEW o \in Hooked, Reserve(o) \/ Confirm(o)
    PROVE  /\ leg'[o].nonce = leg[o].nonce
           /\ \/ leg[o].status = "none" /\ leg'[o].status = "pending"
              \/ /\ leg[o].status = "pending" /\ leg'[o].status = "confirmed"
                 /\ leg[o].nonce # 0 /\ Sound(leg[o].nonce)
<1>1. TypeOK /\ o \in Ops
  BY LaneAssumption DEF LaneInv
<1>2. leg'[o].nonce = leg[o].nonce
  BY <1>1, LegTypes
<1>3. CASE Reserve(o)
  BY <1>1, <1>2, <1>3, LegTypes DEF Reserve
<1>4. CASE Confirm(o)
  BY <1>1, <1>2, <1>4, LegTypes DEF Confirm, Pending, Receipt, Sound, Deep
<1> QED
  BY <1>3, <1>4

LEMMA LegsStep ==
    ASSUME LaneInv, TypeOK', [Next]_vars
    PROVE  LegsAreRight'
<1> SUFFICES ASSUME NEW o \in Hooked
             PROVE  LegIsRight(o)'
  BY DEF LegsAreRight
<1>0. /\ TypeOK /\ RowsAreWhole /\ Grows /\ LegIsRight(o) /\ o \in Ops /\ o # "none"
      /\ 0 \notin Nonces
  BY RowsStep, LaneAssumption DEF LaneInv, LegsAreRight, Nonces
<1>1. ASSUME NEW n \in Nonces
      PROVE  /\ Dead(n) => Dead(n)'
             /\ Sound(n) => Sound(n)'
             /\ alloc[n].call = o => alloc'[n].call = o
  BY <1>0, RowsStep, DeepStep, FateStays
     DEF LaneInv, Grows, RowGrows, RowsAreWhole, RowIsWhole
<1>2. leg[o] \in Leg /\ (leg[o].nonce # 0 => leg[o].nonce \in Nonces)
  BY <1>0, LaneAssumption DEF TypeOK, Leg, Nonces
<1>3. ASSUME leg'[o].nonce = leg[o].nonce
      PROVE  \A n \in Nonces : alloc'[n].call = o => alloc[n].call = o
  <2> SUFFICES ASSUME NEW n \in Nonces, alloc'[n].call = o, alloc[n].call # o
               PROVE  FALSE
    OBVIOUS
  <2>1. Hook(o, n)
    BY <1>0, NewCall
  <2>2. leg[o] = [status |-> "pending", nonce |-> 0] /\ leg'[o] = [status |-> "pending", nonce |-> n]
    BY <1>0, <2>1, HookTypes, o \in Hooked
  <2> QED
    BY <1>0, <1>3, <2>2
\* A leg that names the nonce it named.
<1>4. ASSUME leg'[o].nonce = leg[o].nonce,
             leg'[o].status = "none" => leg[o].nonce = 0,
             leg'[o].status = "failed" => leg[o].nonce = 0 \/ Dead(leg[o].nonce),
             leg'[o].status = "confirmed" => leg[o].nonce # 0 /\ Sound(leg[o].nonce)
      PROVE  LegIsRight(o)'
  <2>1. \A n \in Nonces : alloc'[n].call = o => leg'[o].nonce = n
    BY <1>0, <1>3, <1>4 DEF LegIsRight
  <2>2. PICK n \in Nonces \cup {0} : n = leg[o].nonce
    BY <1>2
  <2>3. /\ n # 0 => alloc'[n].call = o
        /\ leg'[o].status = "failed" => n = 0 \/ Dead(n)'
        /\ leg'[o].status = "confirmed" => n # 0 /\ Sound(n)'
    BY <1>0, <1>1, <1>4, <2>2 DEF LegIsRight
  <2>4. leg'[o].nonce = n
    BY <1>4, <2>2
  <2>5. /\ leg'[o].nonce # 0 => alloc'[leg'[o].nonce].call = o
        /\ leg'[o].status = "none" => leg'[o].nonce = 0
    BY <1>4, <2>2, <2>3, <2>4
  <2>6. leg'[o].status = "failed" => leg'[o].nonce = 0 \/ Dead(leg[o].nonce)'
    BY <2>3, <2>4 DEF Dead, Deep, OwnSignings, Own
  <2>7. leg'[o].status = "confirmed" => leg'[o].nonce # 0 /\ Sound(leg[o].nonce)'
    BY <2>3, <2>4 DEF Sound, Deep, OwnSignings, Own
  <2> QED
    BY <2>1, <2>5, <2>6, <2>7 DEF LegIsRight
<1>5. CASE leg'[o] = leg[o]
  BY <1>0, <1>4, <1>5 DEF LegIsRight
<1>6. ASSUME NEW n \in Nonces, leg[o] = [status |-> "pending", nonce |-> 0],
             leg'[o] = [status |-> "pending", nonce |-> n], alloc'[n].call = o,
             \A m \in Nonces \ {n} : alloc'[m] = alloc[m]
      PROVE  LegIsRight(o)'
  <2>1. \A m \in Nonces : alloc'[m].call = o => m = n
    BY <1>0, <1>6 DEF LegIsRight
  <2> QED
    BY <1>6, <2>1 DEF LegIsRight
<1>7. ASSUME NEW n \in 0..MaxNonce, n = 0 \/ Dead(n),
             leg[o] = [status |-> "pending", nonce |-> n],
             leg'[o] = [status |-> "failed", nonce |-> n]
      PROVE  LegIsRight(o)'
  BY <1>4, <1>7
<1>8. CASE Reserve(o) \/ Confirm(o)
  <2>1. /\ leg'[o].nonce = leg[o].nonce
        /\ \/ leg'[o].status = "pending"
           \/ leg'[o].status = "confirmed" /\ leg[o].nonce # 0 /\ Sound(leg[o].nonce)
    BY <1>8, LegOutcome
  <2> QED
    BY <1>4, <2>1
<1> QED
  BY <1>5, <1>6, <1>7, <1>8, LegChange

LEMMA AttemptStep ==
    ASSUME LaneInv, [Next]_vars
    PROVE  OneAttempt'
<1> SUFFICES ASSUME NEW o \in Hooked, NEW p \in Hooked, o # p, Payment[o] = Payment[p]
             PROVE  leg'[o].status \in {"none", "failed"} \/ leg'[p].status \in {"none", "failed"}
  BY DEF OneAttempt
<1>0. /\ TypeOK /\ o \in Ops /\ p \in Ops
      /\ leg[o].status \in {"none", "failed"} \/ leg[p].status \in {"none", "failed"}
  BY LaneAssumption DEF LaneInv, OneAttempt
<1>1. ASSUME NEW q \in Hooked, leg[q].status \in {"none", "failed"}, ~Reserve(q)
      PROVE  leg'[q].status \in {"none", "failed"}
  <2>1. CASE leg'[q] = leg[q]
    BY <1>1, <2>1
  <2>2. CASE leg'[q] # leg[q]
    <3>1. ~Confirm(q)
      BY <1>1 DEF Confirm, Pending
    <3>2. PICK n : leg[q] = [status |-> "pending", nonce |-> n]
      BY <1>1, <2>2, <3>1, LegChange
    <3>3. leg[q].status = "pending"
      BY <3>2
    <3> QED
      BY <1>1, <3>3
  <2> QED
    BY <2>1, <2>2
<1>2. ASSUME NEW q \in Hooked, NEW r \in Hooked, q # r, Payment[q] = Payment[r], Reserve(q)
      PROVE  leg'[r].status \in {"none", "failed"}
  <2>1. leg[r].status \in {"none", "failed"}
    BY <1>2 DEF Reserve
  <2>2. leg'[r] = leg[r]
    BY <1>0, <1>2, LegTypes, LaneAssumption
  <2> QED
    BY <2>1, <2>2
<1> QED
  BY <1>0, <1>1, <1>2

LEMMA CleanStep ==
    ASSUME LaneInv, [Next]_vars
    PROVE  FreeIsClean'
<1> SUFFICES ASSUME NEW n \in Nonces, alloc'[n].status = "free", alloc'[n].cancel
             PROVE  FALSE
  BY DEF FreeIsClean
<1>1. Sending(n) \/ Committed(n) \/ Filled(n) \/ Settled(n)
  BY AllocStep DEF LaneInv
<1>2. ~Committed(n) /\ ~Filled(n)
  <2>1. ASSUME NEW o, NEW k, NEW b
        PROVE  alloc'[n] # Fresh(o, k, b)
    BY DEF Fresh
  <2> QED
    BY <2>1 DEF Committed, Filled
<1>3. ~Settled(n)
  BY DEF Settled
<1>4. alloc[n].status = "free" /\ alloc'[n] = alloc[n]
  BY <1>1, <1>2, <1>3 DEF Sending, SameRow
<1> QED
  BY <1>4 DEF LaneInv, FreeIsClean

-----------------------------------------------------------------------------
(* The theorems. *)

LEMMA LaneInit == Init => LaneInv
<1> SUFFICES ASSUME Init PROVE LaneInv
  OBVIOUS
<1>1. TypeOK
  BY TypeInit
<1>2. RowsAreWhole /\ FreeIsClean
  BY DEF Init, RowsAreWhole, RowIsWhole, FreeIsClean, Free
<1>3. OnlyRecordedLeaves
  BY DEF Init, OnlyRecordedLeaves
<1>4. ThreadsAreRight
  BY DEF Init, ThreadsAreRight, ThreadIsRight, At, Idle
<1>5. LegsAreRight
  BY LaneAssumption DEF Init, LegsAreRight, LegIsRight, Free
<1>6. OneAttempt
  BY LaneAssumption DEF Init, OneAttempt
<1>7. CancelIsFinal /\ GiveUpIsFinal
  BY DEF Init, CancelIsFinal, GiveUpIsFinal, Free
<1> QED
  BY <1>1, <1>2, <1>3, <1>4, <1>5, <1>6, <1>7 DEF LaneInv

LEMMA LaneStep == LaneInv /\ [Next]_vars => LaneInv'
<1> SUFFICES ASSUME LaneInv, [Next]_vars PROVE LaneInv'
  OBVIOUS
<1>1. TypeOK'
  BY TypeStep DEF LaneInv
<1>2. RowsAreWhole' /\ FreeIsClean'
  BY RowsStep, CleanStep DEF LaneInv
<1>3. OnlyRecordedLeaves' /\ ThreadsAreRight'
  BY <1>1, LeavesStep, ThreadsStep
<1>4. LegsAreRight' /\ OneAttempt'
  BY <1>1, LegsStep, AttemptStep
<1>5. CancelIsFinal' /\ GiveUpIsFinal'
  BY <1>1, CancelStep, GiveUpStep
<1> QED
  BY <1>1, <1>2, <1>3, <1>4, <1>5 DEF LaneInv

LEMMA LaneInvariant == Spec => []LaneInv
  BY LaneInit, LaneStep, PTL DEF Spec

\* Every variable of the lane keeps its type: a nonce, a signing and a hold stay
\* within their bounds, whatever threads interleave.
THEOREM TypeCorrect == Spec => []TypeOK
<1>1. LaneInv => TypeOK
  BY DEF LaneInv
<1> QED
  BY <1>1, LaneInvariant, PTL

\* What a call has paid it paid at the nonce its leg names, and not if the leg
\* was failed.
LEMMA PaidIsNamed ==
    ASSUME LaneInv, NEW o \in Hooked, NEW n \in Paid(o)
    PROVE  /\ n = leg[o].nonce /\ n # 0
           /\ leg[o].status \notin {"none", "failed"}
<1>1. n \in DOMAIN chain /\ alloc[n].call = o /\ chain[n].tx \in OwnSignings(n) /\ chain[n].ok
  BY DEF Paid
<1>2. chain \in Seq(Block) /\ Len(chain) <= MaxNonce
  BY DEF LaneInv, TypeOK
<1>3. n \in Nonces /\ n # 0
  BY <1>1, <1>2, LaneAssumption DEF Nonces
<1>4. LegIsRight(o)
  BY DEF LaneInv, LegsAreRight
<1>5. n = leg[o].nonce
  BY <1>1, <1>3, <1>4 DEF LegIsRight
<1>6. ~Dead(n)
  BY <1>1 DEF Dead
<1> QED
  BY <1>3, <1>4, <1>5, <1>6 DEF LegIsRight

\* The chain never carries out two attempts at one payment, nor one attempt
\* twice: the lane's nonces, the legs and the give-ups together (sendCore,
\* giveUp, FailExpected).
THEOREM PaidAtMostOnce == Spec => []PaidOnce
<1>1. LaneInv => PaidOnce
  <2> SUFFICES ASSUME LaneInv, NEW o \in Hooked, NEW p \in Hooked, Payment[o] = Payment[p],
                      NEW n \in Paid(o), NEW m \in Paid(p)
               PROVE  n = m
    BY DEF PaidOnce
  <2>1. /\ n = leg[o].nonce /\ leg[o].status \notin {"none", "failed"}
        /\ m = leg[p].nonce /\ leg[p].status \notin {"none", "failed"}
    BY PaidIsNamed
  <2>2. o = p
    BY <2>1 DEF LaneInv, OneAttempt
  <2> QED
    BY <2>1, <2>2
<1> QED
  BY <1>1, LaneInvariant, PTL

\* A leg is failed only for a call that was never carried out, and confirmed
\* only for one that was (failLeg, FailExpected, settleSale).
THEOREM LegsTrue == Spec => []LegTellsTheTruth
<1>1. LaneInv => LegTellsTheTruth
  <2> SUFFICES ASSUME LaneInv, NEW o \in Hooked
               PROVE  /\ leg[o].status = "failed" => Paid(o) = {}
                      /\ leg[o].status = "confirmed" => Paid(o) # {}
    BY DEF LegTellsTheTruth
  <2>1. ASSUME leg[o].status = "failed" PROVE Paid(o) = {}
    BY <2>1, PaidIsNamed
  <2>2. ASSUME leg[o].status = "confirmed" PROVE Paid(o) # {}
    <3>1. LegIsRight(o)
      BY DEF LaneInv, LegsAreRight
    <3>2. PICK n : n = leg[o].nonce
      OBVIOUS
    <3>3. alloc[n].call = o /\ Sound(n)
      BY <2>2, <3>1, <3>2 DEF LegIsRight
    <3>4. n \in Paid(o)
      BY <3>3 DEF Sound, Deep, Paid
    <3> QED
      BY <3>4
  <2> QED
    BY <2>1, <2>2
<1> QED
  BY <1>1, LaneInvariant, PTL

\* A nonce is recorded as cancelled only when its cancel is mined too deep for
\* the chain to drop it (resolveCancels).
THEOREM CancelFinal == Spec => []CancelIsFinal
<1>1. LaneInv => CancelIsFinal
  BY DEF LaneInv
<1> QED
  BY <1>1, LaneInvariant, PTL

\* A give-up outlives the attempts that began before it: none of them is given
\* a nonce (RetireOp against sendCore's transaction).
THEOREM GiveUpFinal == Spec => []GiveUpIsFinal
<1>1. LaneInv => GiveUpIsFinal
  BY DEF LaneInv
<1> QED
  BY <1>1, LaneInvariant, PTL

\* While a nonce is being cancelled, only cancels are signed at it.
LEMMA OnlyCancels ==
    ASSUME LaneInv, [Next]_vars, NEW n \in Nonces, alloc[n].cancel,
           NEW i \in DOMAIN txs'[n], i > Len(txs[n])
    PROVE  txs'[n][i].cancel
<1>0. /\ TypeOK /\ RowsAreWhole /\ alloc[n].status # "free"
      /\ Senders \subseteq Threads /\ Keepers \subseteq Threads
  BY DEF LaneInv, FreeIsClean, Threads
<1>1. Len(txs[n]) \in Nat /\ DOMAIN txs[n] = 1..Len(txs[n]) /\ txs[n] \in Seq(Signing)
  BY <1>0, RowTypes
<1>2. ASSUME txs'[n] = txs[n] \/ Relabelled(n)
      PROVE  FALSE
  <2>1. Len(txs'[n]) = Len(txs[n]) /\ txs'[n] \in Seq(Signing)
    BY <1>1, <1>2 DEF Relabelled
  <2> QED
    BY <1>1, <2>1
<1>3. ASSUME NEW t \in Senders, Commit(t)
      PROVE  FALSE
  <2>1. PICK m \in Nonces : /\ alloc[m].status = "free"
                            /\ \A k \in Nonces \ {m} : txs'[k] = txs[k]
    BY <1>0, <1>3, CommitEffects
  <2> QED
    BY <1>0, <1>2, <2>1
<1>4. ASSUME NEW t \in Keepers, FillHole(t)
      PROVE  FALSE
  <2>0. t \in Threads
    BY <1>0
  <2>1. PICK m \in Nonces : m = thread[t].n
    BY <1>0, <1>4, <2>0, FillEffects
  <2>2. alloc[m].status = "free" /\ \A k \in Nonces \ {m} : txs'[k] = txs[k]
    BY <1>0, <1>4, <2>0, <2>1, FillEffects
  <2> QED
    BY <1>0, <1>2, <2>2
<1>5. ASSUME NEW t \in Threads, Record(t)
      PROVE  FALSE
  BY <1>0, <1>2, <1>5, RecordSteps
<1>6. ASSUME NEW t \in Keepers, MarkMined(t)
      PROVE  FALSE
  BY <1>0, <1>2, <1>6, MarkEffects
<1>7. ASSUME NEW t \in Keepers, SpeedUp(t) \/ SignCancel(t)
      PROVE  txs'[n][i].cancel
  <2>1. PICK m \in Nonces : m = thread[t].n
    BY <1>0, <1>7, ThreadFields DEF SpeedUp, SignCancel, At
  <2>2. PICK c \in BOOLEAN : /\ Len(txs[m]) < MaxSignings /\ txs' = Signs(m, c)
                             /\ c = FALSE => ~alloc[m].cancel
    BY <1>7, <2>1 DEF SpeedUp, SignCancel
  <2>3. m = n
    BY <1>0, <1>2, <2>2, SignsType
  <2>4. c = TRUE
    BY <2>2, <2>3
  <2>5. /\ Len(txs'[n]) = Len(txs[n]) + 1 /\ txs' \in [Nonces -> Seq(Signing)]
        /\ txs'[n][Len(txs[n]) + 1] = [cancel |-> TRUE, status |-> "signed"]
    BY <1>0, <2>2, <2>3, <2>4, SignsType
  <2>6. i = Len(txs[n]) + 1
    BY <1>1, <2>5
  <2> QED
    BY <2>5, <2>6
<1>8. txs' # txs
  BY <1>2
<1>9. ~Network /\ ~(\E o \in Ops : Reserve(o) \/ Confirm(o))
  BY <1>8 DEF Network, Mine, MineForeign, Finalize, Reorg, Evict, recordVars, Reserve, Confirm
<1>10. ~Admin
  BY <1>8 DEF Admin, RequestCancel, RetrySpeedUp, RaisePriceCap, ClearHold
<1>11. ASSUME NEW t \in Keepers, Upkeep(t) \/ Caller(t)
       PROVE  txs'[n][i].cancel
  BY <1>6, <1>7, <1>8, <1>11
     DEF Upkeep, recordVars, Look, HoldHole, LookCancel, ReadReceipts, Resend, Reread, SpeedUpCapped,
         CancelCapped, ReadMined, Resolve, Caller, RecoverHashless, FollowCancelled,
         FollowReverted, FailFreed, GiveUp, FailGiven
<1>15. \A t \in Keepers : ~Filler(t)
  BY <1>0, <1>4, <1>8, FillerRows
<1>12. \A t \in Senders : ~Sender(t)
  BY <1>3, <1>8 DEF Sender, Begin, Refuse, NotSent, recordVars
<1>13. \A t \in Threads : ~Broadcast(t) /\ ~Record(t) /\ ~PutHold(t) /\ ~Abandon(t)
  BY <1>5, <1>8 DEF Broadcast, PutHold, Abandon, recordVars
<1>14. CASE Next
  BY <1>9, <1>10, <1>11, <1>12, <1>13, <1>14, <1>15 DEF Next
<1> QED
  BY <1>8, <1>14 DEF vars

\* A settled nonce stays as it was settled, a nonce never changes hands, and
\* what is being cancelled is never sent on as the call (Save's version check,
\* reviewGap, speedUp, reviewCancel).
THEOREM SettledNeverMoves == Spec => SettledStays
<1> DEFINE A(n) ==
      /\ alloc[n].status \in {"mined", "cancelled"} => alloc'[n].status = alloc[n].status
      /\ n \in Used => alloc'[n].call = alloc[n].call
      /\ alloc[n].cancel =>
           /\ alloc'[n].cancel
           /\ \A i \in DOMAIN txs'[n] : i > Len(txs[n]) => Own(n, i)' = (alloc[n].call = "fill")
<1>1. ASSUME LaneInv, [Next]_vars, NEW n \in Nonces
      PROVE  A(n)
  <2>1. Sending(n) \/ Committed(n) \/ Filled(n) \/ Settled(n)
    BY <1>1, AllocStep DEF LaneInv
  <2>2. alloc[n].status # "free" => Sending(n) \/ Settled(n)
    BY <2>1 DEF Committed, Filled
  <2>3. alloc[n].status \in {"mined", "cancelled"} => alloc'[n].status = alloc[n].status
    BY <2>2 DEF Sending, SameRow, Settled, Live
  <2>4. alloc[n].status # "free" => alloc'[n].call = alloc[n].call
    BY <2>2 DEF Sending, SameRow, Settled
  <2>5. ASSUME alloc[n].cancel
        PROVE  /\ alloc'[n].cancel
               /\ \A i \in DOMAIN txs'[n] : i > Len(txs[n]) =>
                     Own(n, i)' = (alloc[n].call = "fill")
    <3>1. alloc[n].status # "free"
      BY <1>1, <2>5 DEF LaneInv, FreeIsClean
    <3>2. alloc'[n].cancel
      BY <2>2, <2>5, <3>1 DEF Sending, Settled
    <3>3. \A i \in DOMAIN txs'[n] : i > Len(txs[n]) => txs'[n][i].cancel
      BY <1>1, <2>5, OnlyCancels
    <3>4. \A i \in DOMAIN txs'[n] : i > Len(txs[n]) =>
             Own(n, i)' = (alloc[n].call = "fill")
      BY <2>4, <3>1, <3>3 DEF Own
    <3> QED
      BY <3>2, <3>4
  <2> QED
    BY <2>3, <2>4, <2>5 DEF Used
<1>2. LaneInv /\ [Next]_vars => [\A n \in Nonces : A(n)]_vars
  BY <1>1
<1> QED
  BY <1>2, LaneInvariant, PTL DEF Spec, SettledStays
=============================================================================
