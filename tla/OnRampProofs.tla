---------------------------- MODULE OnRampProofs ----------------------------
(***************************************************************************)
(* The safety properties of the on-ramp, for any number of deposits,       *)
(* workers, retries and faults of every kind.                              *)
(***************************************************************************)
EXTENDS OnRamp, TLAPS

(* A worker that is not idle has a delivery. *)
JobOK == \A w \in Worker : pc[w] # "idle" => job[w] \in Swap

(* A claimed row is "processing"; it can be "completed" only under a handler *)
(* whose completing write was committed and reported as an error.            *)
HolderStatus ==
    \A w \in Worker : pc[w] \in Claiming =>
        \/ status[job[w]] = "processing"
        \/ pc[w] = "release" /\ status[job[w]] = "completed" /\ <<"db", "late">> \in Faults

(* A USDC deposit past its conversion has its xlmAmount. *)
Converted ==
    /\ \A w \in Worker : /\ pc[w] = "swap" => job[w] \in Usdc /\ job[w] \notin xlmRecorded
                         /\ pc[w] = "persist" => job[w] \in Usdc /\ job[w] \notin xlmRecorded
                         /\ pc[w] \in {"create", "invoke"} => job[w] \in xlmRecorded
    /\ \A s \in Swap : IF status[s] = "none" THEN s \notin xlmRecorded
                       ELSE s \notin Usdc => s \in xlmRecorded

(* The row a handler works on is counted, and only claim holders have one. *)
RowInv ==
    \A w \in Worker : row[w] # "none" => pc[w] \in Claiming /\ (row[w] = "completed" => booked[job[w]] >= 1)

(* What the attempt's row says at each step of the mint. *)
RowAtStep ==
    \A w \in Worker :
        /\ pc[w] \in {"load", "swap", "persist", "create"} => row[w] = "none"
        /\ pc[w] \in {"invoke", "record"} => row[w] = "pending"
        /\ pc[w] \in {"compensate", "recordAgain", "markFailed"} => row[w] # "none"
        /\ pc[w] = "complete" => row[w] = "completed"

(* A mint the handler has not recorded yet is not among the completed rows. *)
Unrecorded ==
    \A w \in Worker : pc[w] \in {"record", "compensate", "recordAgain"} /\ row[w] # "completed"
                        => booked[job[w]] + 1 <= mints[job[w]]

(* Without the faults that destroy a record, no record is lost. *)
NoLoss ==
    /\ FaultFree({"db", "process"}) /\ NoLateChain =>
          \A s \in Swap : lostMints[s] = 0 /\ lostSwaps[s] = 0
    /\ \A s \in Swap \ Usdc : swaps[s] = 0

IInv == /\ TypeOK /\ JobOK /\ HolderStatus /\ ClaimExclusion /\ Converted
        /\ RowInv /\ RowAtStep /\ Unrecorded
        /\ MintAfterSwap /\ MintAccounting /\ SwapAccounting /\ RowsBacked /\ NoLoss

-----------------------------------------------------------------------------
USE ConstantsAssumption

LEMMA InitInv == Init => IInv
  <1> SUFFICES ASSUME Init PROVE IInv
    OBVIOUS
  <1>1. TypeOK
    BY DEF Init, TypeOK, Statuses, Steps, RowStatus
  <1>2. JobOK /\ HolderStatus /\ ClaimExclusion /\ Converted /\ RowInv /\ RowAtStep /\ Unrecorded
    BY DEF Init, JobOK, HolderStatus, ClaimExclusion, Converted, RowInv, RowAtStep, Unrecorded,
           Claiming, Minting
  <1>3. MintAfterSwap /\ MintAccounting /\ SwapAccounting /\ RowsBacked /\ NoLoss
    BY DEF Init, MintAfterSwap, MintAccounting, SwapAccounting, RowsBacked, NoLoss, One, Held,
           Holds, Minting
  <1> QED BY <1>1, <1>2, <1>3 DEF IInv

(* The part of the invariant that is about worker w and the row it works on. *)
Local(w) ==
    LET s == job[w]
    IN /\ s \in Swap
       /\ pc[w] \in Claiming =>
             \/ status[s] = "processing"
             \/ pc[w] = "release" /\ status[s] = "completed" /\ <<"db", "late">> \in Faults
       /\ pc[w] \in {"swap", "persist"} => s \in Usdc /\ s \notin xlmRecorded
       /\ pc[w] \in {"create", "invoke"} => s \in xlmRecorded
       /\ status[s] # "none"
       /\ s \notin Usdc => s \in xlmRecorded
       /\ row[w] # "none" => pc[w] \in Claiming
       /\ row[w] = "completed" => booked[s] >= 1
       /\ pc[w] \in {"load", "swap", "persist", "create"} => row[w] = "none"
       /\ pc[w] \in {"invoke", "record"} => row[w] = "pending"
       /\ pc[w] \in {"compensate", "recordAgain", "markFailed"} => row[w] # "none"
       /\ pc[w] = "complete" => row[w] = "completed"
       /\ pc[w] \in {"record", "compensate", "recordAgain"} /\ row[w] # "completed"
             => booked[s] + 1 <= mints[s]
       /\ s \in Usdc /\ mints[s] > 0 => s \in xlmRecorded /\ swaps[s] > 0
       /\ mints[s] = lostMints[s] + One(status[s] = "completed") + One(pc[w] \in Minting)
       /\ s \in Usdc => swaps[s] = lostSwaps[s] + One(s \in xlmRecorded) + One(pc[w] = "persist")
       /\ booked[s] <= mints[s]
       /\ status[s] = "completed" => booked[s] > 0
       /\ FaultFree({"db", "process"}) /\ NoLateChain => lostMints[s] = 0 /\ lostSwaps[s] = 0
       /\ s \notin Usdc => swaps[s] = 0

(* No other worker has claimed the row that w works on. *)
Alone(w) == \A v \in Worker : v # w /\ pc[v] \in Claiming => job[v] # job[w]

(* Only worker w and the row it works on change. *)
OnlyLocal(w) ==
    /\ UNCHANGED job
    /\ \A v \in Worker : v # w => pc'[v] = pc[v] /\ row'[v] = row[v]
    /\ \A t \in Swap : t # job[w] =>
          /\ status'[t] = status[t]
          /\ t \in xlmRecorded' <=> t \in xlmRecorded
          /\ booked'[t] = booked[t] /\ swaps'[t] = swaps[t] /\ mints'[t] = mints[t]
          /\ lostSwaps'[t] = lostSwaps[t] /\ lostMints'[t] = lostMints[t]

LEMMA AddFacts ==
  ASSUME NEW f \in [Swap -> Nat], NEW s \in Swap
  PROVE  /\ Add(f, s) \in [Swap -> Nat]
         /\ Add(f, s)[s] = f[s] + 1
         /\ \A t \in Swap : t # s => Add(f, s)[t] = f[t]
  BY DEF Add

LEMMA PutFacts ==
  ASSUME NEW f \in [Swap -> [0..MaxRetries -> Nat]], NEW s \in Swap, NEW r \in 0..MaxRetries
  PROVE  Put(f, s, r) \in [Swap -> [0..MaxRetries -> Nat]]
  BY DEF Put

LEMMA Stages == Minting \in SUBSET Claiming /\ {"persist"} \in SUBSET Claiming
  BY DEF Claiming

(* The row of a worker that is alone on it is at a step exactly when the worker is. *)
LEMMA HeldAlone ==
  ASSUME NEW w \in Worker, Alone(w), NEW M \in SUBSET Claiming
  PROVE  Held(job[w], M) <=> pc[w] \in M
  BY DEF Alone, Held, Holds

LEMMA ClaimantAlone ==
  ASSUME IInv, NEW w \in Worker, pc[w] \in Claiming
  PROVE  Alone(w) /\ job[w] \in Swap /\ status[job[w]] # "none"
  BY DEF IInv, JobOK, HolderStatus, ClaimExclusion, Alone, Claiming, Minting

LEMMA LocalBefore ==
  ASSUME IInv, NEW w \in Worker, Alone(w), job[w] \in Swap, status[job[w]] # "none"
  PROVE  Local(w)
  <1>1. job[w] \in Swap
    OBVIOUS
  <1>2. Held(job[w], Minting) <=> pc[w] \in Minting
    BY HeldAlone, Stages
  <1>3. Held(job[w], {"persist"}) <=> pc[w] = "persist"
    BY HeldAlone, Stages
  <1>4. /\ mints[job[w]] = lostMints[job[w]] + One(status[job[w]] = "completed")
                             + One(pc[w] \in Minting)
        /\ job[w] \in Usdc =>
             swaps[job[w]] = lostSwaps[job[w]] + One(job[w] \in xlmRecorded) + One(pc[w] = "persist")
    BY <1>1, <1>2, <1>3 DEF IInv, MintAccounting, SwapAccounting, One
  <1>5. status[job[w]] # "none" /\ (job[w] \notin Usdc => job[w] \in xlmRecorded)
    BY <1>1 DEF IInv, HolderStatus, Converted
  <1> QED
    BY <1>1, <1>4, <1>5 DEF Local, IInv, HolderStatus, Converted, RowInv, RowAtStep, Unrecorded,
                       MintAfterSwap, RowsBacked, NoLoss

(* The invariant survives a local step that keeps its local part. *)
LEMMA LocalAfter ==
  ASSUME IInv, TypeOK', NEW w \in Worker, Alone(w), OnlyLocal(w), Local(w)'
  PROVE  IInv'
  <1> DEFINE s == job[w]
  <1>a. \A v \in Worker : v # w /\ pc[v] \in Claiming => job[v] # s
    BY DEF Alone
  <1>b. \A v \in Worker : v # w => pc'[v] = pc[v] /\ row'[v] = row[v] /\ job'[v] = job[v]
    BY DEF OnlyLocal
  <1>c. job'[w] = s /\ s \in Swap
    BY DEF OnlyLocal, Local
  <1>1. JobOK'
    BY <1>b, <1>c DEF IInv, JobOK
  <1>2. ClaimExclusion'
    BY <1>a, <1>b, <1>c DEF IInv, ClaimExclusion
  <1>3. HolderStatus'
    BY <1>1, <1>a, <1>b, <1>c DEF IInv, JobOK, HolderStatus, OnlyLocal, Local, Claiming, Minting
  <1>4. Converted'
    <2>1. \A v \in Worker : /\ pc'[v] = "swap" => job'[v] \in Usdc /\ job'[v] \notin xlmRecorded'
                            /\ pc'[v] = "persist" => job'[v] \in Usdc /\ job'[v] \notin xlmRecorded'
                            /\ pc'[v] \in {"create", "invoke"} => job'[v] \in xlmRecorded'
      BY <1>a, <1>b, <1>c DEF IInv, JobOK, Converted, OnlyLocal, Local, Claiming
    <2>2. \A t \in Swap : IF status'[t] = "none" THEN t \notin xlmRecorded'
                          ELSE t \notin Usdc => t \in xlmRecorded'
      BY <1>c DEF IInv, Converted, OnlyLocal, Local
    <2> QED BY <2>1, <2>2 DEF Converted
  <1>5. RowInv'
    BY <1>a, <1>b, <1>c DEF IInv, JobOK, RowInv, OnlyLocal, Local, Claiming, Minting
  <1>6. RowAtStep'
    BY <1>b, <1>c DEF IInv, RowAtStep, Local
  <1>7. Unrecorded'
    BY <1>a, <1>b, <1>c DEF IInv, JobOK, Unrecorded, OnlyLocal, Local, Claiming, Minting
  <1>8. MintAfterSwap' /\ RowsBacked' /\ NoLoss'
    BY <1>c DEF IInv, MintAfterSwap, RowsBacked, NoLoss, OnlyLocal, Local, FaultFree, NoLateChain
  <1>9. ASSUME NEW M \in SUBSET Claiming
        PROVE  /\ Held(s, M)' <=> pc'[w] \in M
               /\ \A t \in Swap : t # s => (Held(t, M)' <=> Held(t, M))
    BY <1>a, <1>b, <1>c DEF Held, Holds
  <1>10. MintAccounting'
    <2> SUFFICES ASSUME NEW t \in Swap
                 PROVE  mints'[t] = lostMints'[t] + One(status'[t] = "completed")
                                      + One(Held(t, Minting)')
      BY DEF MintAccounting
    <2>1. CASE t = s
      BY <2>1, <1>9, <1>c, Stages DEF Local, One
    <2>2. CASE t # s
      BY <2>2, <1>9, Stages DEF IInv, MintAccounting, OnlyLocal, One
    <2> QED BY <2>1, <2>2
  <1>11. SwapAccounting'
    <2> SUFFICES ASSUME NEW t \in Usdc
                 PROVE  swaps'[t] = lostSwaps'[t] + One(t \in xlmRecorded')
                                      + One(Held(t, {"persist"})')
      BY DEF SwapAccounting
    <2>1. CASE t = s
      BY <2>1, <1>9, <1>c, Stages DEF Local, One
    <2>2. CASE t # s
      BY <2>2, <1>9, Stages DEF IInv, SwapAccounting, OnlyLocal, One
    <2> QED BY <2>1, <2>2
  <1> QED BY <1>1, <1>2, <1>3, <1>4, <1>5, <1>6, <1>7, <1>8, <1>10, <1>11 DEF IInv

-----------------------------------------------------------------------------
(* Steps that touch neither the rows nor the chain nor a claim holder. *)

LEMMA QuietInv ==
  ASSUME IInv, TypeOK', JobOK',
         UNCHANGED <<status, xlmRecorded, row, booked, chainVars, lostVars>>,
         \A w \in Worker : pc[w] \in Claiming \/ pc'[w] \in Claiming
                            => pc'[w] = pc[w] /\ job'[w] = job[w]
  PROVE  IInv'
  <1> USE DEF chainVars, lostVars
  <1>1. HolderStatus' /\ ClaimExclusion' /\ RowInv'
    BY DEF IInv, HolderStatus, ClaimExclusion, RowInv
  <1>2. Converted' /\ RowAtStep' /\ Unrecorded'
    BY DEF IInv, Converted, RowAtStep, Unrecorded, Claiming, Minting
  <1>3. MintAfterSwap' /\ RowsBacked' /\ NoLoss'
    BY DEF IInv, MintAfterSwap, RowsBacked, NoLoss
  <1>4. ASSUME NEW M \in SUBSET Claiming
        PROVE  \A t \in Swap : Held(t, M)' <=> Held(t, M)
    BY DEF Held, Holds
  <1>5. MintAccounting'
    BY <1>4, Stages DEF IInv, MintAccounting, One
  <1>6. SwapAccounting'
    BY <1>4, Stages DEF IInv, SwapAccounting, One
  <1> QED BY <1>1, <1>2, <1>3, <1>5, <1>6 DEF IInv

(* The row is new: nobody has claimed it, and nothing happened for it. *)
LEMMA CreateInv == ASSUME IInv, NEW s \in Swap, Create(s) PROVE IInv'
  <1> USE DEF IInv, TypeOK, Create, queueVars, slotVars, chainVars, lostVars
  <1>1. TypeOK'
    BY DEF Statuses
  <1>2. JobOK' /\ ClaimExclusion' /\ RowInv' /\ RowAtStep' /\ Unrecorded'
    BY DEF JobOK, ClaimExclusion, RowInv, RowAtStep, Unrecorded
  <1>3. HolderStatus'
    BY DEF HolderStatus, JobOK, Claiming
  <1>4. Converted'
    BY DEF Converted
  <1>5. MintAfterSwap'
    BY DEF MintAfterSwap
  <1>6. MintAccounting'
    BY DEF MintAccounting, Held, Holds, One
  <1>7. SwapAccounting'
    BY DEF SwapAccounting, Held, Holds, One, Converted
  <1>8. RowsBacked' /\ NoLoss'
    BY DEF RowsBacked, NoLoss
  <1> QED BY <1>1, <1>2, <1>3, <1>4, <1>5, <1>6, <1>7, <1>8

LEMMA EnqueueInv == ASSUME IInv, NEW s \in Swap, NEW o \in Outcomes, Enqueue(s, o) PROVE IInv'
  <1> USE DEF Enqueue, slotVars
  <1>1. queued' \in [Swap -> [0..MaxRetries -> Nat]]
    <2>1. 0 \in 0..MaxRetries /\ queued \in [Swap -> [0..MaxRetries -> Nat]]
      BY ConstantsAssumption DEF IInv, TypeOK
    <2>2. Put(queued, s, 0) \in [Swap -> [0..MaxRetries -> Nat]]
      BY <2>1, PutFacts
    <2> QED BY <2>1, <2>2
  <1>2. faults' \in 0..MaxFaults
    BY DEF IInv, TypeOK, Answers, Fault
  <1>3. intake' \in [Swap -> {"none", "enqueue", "answered", "failed"}] /\ accepted' \subseteq Swap
    BY DEF IInv, TypeOK
  <1>4. TypeOK' /\ JobOK'
    BY <1>1, <1>2, <1>3 DEF IInv, TypeOK, JobOK, chainVars, lostVars
  <1> QED BY <1>4, QuietInv

LEMMA ReplayInv == ASSUME IInv, NEW s \in Swap, Replay(s) PROVE IInv'
  <1> USE DEF Replay, queueVars, slotVars
  <1>1. TypeOK' /\ JobOK'
    BY DEF IInv, TypeOK, JobOK, chainVars, lostVars
  <1> QED BY <1>1, QuietInv

LEMMA DeliverInv ==
  ASSUME IInv, NEW w \in Worker, NEW s \in Swap, NEW r \in 0..MaxRetries, Deliver(w, s, r)
  PROVE  IInv'
  <1> USE DEF Deliver, Goto, intakeVars
  <1>1. queued' \in [Swap -> [0..MaxRetries -> Nat]]
    <2>1. queued[s] \in [0..MaxRetries -> Nat] /\ queued[s][r] - 1 \in Nat
      BY DEF IInv, TypeOK
    <2>2. [queued[s] EXCEPT ![r] = @ - 1] \in [0..MaxRetries -> Nat]
      BY <2>1
    <2> QED BY <2>2 DEF IInv, TypeOK
  <1>2. job' \in [Worker -> Swap \cup {NoSwap}] /\ retries' \in [Worker -> 0..MaxRetries]
    BY DEF IInv, TypeOK
  <1>3. pc' \in [Worker -> Steps]
    BY DEF IInv, TypeOK, Steps
  <1>4. TypeOK'
    BY <1>1, <1>2, <1>3 DEF IInv, TypeOK, chainVars, lostVars
  <1>5. JobOK'
    BY DEF IInv, TypeOK, JobOK
  <1>6. \A v \in Worker : pc[v] \in Claiming \/ pc'[v] \in Claiming
                           => pc'[v] = pc[v] /\ job'[v] = job[v]
    BY DEF IInv, TypeOK, Claiming, Minting
  <1> QED BY <1>4, <1>5, <1>6, QuietInv

LEMMA AckInv == ASSUME IInv, NEW w \in Worker, Ack(w) PROVE IInv'
  <1> USE DEF Ack, Free, Goto, intakeVars, queueVars
  <1>1. job' \in [Worker -> Swap \cup {NoSwap}] /\ retries' \in [Worker -> 0..MaxRetries]
    BY DEF IInv, TypeOK
  <1>2. pc' \in [Worker -> Steps]
    BY DEF IInv, TypeOK, Steps
  <1>3. TypeOK'
    BY <1>1, <1>2 DEF IInv, TypeOK, chainVars, lostVars
  <1>4. JobOK'
    BY DEF IInv, TypeOK, JobOK
  <1>5. \A v \in Worker : pc[v] \in Claiming \/ pc'[v] \in Claiming
                           => pc'[v] = pc[v] /\ job'[v] = job[v]
    BY DEF IInv, TypeOK, Claiming, Minting
  <1> QED BY <1>3, <1>4, <1>5, QuietInv

LEMMA NackInv == ASSUME IInv, NEW w \in Worker, NEW o \in Outcomes, Nack(w, o) PROVE IInv'
  <1>1. job' \in [Worker -> Swap \cup {NoSwap}] /\ retries' \in [Worker -> 0..MaxRetries]
    BY DEF Nack, Free, IInv, TypeOK
  <1>2. pc' \in [Worker -> Steps]
    BY DEF Nack, Free, Goto, IInv, TypeOK, Steps
  <1>3. /\ queued' \in [Swap -> [0..MaxRetries -> Nat]]
        /\ dead' \in [Swap -> Nat]
        /\ faults' \in 0..MaxFaults
    <2> DEFINE s == job[w]
               r == retries[w]
    <2>1. /\ s \in Swap /\ r \in 0..MaxRetries
          /\ queued \in [Swap -> [0..MaxRetries -> Nat]]
          /\ dead \in [Swap -> Nat] /\ faults \in 0..MaxFaults
      BY DEF Nack, IInv, TypeOK, JobOK
    <2>2. CASE w \notin attached
      BY <2>1, <2>2 DEF Nack, queueVars
    <2>3. CASE w \in attached /\ r >= MaxRetries
      <3>1. dead' = Add(dead, s) /\ UNCHANGED <<queued, faults>>
        BY <2>1, <2>3 DEF Nack
      <3> QED BY <3>1, <2>1, AddFacts
    <2>4. CASE w \in attached /\ r < MaxRetries
      <3> DEFINE p == Put(queued, s, r + 1)
      <3>1. p \in [Swap -> [0..MaxRetries -> Nat]]
        <4>1. r + 1 \in 0..MaxRetries
          BY <2>1, <2>4, ConstantsAssumption
        <4> QED BY <2>1, <4>1, PutFacts
      <3>2. Put(p, s, r) \in [Swap -> [0..MaxRetries -> Nat]]
        BY <2>1, <3>1, PutFacts
      <3>3. queued' \in {queued, p, Put(p, s, r)} /\ UNCHANGED dead /\ Answers("broker", o)
        BY <2>1, <2>4 DEF Nack, Outcomes
      <3>4. faults' \in 0..MaxFaults
        BY <2>1, <3>3, ConstantsAssumption DEF Answers, Fault
      <3> QED BY <2>1, <3>1, <3>2, <3>3, <3>4
    <2> HIDE DEF s, r
    <2>5. r \in Nat /\ MaxRetries \in Nat
      BY <2>1, ConstantsAssumption
    <2> QED BY <2>2, <2>3, <2>4, <2>5
  <1>4. TypeOK'
    BY <1>1, <1>2, <1>3 DEF Nack, IInv, TypeOK, intakeVars, chainVars, lostVars
  <1>5. JobOK'
    BY DEF Nack, Free, Goto, IInv, TypeOK, JobOK
  <1>6. \A v \in Worker : pc[v] \in Claiming \/ pc'[v] \in Claiming
                           => pc'[v] = pc[v] /\ job'[v] = job[v]
    BY DEF Nack, Free, Goto, IInv, TypeOK, Claiming, Minting
  <1> QED BY <1>4, <1>5, <1>6, QuietInv DEF Nack

LEMMA RequeuedType ==
  ASSUME IInv, NEW w \in Worker
  PROVE  Requeued(w) \in [Swap -> [0..MaxRetries -> Nat]]
  BY PutFacts DEF Requeued, IInv, TypeOK, JobOK

LEMMA DetachInv == ASSUME IInv, NEW w \in Worker, Detach(w) PROVE IInv'
  <1> USE DEF Detach, intakeVars
  <1>1. TypeOK'
    <2>1. queued' \in [Swap -> [0..MaxRetries -> Nat]]
      BY RequeuedType
    <2>2. faults' \in 0..MaxFaults
      BY ConstantsAssumption DEF IInv, TypeOK, Fault
    <2> QED BY <2>1, <2>2 DEF IInv, TypeOK, chainVars, lostVars
  <1>2. JobOK'
    BY DEF IInv, JobOK
  <1> QED BY <1>1, <1>2, QuietInv

-----------------------------------------------------------------------------
(* Steps of a handler on the row it has claimed. *)

LEMMA AnswersType == ASSUME IInv, NEW k, NEW o, Answers(k, o) PROVE faults' \in 0..MaxFaults
  BY DEF Answers, Fault, IInv, TypeOK

LEMMA SetRowFacts ==
  ASSUME IInv, NEW w \in Worker, NEW t \in RowStatus, pc[w] \in Claiming, SetRow(w, t)
  PROVE  /\ row' \in [Worker -> RowStatus \cup {"none"}] /\ booked' \in [Swap -> Nat]
         /\ row'[w] = t /\ \A v \in Worker : v # w => row'[v] = row[v]
         /\ booked'[job[w]] = booked[job[w]] + One(t = "completed") - One(row[w] = "completed")
         /\ \A u \in Swap : u # job[w] => booked'[u] = booked[u]
  <1>1. job[w] \in Swap /\ booked \in [Swap -> Nat]
    BY ClaimantAlone DEF IInv, TypeOK
  <1>2. booked[job[w]] + One(t = "completed") - One(row[w] = "completed") \in Nat
    BY <1>1 DEF One, IInv, RowInv
  <1> QED BY <1>1, <1>2 DEF SetRow, IInv, TypeOK

LEMMA LoadInv ==
  ASSUME IInv, NEW w \in Worker, NEW o \in Outcomes, Load(w, o) PROVE IInv'
  <1> DEFINE s == job[w]
  <1>1. pc[w] = "load" /\ pc[w] \in Claiming
    BY DEF Load, Claiming, Minting
  <1>2. Alone(w) /\ s \in Swap /\ Local(w)
    BY <1>1, ClaimantAlone, LocalBefore
  <1>3. /\ pc' \in [Worker -> Steps] /\ \A v \in Worker : v # w => pc'[v] = pc[v]
        /\ job' = job /\ faults' \in 0..MaxFaults
    BY AnswersType DEF Load, AfterLoad, Goto, slotVars, IInv, TypeOK, Steps, Claiming, Minting
  <1>4. TypeOK'
    BY <1>1, <1>2, <1>3 DEF Load, IInv, TypeOK, intakeVars, queueVars, slotVars, chainVars, lostVars
  <1>5. OnlyLocal(w)
    BY <1>1, <1>2, <1>3 DEF Load, OnlyLocal, chainVars, lostVars
  <1>6. Local(w)'
    BY <1>1, <1>2, <1>3 DEF Load, AfterLoad, Local, Goto, Applied, Answers, Fault, Outcomes, One, IInv, TypeOK,
       FaultFree, NoLateChain, Claiming, Minting, chainVars, lostVars
  <1> QED BY <1>2, <1>4, <1>5, <1>6, LocalAfter

LEMMA SwapUsdcToXlmInv ==
  ASSUME IInv, NEW w \in Worker, NEW o \in Outcomes, SwapUsdcToXlm(w, o) PROVE IInv'
  <1> DEFINE s == job[w]
  <1>1. pc[w] = "swap" /\ pc[w] \in Claiming
    BY DEF SwapUsdcToXlm, Claiming, Minting
  <1>2. Alone(w) /\ s \in Swap /\ Local(w)
    BY <1>1, ClaimantAlone, LocalBefore
  <1>3. /\ pc' \in [Worker -> Steps] /\ \A v \in Worker : v # w => pc'[v] = pc[v]
        /\ job' = job /\ faults' \in 0..MaxFaults
    BY AnswersType DEF SwapUsdcToXlm, Goto, slotVars, IInv, TypeOK, Steps, Claiming, Minting
  <1>4. /\ swaps' \in [Swap -> Nat] /\ \A t \in Swap : t # s => swaps'[t] = swaps[t]
        /\ swaps'[s] = IF Applied(o) THEN swaps[s] + 1 ELSE swaps[s]
    BY <1>2 DEF SwapUsdcToXlm, Add, Applied, IInv, TypeOK
  <1>5. /\ lostSwaps' \in [Swap -> Nat] /\ \A t \in Swap : t # s => lostSwaps'[t] = lostSwaps[t]
        /\ lostSwaps'[s] = IF o = "late" THEN lostSwaps[s] + 1 ELSE lostSwaps[s]
    BY <1>2 DEF SwapUsdcToXlm, Add, Applied, IInv, TypeOK
  <1>6. TypeOK'
    BY <1>1, <1>2, <1>3, <1>4, <1>5 DEF SwapUsdcToXlm, IInv, TypeOK, intakeVars, queueVars, slotVars, chainVars, lostVars
  <1>7. OnlyLocal(w)
    BY <1>1, <1>2, <1>3, <1>4, <1>5 DEF SwapUsdcToXlm, OnlyLocal, chainVars, lostVars
  <1>8. Local(w)'
    <2> /\ mints[s] \in Nat /\ swaps[s] \in Nat /\ lostMints[s] \in Nat /\ lostSwaps[s] \in Nat
        /\ booked[s] \in Nat
      BY <1>2 DEF IInv, TypeOK
    <2>1. CASE o = "ok"
      <3>1. pc'[w] = "persist"
        BY <2>1 DEF SwapUsdcToXlm, Goto, IInv, TypeOK
      <3> QED
        BY <1>1, <1>2, <1>3, <1>4, <1>5, <2>1, <3>1 DEF SwapUsdcToXlm, Local, Applied, One, FaultFree, NoLateChain,
           Claiming, Minting, chainVars, lostVars
    <2>2. CASE o = "lost"
      <3>1. pc'[w] = "release"
        BY <2>2 DEF SwapUsdcToXlm, Goto, IInv, TypeOK
      <3>2. <<"chain", "lost">> \in Faults
        BY <2>2 DEF SwapUsdcToXlm, Answers, Fault
      <3> QED
        BY <1>1, <1>2, <1>3, <1>4, <1>5, <2>2, <3>1, <3>2 DEF SwapUsdcToXlm, Local, Applied, One, FaultFree, NoLateChain,
           Claiming, Minting, chainVars, lostVars
    <2>3. CASE o = "late"
      <3>1. pc'[w] = "release"
        BY <2>3 DEF SwapUsdcToXlm, Goto, IInv, TypeOK
      <3>2. <<"chain", "late">> \in Faults
        BY <2>3 DEF SwapUsdcToXlm, Answers, Fault
      <3> QED
        BY <1>1, <1>2, <1>3, <1>4, <1>5, <2>3, <3>1, <3>2 DEF SwapUsdcToXlm, Local, Applied, One, FaultFree, NoLateChain,
           Claiming, Minting, chainVars, lostVars
    <2> QED BY <2>1, <2>2, <2>3 DEF Outcomes
  <1> QED BY <1>2, <1>6, <1>7, <1>8, LocalAfter

LEMMA PersistInv ==
  ASSUME IInv, NEW w \in Worker, NEW o \in Outcomes, Persist(w, o) PROVE IInv'
  <1> DEFINE s == job[w]
  <1>1. pc[w] = "persist" /\ pc[w] \in Claiming
    BY DEF Persist, Claiming, Minting
  <1>2. Alone(w) /\ s \in Swap /\ Local(w)
    BY <1>1, ClaimantAlone, LocalBefore
  <1>3. /\ pc' \in [Worker -> Steps] /\ \A v \in Worker : v # w => pc'[v] = pc[v]
        /\ job' = job /\ faults' \in 0..MaxFaults
    BY AnswersType DEF Persist, Goto, slotVars, IInv, TypeOK, Steps, Claiming, Minting
  <1>4. xlmRecorded' = IF Applied(o) THEN xlmRecorded \cup {s} ELSE xlmRecorded
    BY DEF Persist
  <1>5. /\ lostSwaps' \in [Swap -> Nat] /\ \A t \in Swap : t # s => lostSwaps'[t] = lostSwaps[t]
        /\ lostSwaps'[s] = IF ~Applied(o) THEN lostSwaps[s] + 1 ELSE lostSwaps[s]
    BY <1>2 DEF Persist, Add, Applied, IInv, TypeOK
  <1>6. TypeOK'
    BY <1>1, <1>2, <1>3, <1>4, <1>5 DEF Persist, IInv, TypeOK, intakeVars, queueVars, slotVars, chainVars, lostVars
  <1>7. OnlyLocal(w)
    BY <1>1, <1>2, <1>3, <1>4, <1>5 DEF Persist, OnlyLocal, chainVars, lostVars
  <1>8. Local(w)'
    BY <1>1, <1>2, <1>3, <1>4, <1>5 DEF Persist, Local, Goto, Applied, Answers, Fault, Outcomes, One, IInv, TypeOK,
       FaultFree, NoLateChain, Claiming, Minting, chainVars, lostVars
  <1> QED BY <1>2, <1>6, <1>7, <1>8, LocalAfter

LEMMA CreateRowInv ==
  ASSUME IInv, NEW w \in Worker, NEW o \in Outcomes, CreateRow(w, o) PROVE IInv'
  <1> DEFINE s == job[w]
  <1>1. pc[w] = "create" /\ pc[w] \in Claiming
    BY DEF CreateRow, Claiming, Minting
  <1>2. Alone(w) /\ s \in Swap /\ Local(w)
    BY <1>1, ClaimantAlone, LocalBefore
  <1>3. /\ pc' \in [Worker -> Steps] /\ \A v \in Worker : v # w => pc'[v] = pc[v]
        /\ job' = job /\ faults' \in 0..MaxFaults
    BY AnswersType DEF CreateRow, Goto, slotVars, IInv, TypeOK, Steps, Claiming, Minting
  <1>4. /\ row' \in [Worker -> RowStatus \cup {"none"}] /\ booked' \in [Swap -> Nat]
        /\ row'[w] = IF Applied(o) THEN "pending" ELSE row[w]
        /\ \A v \in Worker : v # w => row'[v] = row[v]
        /\ booked'[s] = IF Applied(o) THEN booked[s] + One("pending" = "completed") - One(row[w] = "completed")
                        ELSE booked[s]
        /\ \A t \in Swap : t # s => booked'[t] = booked[t]
    <2>1. CASE Applied(o)
      <3>1. SetRow(w, "pending")
        BY <2>1 DEF CreateRow, RowAtCreate
      <3>2. "pending" \in RowStatus
        BY DEF RowStatus
      <3> QED BY <1>1, <2>1, <3>1, <3>2, SetRowFacts
    <2>2. CASE ~Applied(o)
      BY <2>2 DEF CreateRow, IInv, TypeOK
    <2> QED BY <2>1, <2>2
  <1>5. TypeOK'
    BY <1>1, <1>2, <1>3, <1>4 DEF CreateRow, IInv, TypeOK, intakeVars, queueVars, slotVars, chainVars, lostVars
  <1>6. OnlyLocal(w)
    BY <1>1, <1>2, <1>3, <1>4 DEF CreateRow, OnlyLocal, chainVars, lostVars
  <1>7. Local(w)'
    BY <1>1, <1>2, <1>3, <1>4 DEF CreateRow, RowAtCreate, Local, Goto, Applied, Answers, Fault, Outcomes, One, IInv, TypeOK,
       FaultFree, NoLateChain, Claiming, Minting, chainVars, lostVars
  <1> QED BY <1>2, <1>5, <1>6, <1>7, LocalAfter

LEMMA InvokeInv ==
  ASSUME IInv, NEW w \in Worker, NEW o \in Outcomes, Invoke(w, o) PROVE IInv'
  <1> DEFINE s == job[w]
  <1>1. pc[w] = "invoke" /\ pc[w] \in Claiming
    BY DEF Invoke, Claiming, Minting
  <1>2. Alone(w) /\ s \in Swap /\ Local(w)
    BY <1>1, ClaimantAlone, LocalBefore
  <1>3. /\ pc' \in [Worker -> Steps] /\ \A v \in Worker : v # w => pc'[v] = pc[v]
        /\ job' = job /\ faults' \in 0..MaxFaults
    BY AnswersType DEF Invoke, Goto, slotVars, IInv, TypeOK, Steps, Claiming, Minting
  <1>4. /\ mints' \in [Swap -> Nat] /\ \A t \in Swap : t # s => mints'[t] = mints[t]
        /\ mints'[s] = IF Applied(o) THEN mints[s] + 1 ELSE mints[s]
    BY <1>2 DEF Invoke, Add, Applied, IInv, TypeOK
  <1>5. /\ lostMints' \in [Swap -> Nat] /\ \A t \in Swap : t # s => lostMints'[t] = lostMints[t]
        /\ lostMints'[s] = IF o = "late" THEN lostMints[s] + 1 ELSE lostMints[s]
    BY <1>2 DEF Invoke, Add, Applied, IInv, TypeOK
  <1>6. TypeOK'
    BY <1>1, <1>2, <1>3, <1>4, <1>5 DEF Invoke, IInv, TypeOK, intakeVars, queueVars, slotVars, chainVars, lostVars
  <1>7. OnlyLocal(w)
    BY <1>1, <1>2, <1>3, <1>4, <1>5 DEF Invoke, OnlyLocal, chainVars, lostVars
  <1>8. Local(w)'
    <2> /\ mints[s] \in Nat /\ swaps[s] \in Nat /\ lostMints[s] \in Nat /\ lostSwaps[s] \in Nat
        /\ booked[s] \in Nat
      BY <1>2 DEF IInv, TypeOK
    <2>1. CASE o = "ok"
      <3>1. pc'[w] = "record"
        BY <2>1 DEF Invoke, Goto, IInv, TypeOK
      <3> QED
        BY <1>1, <1>2, <1>3, <1>4, <1>5, <2>1, <3>1 DEF Invoke, Local, Applied, One, FaultFree, NoLateChain,
           Claiming, Minting, chainVars, lostVars
    <2>2. CASE o = "lost"
      <3>1. pc'[w] = "markFailed"
        BY <2>2 DEF Invoke, Goto, IInv, TypeOK
      <3>2. <<"chain", "lost">> \in Faults
        BY <2>2 DEF Invoke, Answers, Fault
      <3> QED
        BY <1>1, <1>2, <1>3, <1>4, <1>5, <2>2, <3>1, <3>2 DEF Invoke, Local, Applied, One, FaultFree, NoLateChain,
           Claiming, Minting, chainVars, lostVars
    <2>3. CASE o = "late"
      <3>1. pc'[w] = "markFailed"
        BY <2>3 DEF Invoke, Goto, IInv, TypeOK
      <3>2. <<"chain", "late">> \in Faults
        BY <2>3 DEF Invoke, Answers, Fault
      <3> QED
        BY <1>1, <1>2, <1>3, <1>4, <1>5, <2>3, <3>1, <3>2 DEF Invoke, Local, Applied, One, FaultFree, NoLateChain,
           Claiming, Minting, chainVars, lostVars
    <2> QED BY <2>1, <2>2, <2>3 DEF Outcomes
  <1> QED BY <1>2, <1>6, <1>7, <1>8, LocalAfter

LEMMA RecordInv ==
  ASSUME IInv, NEW w \in Worker, NEW o \in Outcomes, Record(w, o) PROVE IInv'
  <1> DEFINE s == job[w]
  <1>1. pc[w] = "record" /\ pc[w] \in Claiming
    BY DEF Record, Claiming, Minting
  <1>2. Alone(w) /\ s \in Swap /\ Local(w)
    BY <1>1, ClaimantAlone, LocalBefore
  <1>3. /\ pc' \in [Worker -> Steps] /\ \A v \in Worker : v # w => pc'[v] = pc[v]
        /\ job' = job /\ faults' \in 0..MaxFaults
    BY AnswersType DEF Record, Goto, slotVars, IInv, TypeOK, Steps, Claiming, Minting
  <1>4. /\ row' \in [Worker -> RowStatus \cup {"none"}] /\ booked' \in [Swap -> Nat]
        /\ row'[w] = IF Applied(o) THEN "completed" ELSE row[w]
        /\ \A v \in Worker : v # w => row'[v] = row[v]
        /\ booked'[s] = IF Applied(o) THEN booked[s] + One("completed" = "completed") - One(row[w] = "completed")
                        ELSE booked[s]
        /\ \A t \in Swap : t # s => booked'[t] = booked[t]
    <2>1. CASE Applied(o)
      <3>1. SetRow(w, "completed")
        BY <2>1 DEF Record
      <3>2. "completed" \in RowStatus
        BY DEF RowStatus
      <3> QED BY <1>1, <2>1, <3>1, <3>2, SetRowFacts
    <2>2. CASE ~Applied(o)
      BY <2>2 DEF Record, IInv, TypeOK
    <2> QED BY <2>1, <2>2
  <1>5. TypeOK'
    BY <1>1, <1>2, <1>3, <1>4 DEF Record, IInv, TypeOK, intakeVars, queueVars, slotVars, chainVars, lostVars
  <1>6. OnlyLocal(w)
    BY <1>1, <1>2, <1>3, <1>4 DEF Record, OnlyLocal, chainVars, lostVars
  <1>7. Local(w)'
    BY <1>1, <1>2, <1>3, <1>4 DEF Record, Local, Goto, Applied, Answers, Fault, Outcomes, One, IInv, TypeOK,
       FaultFree, NoLateChain, Claiming, Minting, chainVars, lostVars
  <1> QED BY <1>2, <1>5, <1>6, <1>7, LocalAfter

LEMMA CompensateInv ==
  ASSUME IInv, NEW w \in Worker, NEW o \in Outcomes, Compensate(w, o) PROVE IInv'
  <1> DEFINE s == job[w]
  <1>1. pc[w] = "compensate" /\ pc[w] \in Claiming
    BY DEF Compensate, Claiming, Minting
  <1>2. Alone(w) /\ s \in Swap /\ Local(w)
    BY <1>1, ClaimantAlone, LocalBefore
  <1>3. /\ pc' \in [Worker -> Steps] /\ \A v \in Worker : v # w => pc'[v] = pc[v]
        /\ job' = job /\ faults' \in 0..MaxFaults
    BY AnswersType DEF Compensate, Goto, slotVars, IInv, TypeOK, Steps, Claiming, Minting
  <1>4. /\ burns' \in [Swap -> Nat] /\ \A t \in Swap : t # s => burns'[t] = burns[t]
        /\ burns'[s] = IF Applied(o) THEN burns[s] + 1 ELSE burns[s]
    BY <1>2 DEF Compensate, Add, Applied, IInv, TypeOK
  <1>5. TypeOK'
    BY <1>1, <1>2, <1>3, <1>4 DEF Compensate, IInv, TypeOK, intakeVars, queueVars, slotVars, chainVars, lostVars
  <1>6. OnlyLocal(w)
    BY <1>1, <1>2, <1>3, <1>4 DEF Compensate, OnlyLocal, chainVars, lostVars
  <1>7. Local(w)'
    BY <1>1, <1>2, <1>3, <1>4 DEF Compensate, Local, Goto, Applied, Answers, Fault, Outcomes, One, IInv, TypeOK,
       FaultFree, NoLateChain, Claiming, Minting, chainVars, lostVars
  <1> QED BY <1>2, <1>5, <1>6, <1>7, LocalAfter

LEMMA RecordAgainInv ==
  ASSUME IInv, NEW w \in Worker, NEW o \in Outcomes, RecordAgain(w, o) PROVE IInv'
  <1> DEFINE s == job[w]
  <1>1. pc[w] = "recordAgain" /\ pc[w] \in Claiming
    BY DEF RecordAgain, Claiming, Minting
  <1>2. Alone(w) /\ s \in Swap /\ Local(w)
    BY <1>1, ClaimantAlone, LocalBefore
  <1>3. /\ pc' \in [Worker -> Steps] /\ \A v \in Worker : v # w => pc'[v] = pc[v]
        /\ job' = job /\ faults' \in 0..MaxFaults
    BY AnswersType DEF RecordAgain, Goto, slotVars, IInv, TypeOK, Steps, Claiming, Minting
  <1>4. /\ row' \in [Worker -> RowStatus \cup {"none"}] /\ booked' \in [Swap -> Nat]
        /\ row'[w] = IF Applied(o) THEN "completed" ELSE row[w]
        /\ \A v \in Worker : v # w => row'[v] = row[v]
        /\ booked'[s] = IF Applied(o) THEN booked[s] + One("completed" = "completed") - One(row[w] = "completed")
                        ELSE booked[s]
        /\ \A t \in Swap : t # s => booked'[t] = booked[t]
    <2>1. CASE Applied(o)
      <3>1. SetRow(w, "completed")
        BY <2>1 DEF RecordAgain
      <3>2. "completed" \in RowStatus
        BY DEF RowStatus
      <3> QED BY <1>1, <2>1, <3>1, <3>2, SetRowFacts
    <2>2. CASE ~Applied(o)
      BY <2>2 DEF RecordAgain, IInv, TypeOK
    <2> QED BY <2>1, <2>2
  <1>5. /\ lostMints' \in [Swap -> Nat] /\ \A t \in Swap : t # s => lostMints'[t] = lostMints[t]
        /\ lostMints'[s] = IF o # "ok" THEN lostMints[s] + 1 ELSE lostMints[s]
    BY <1>2 DEF RecordAgain, Add, Applied, IInv, TypeOK
  <1>6. TypeOK'
    BY <1>1, <1>2, <1>3, <1>4, <1>5 DEF RecordAgain, IInv, TypeOK, intakeVars, queueVars, slotVars, chainVars, lostVars
  <1>7. OnlyLocal(w)
    BY <1>1, <1>2, <1>3, <1>4, <1>5 DEF RecordAgain, OnlyLocal, chainVars, lostVars
  <1>8. Local(w)'
    BY <1>1, <1>2, <1>3, <1>4, <1>5 DEF RecordAgain, Local, Goto, Applied, Answers, Fault, Outcomes, One, IInv, TypeOK,
       FaultFree, NoLateChain, Claiming, Minting, chainVars, lostVars
  <1> QED BY <1>2, <1>6, <1>7, <1>8, LocalAfter

LEMMA MarkFailedInv ==
  ASSUME IInv, NEW w \in Worker, NEW o \in Outcomes, MarkFailed(w, o) PROVE IInv'
  <1> DEFINE s == job[w]
  <1>1. pc[w] = "markFailed" /\ pc[w] \in Claiming
    BY DEF MarkFailed, Claiming, Minting
  <1>2. Alone(w) /\ s \in Swap /\ Local(w)
    BY <1>1, ClaimantAlone, LocalBefore
  <1>3. /\ pc' \in [Worker -> Steps] /\ \A v \in Worker : v # w => pc'[v] = pc[v]
        /\ job' = job /\ faults' \in 0..MaxFaults
    BY AnswersType DEF MarkFailed, Goto, slotVars, IInv, TypeOK, Steps, Claiming, Minting
  <1>4. /\ row' \in [Worker -> RowStatus \cup {"none"}] /\ booked' \in [Swap -> Nat]
        /\ row'[w] = IF Applied(o) THEN "failed" ELSE row[w]
        /\ \A v \in Worker : v # w => row'[v] = row[v]
        /\ booked'[s] = IF Applied(o) THEN booked[s] + One("failed" = "completed") - One(row[w] = "completed")
                        ELSE booked[s]
        /\ \A t \in Swap : t # s => booked'[t] = booked[t]
    <2>1. CASE Applied(o)
      <3>1. SetRow(w, "failed")
        BY <2>1 DEF MarkFailed
      <3>2. "failed" \in RowStatus
        BY DEF RowStatus
      <3> QED BY <1>1, <2>1, <3>1, <3>2, SetRowFacts
    <2>2. CASE ~Applied(o)
      BY <2>2 DEF MarkFailed, IInv, TypeOK
    <2> QED BY <2>1, <2>2
  <1>5. TypeOK'
    BY <1>1, <1>2, <1>3, <1>4 DEF MarkFailed, IInv, TypeOK, intakeVars, queueVars, slotVars, chainVars, lostVars
  <1>6. OnlyLocal(w)
    BY <1>1, <1>2, <1>3, <1>4 DEF MarkFailed, OnlyLocal, chainVars, lostVars
  <1>7. Local(w)'
    BY <1>1, <1>2, <1>3, <1>4 DEF MarkFailed, Local, Goto, Applied, Answers, Fault, Outcomes, One, IInv, TypeOK,
       FaultFree, NoLateChain, Claiming, Minting, chainVars, lostVars
  <1> QED BY <1>2, <1>5, <1>6, <1>7, LocalAfter

LEMMA CompleteInv ==
  ASSUME IInv, NEW w \in Worker, NEW o \in Outcomes, Complete(w, o) PROVE IInv'
  <1> DEFINE s == job[w]
  <1>1. pc[w] = "complete" /\ pc[w] \in Claiming
    BY DEF Complete, Claiming, Minting
  <1>2. Alone(w) /\ s \in Swap /\ Local(w)
    BY <1>1, ClaimantAlone, LocalBefore
  <1>3. /\ pc' \in [Worker -> Steps] /\ \A v \in Worker : v # w => pc'[v] = pc[v]
        /\ job' = job /\ faults' \in 0..MaxFaults
    BY AnswersType DEF Complete, Goto, slotVars, IInv, TypeOK, Steps, Claiming, Minting
  <1>4. /\ status' \in [Swap -> Statuses] /\ \A t \in Swap : t # s => status'[t] = status[t]
        /\ status'[s] = IF Applied(o) THEN "completed" ELSE status[s]
    BY <1>2 DEF Complete, IInv, TypeOK, Statuses
  <1>5. /\ lostMints' \in [Swap -> Nat] /\ \A t \in Swap : t # s => lostMints'[t] = lostMints[t]
        /\ lostMints'[s] = IF ~Applied(o) THEN lostMints[s] + 1 ELSE lostMints[s]
    BY <1>2 DEF Complete, Add, Applied, IInv, TypeOK
  <1>6. /\ row' \in [Worker -> RowStatus \cup {"none"}] /\ row'[w] = "none"
        /\ \A v \in Worker : v # w => row'[v] = row[v]
    BY DEF Complete, IInv, TypeOK
  <1>7. TypeOK'
    BY <1>1, <1>2, <1>3, <1>4, <1>5, <1>6 DEF Complete, IInv, TypeOK, intakeVars, queueVars, slotVars, chainVars, lostVars
  <1>8. OnlyLocal(w)
    BY <1>1, <1>2, <1>3, <1>4, <1>5, <1>6 DEF Complete, OnlyLocal, chainVars, lostVars
  <1>9. Local(w)'
    <2> /\ mints[s] \in Nat /\ swaps[s] \in Nat /\ lostMints[s] \in Nat /\ lostSwaps[s] \in Nat
        /\ booked[s] \in Nat
      BY <1>2 DEF IInv, TypeOK
    <2>1. CASE o = "ok"
      <3>1. pc'[w] = "ack"
        BY <2>1 DEF Complete, Goto, IInv, TypeOK
      <3> QED
        BY <1>1, <1>2, <1>3, <1>4, <1>5, <1>6, <2>1, <3>1 DEF Complete, Local, Applied, One, FaultFree, NoLateChain,
           Claiming, Minting, chainVars, lostVars
    <2>2. CASE o = "lost"
      <3>1. pc'[w] = "release"
        BY <2>2 DEF Complete, Goto, IInv, TypeOK
      <3>2. <<"db", "lost">> \in Faults
        BY <2>2 DEF Complete, Answers, Fault
      <3> QED
        BY <1>1, <1>2, <1>3, <1>4, <1>5, <1>6, <2>2, <3>1, <3>2 DEF Complete, Local, Applied, One, FaultFree, NoLateChain,
           Claiming, Minting, chainVars, lostVars
    <2>3. CASE o = "late"
      <3>1. pc'[w] = "release"
        BY <2>3 DEF Complete, Goto, IInv, TypeOK
      <3>2. <<"db", "late">> \in Faults
        BY <2>3 DEF Complete, Answers, Fault
      <3> QED
        BY <1>1, <1>2, <1>3, <1>4, <1>5, <1>6, <2>3, <3>1, <3>2 DEF Complete, Local, Applied, One, FaultFree, NoLateChain,
           Claiming, Minting, chainVars, lostVars
    <2> QED BY <2>1, <2>2, <2>3 DEF Outcomes
  <1> QED BY <1>2, <1>7, <1>8, <1>9, LocalAfter

LEMMA ReleaseInv ==
  ASSUME IInv, NEW w \in Worker, NEW o \in Outcomes, Release(w, o) PROVE IInv'
  <1> DEFINE s == job[w]
  <1>1. pc[w] = "release" /\ pc[w] \in Claiming
    BY DEF Release, Claiming, Minting
  <1>2. Alone(w) /\ s \in Swap /\ Local(w)
    BY <1>1, ClaimantAlone, LocalBefore
  <1>3. /\ pc' \in [Worker -> Steps] /\ \A v \in Worker : v # w => pc'[v] = pc[v]
        /\ job' = job /\ faults' \in 0..MaxFaults
    BY AnswersType DEF Release, Goto, slotVars, IInv, TypeOK, Steps, Claiming, Minting
  <1>4. /\ status' \in [Swap -> Statuses] /\ \A t \in Swap : t # s => status'[t] = status[t]
        /\ status'[s] = IF Applied(o) THEN ReleaseStatus(w) ELSE status[s]
    BY <1>2 DEF Release, ReleaseStatus, IInv, TypeOK, Statuses
  <1>5. /\ lostMints' \in [Swap -> Nat] /\ \A t \in Swap : t # s => lostMints'[t] = lostMints[t]
        /\ lostMints'[s] = IF Applied(o) /\ status[s] = "completed" THEN lostMints[s] + 1 ELSE lostMints[s]
    BY <1>2 DEF Release, Add, Applied, IInv, TypeOK
  <1>6. /\ row' \in [Worker -> RowStatus \cup {"none"}] /\ row'[w] = "none"
        /\ \A v \in Worker : v # w => row'[v] = row[v]
    BY DEF Release, IInv, TypeOK
  <1>7. TypeOK'
    BY <1>1, <1>2, <1>3, <1>4, <1>5, <1>6 DEF Release, IInv, TypeOK, intakeVars, queueVars, slotVars, chainVars, lostVars
  <1>8. OnlyLocal(w)
    BY <1>1, <1>2, <1>3, <1>4, <1>5, <1>6 DEF Release, OnlyLocal, chainVars, lostVars
  <1>9. Local(w)'
    BY <1>1, <1>2, <1>3, <1>4, <1>5, <1>6 DEF Release, ReleaseStatus, Local, Goto, Applied, Answers, Fault, Outcomes, One, IInv, TypeOK,
       FaultFree, NoLateChain, Claiming, Minting, chainVars, lostVars
  <1> QED BY <1>2, <1>7, <1>8, <1>9, LocalAfter

-----------------------------------------------------------------------------
(* The claim itself, and the crash that ends it. *)

LEMMA ClaimInv == ASSUME IInv, NEW w \in Worker, NEW o \in Outcomes, Claim(w, o) PROVE IInv'
  <1> DEFINE s == job[w]
  <1>1. pc[w] = "claim" /\ pc[w] \notin Claiming /\ s \in Swap /\ row[w] = "none"
    BY DEF Claim, Claiming, Minting, IInv, JobOK, RowInv
  <1>2. /\ pc' \in [Worker -> Steps] /\ \A v \in Worker : v # w => pc'[v] = pc[v]
        /\ job' = job /\ faults' \in 0..MaxFaults
    BY AnswersType DEF Claim, Goto, slotVars, IInv, TypeOK, Steps, Claiming, Minting
  <1>3. status' \in [Swap -> Statuses]
    BY <1>1 DEF Claim, IInv, TypeOK, Statuses
  <1>4. TypeOK'
    BY <1>2, <1>3 DEF Claim, IInv, TypeOK, intakeVars, queueVars, slotVars, chainVars, lostVars
  <1>5. CASE status[s] = "pending_convert"
    <2>1. Alone(w)
      BY <1>5 DEF IInv, HolderStatus, Alone
    <2>2. Local(w)
      BY <1>1, <1>5, <2>1, LocalBefore
    <2>3. OnlyLocal(w)
      BY <1>1, <1>2 DEF Claim, OnlyLocal, IInv, TypeOK, chainVars, lostVars
    <2>4. pc'[w] \in {"load", "nack"} /\ (pc'[w] = "load" => status'[s] = "processing")
          /\ status'[s] \in {"pending_convert", "processing"}
      BY <1>1, <1>5 DEF Claim, Claimable, Applied, Goto, IInv, TypeOK
    <2>5. Local(w)'
      BY <1>1, <1>2, <1>5, <2>2, <2>4 DEF Claim, Local, One, FaultFree, NoLateChain, Claiming,
         Minting, chainVars, lostVars
    <2> QED BY <1>4, <2>1, <2>3, <2>5, LocalAfter
  <1>6. CASE status[s] # "pending_convert"
    <2>1. UNCHANGED <<status, xlmRecorded, row, booked, chainVars, lostVars>>
      BY <1>6 DEF Claim, Claimable
    <2>2. pc'[w] \notin Claiming
      BY <1>6 DEF Claim, Claimable, Goto, IInv, TypeOK, Claiming, Minting
    <2>3. JobOK'
      BY <1>1, <1>2 DEF IInv, JobOK
    <2> QED BY <1>1, <1>2, <1>4, <2>1, <2>2, <2>3, QuietInv
  <1> QED BY <1>5, <1>6

LEMMA CrashInv == ASSUME IInv, NEW w \in Worker, Crash(w) PROVE IInv'
  <1> DEFINE s == job[w]
  <1>1. /\ pc' \in [Worker -> Steps] /\ pc'[w] = "idle"
        /\ \A v \in Worker : v # w => pc'[v] = pc[v]
    BY DEF Crash, Free, Goto, IInv, TypeOK, Steps
  <1>2. /\ job' \in [Worker -> Swap \cup {NoSwap}] /\ retries' \in [Worker -> 0..MaxRetries]
        /\ \A v \in Worker : v # w => job'[v] = job[v]
    BY ConstantsAssumption DEF Crash, Free, IInv, TypeOK
  <1>3. /\ row' \in [Worker -> RowStatus \cup {"none"}] /\ row'[w] = "none"
        /\ \A v \in Worker : v # w => row'[v] = row[v]
    BY DEF Crash, IInv, TypeOK
  <1>4. queued' \in [Swap -> [0..MaxRetries -> Nat]]
    BY RequeuedType DEF Crash
  <1>5. faults' \in 0..MaxFaults /\ attached' \subseteq Worker
    BY ConstantsAssumption DEF Crash, Fault, IInv, TypeOK
  <1>6. pc[w] \in Claiming => s \in Swap
    BY ClaimantAlone
  <1>7. /\ lostMints' \in [Swap -> Nat]
        /\ \A t \in Swap : lostMints'[t] = IF t = s /\ pc[w] \in Minting
                                            THEN lostMints[t] + 1 ELSE lostMints[t]
    BY <1>6, Stages DEF Crash, Add, IInv, TypeOK
  <1>8. /\ lostSwaps' \in [Swap -> Nat]
        /\ \A t \in Swap : lostSwaps'[t] = IF t = s /\ pc[w] = "persist"
                                            THEN lostSwaps[t] + 1 ELSE lostSwaps[t]
    BY <1>6, Stages DEF Crash, Add, IInv, TypeOK
  <1>9. UNCHANGED <<status, xlmRecorded, booked, chainVars>>
    BY DEF Crash
  <1>10. TypeOK'
    BY <1>1, <1>2, <1>3, <1>4, <1>5, <1>7, <1>8 DEF Crash, IInv, TypeOK, intakeVars, chainVars
  <1>11. JobOK' /\ HolderStatus' /\ ClaimExclusion' /\ RowInv'
    BY <1>1, <1>2, <1>3, <1>9 DEF IInv, JobOK, HolderStatus, ClaimExclusion, RowInv, Claiming, Minting
  <1>12. Converted' /\ RowAtStep' /\ Unrecorded'
    BY <1>1, <1>2, <1>3, <1>9 DEF IInv, Converted, RowAtStep, Unrecorded, chainVars
  <1>13. MintAfterSwap' /\ RowsBacked'
    BY <1>9 DEF IInv, MintAfterSwap, RowsBacked, chainVars
  <1>14. NoLoss'
    BY <1>9 DEF IInv, NoLoss, Crash, Fault, FaultFree, chainVars
  <1>15. ASSUME NEW M \in SUBSET Claiming
         PROVE  /\ \A t \in Swap : t = s /\ pc[w] \in Claiming => ~Held(t, M)'
                /\ \A t \in Swap : t # s \/ pc[w] \notin Claiming => (Held(t, M)' <=> Held(t, M))
    <2>1. pc[w] \in Claiming => Alone(w)
      BY ClaimantAlone
    <2>2. "idle" \notin M
      BY DEF Claiming, Minting
    <2>3. ASSUME NEW t \in Swap, t = s, pc[w] \in Claiming
          PROVE  ~Held(t, M)'
      BY <1>1, <1>2, <2>1, <2>2, <2>3 DEF Alone, Held, Holds
    <2>4. ASSUME NEW t \in Swap, t # s \/ pc[w] \notin Claiming
          PROVE  Held(t, M)' <=> Held(t, M)
      BY <1>1, <1>2, <2>2, <2>4 DEF Held, Holds
    <2> QED BY <2>3, <2>4
  <1>16. ASSUME NEW M \in SUBSET Claiming, NEW t \in Swap, t = s, pc[w] \in Claiming
         PROVE  Held(t, M) <=> pc[w] \in M
    <2>1. Alone(w)
      BY <1>16, ClaimantAlone
    <2> QED BY <1>16, <2>1 DEF Alone, Held, Holds
  <1>17. \A t \in Swap : mints[t] \in Nat /\ lostMints[t] \in Nat /\ swaps[t] \in Nat /\ lostSwaps[t] \in Nat
    BY DEF IInv, TypeOK
  <1>18. MintAccounting'
    <2> SUFFICES ASSUME NEW t \in Swap
                 PROVE  mints'[t] = lostMints'[t] + One(status'[t] = "completed")
                                      + One(Held(t, Minting)')
      BY DEF MintAccounting
    <2>1. mints[t] = lostMints[t] + One(status[t] = "completed") + One(Held(t, Minting))
      BY DEF IInv, MintAccounting
    <2>2. CASE t = s /\ pc[w] \in Claiming
      <3>1. ~Held(t, Minting)'
        BY <1>15, <2>1, <2>2, Stages
      <3>2. Held(t, Minting) <=> pc[w] \in Minting
        BY <1>16, <2>1, <2>2, Stages
      <3> QED BY <1>7, <1>9, <1>17, <2>1, <2>2, <3>1, <3>2 DEF One, chainVars
    <2>3. CASE t # s \/ pc[w] \notin Claiming
      <3>1. Held(t, Minting)' <=> Held(t, Minting)
        BY <1>15, <2>1, <2>3, Stages
      <3>2. ~(t = s /\ pc[w] \in Minting)
        BY <2>3, Stages
      <3> QED BY <1>7, <1>9, <2>1, <3>1, <3>2 DEF One, chainVars
    <2> QED BY <2>2, <2>3
  <1>19. SwapAccounting'
    <2> SUFFICES ASSUME NEW t \in Usdc
                 PROVE  swaps'[t] = lostSwaps'[t] + One(t \in xlmRecorded')
                                      + One(Held(t, {"persist"})')
      BY DEF SwapAccounting
    <2>1. t \in Swap /\ swaps[t] = lostSwaps[t] + One(t \in xlmRecorded) + One(Held(t, {"persist"}))
      BY ConstantsAssumption DEF IInv, SwapAccounting
    <2>2. CASE t = s /\ pc[w] \in Claiming
      <3>1. ~Held(t, {"persist"})'
        BY <1>15, <2>1, <2>2, Stages
      <3>2. Held(t, {"persist"}) <=> pc[w] = "persist"
        BY <1>16, <2>1, <2>2, Stages
      <3> QED BY <1>8, <1>9, <1>17, <2>1, <2>2, <3>1, <3>2 DEF One, chainVars
    <2>3. CASE t # s \/ pc[w] \notin Claiming
      <3>1. Held(t, {"persist"})' <=> Held(t, {"persist"})
        BY <1>15, <2>1, <2>3, Stages
      <3>2. ~(t = s /\ pc[w] \in {"persist"})
        BY <2>3, Stages
      <3> QED BY <1>8, <1>9, <2>1, <3>1, <3>2 DEF One, chainVars
    <2> QED BY <2>2, <2>3
  <1> QED BY <1>10, <1>11, <1>12, <1>13, <1>14, <1>18, <1>19 DEF IInv

-----------------------------------------------------------------------------
LEMMA NextInv == IInv /\ [Next]_vars => IInv'
  <1> SUFFICES ASSUME IInv, [Next]_vars PROVE IInv'
    OBVIOUS
  <1>1. ASSUME NEW s \in Swap, Intake(s) PROVE IInv'
    BY <1>1, CreateInv, ReplayInv, EnqueueInv DEF Intake
  <1>2. ASSUME NEW w \in Worker, Consume(w) PROVE IInv'
    BY <1>2, DeliverInv DEF Consume
  <1>3. ASSUME NEW w \in Worker, Handle(w) PROVE IInv'
    BY <1>3, AckInv, ClaimInv, LoadInv, SwapUsdcToXlmInv, PersistInv, CreateRowInv, InvokeInv,
       RecordInv, CompensateInv, RecordAgainInv, MarkFailedInv, CompleteInv, ReleaseInv, NackInv
       DEF Handle
  <1>4. ASSUME NEW w \in Worker, Detach(w) \/ Crash(w) PROVE IInv'
    BY <1>4, DetachInv, CrashInv
  <1>5. CASE UNCHANGED vars
    <2>1. TypeOK' /\ JobOK'
      BY <1>5 DEF vars, intakeVars, queueVars, slotVars, chainVars, lostVars, IInv, TypeOK, JobOK
    <2> QED BY <1>5, <2>1, QuietInv DEF vars, slotVars
  <1> QED BY <1>1, <1>2, <1>3, <1>4, <1>5 DEF Next

(* The inductive invariant holds in every reachable state, for every number of *)
(* deposits, workers, retries and faults.                                      *)
THEOREM InvariantHolds == Spec => []IInv
  BY InitInv, NextInv, PTL DEF Spec

(* The types of TypeOK, whatever the environment does. *)
THEOREM TypeCorrect == Spec => []TypeOK
  <1>1. IInv => TypeOK
    BY DEF IInv
  <1> QED BY <1>1, InvariantHolds, PTL

(* One handler per row: the updateMany claim excludes every other consumer. *)
THEOREM ClaimsExclude == Spec => []ClaimExclusion
  <1>1. IInv => ClaimExclusion
    BY DEF IInv
  <1> QED BY <1>1, InvariantHolds, PTL

(* No mint for a USDC deposit before its DEX swap is on chain and recorded. *)
THEOREM MintFollowsSwap == Spec => []MintAfterSwap
  <1>1. IInv => MintAfterSwap
    BY DEF IInv
  <1> QED BY <1>1, InvariantHolds, PTL

(* Every mint and every DEX swap is recorded, in a handler's hands, or one whose *)
(* record an error or a crash destroyed.                                         *)
THEOREM EffectsAccounted == Spec => [](MintAccounting /\ SwapAccounting)
  <1>1. IInv => MintAccounting /\ SwapAccounting
    BY DEF IInv
  <1> QED BY <1>1, InvariantHolds, PTL

(* No DEX swap of a USDC deposit is forgotten: it is on its row, with the worker *)
(* that is about to write it there, or one whose write was lost.                 *)
THEOREM SwapsAccounted == Spec => []SwapAccounting
  <1>1. IInv => SwapAccounting
    BY DEF IInv
  <1> QED BY <1>1, InvariantHolds, PTL

(* Completed Transaction rows are backed by mints, completed deposits by rows. *)
THEOREM BooksBacked == Spec => []RowsBacked
  <1>1. IInv => RowsBacked
    BY DEF IInv
  <1> QED BY <1>1, InvariantHolds, PTL

(* With the database and the processes up and clear answers from the chain, no *)
(* deposit is swapped or minted twice, whatever the broker does.               *)
THEOREM MintsOnce == Spec => []ExactlyOnce
  <1>1. IInv => ExactlyOnce
    <2> SUFFICES ASSUME IInv, FaultFree({"db", "process"}), NoLateChain, NEW s \in Swap
                 PROVE  mints[s] <= 1 /\ swaps[s] <= 1
      BY DEF ExactlyOnce
    <2>1. lostMints[s] = 0 /\ lostSwaps[s] = 0 /\ (s \notin Usdc => swaps[s] = 0)
      BY DEF IInv, NoLoss
    <2>2. Held(s, Minting) => status[s] # "completed"
      BY DEF IInv, HolderStatus, Held, Holds, Claiming, Minting
    <2>3. Held(s, {"persist"}) => s \notin xlmRecorded
      BY DEF IInv, Converted, Held, Holds
    <2>4. mints[s] = lostMints[s] + One(status[s] = "completed") + One(Held(s, Minting))
      BY DEF IInv, MintAccounting
    <2>5. s \in Usdc => swaps[s] = lostSwaps[s] + One(s \in xlmRecorded) + One(Held(s, {"persist"}))
      BY DEF IInv, SwapAccounting
    <2> QED BY <2>1, <2>2, <2>3, <2>4, <2>5 DEF One
  <1> QED BY <1>1, InvariantHolds, PTL

LEMMA KeepsTerminalStep == IInv /\ [Next]_vars => [KeepsTerminal]_vars
  <1> SUFFICES ASSUME IInv, Next PROVE KeepsTerminal
    OBVIOUS
  <1>1. ASSUME NEW s \in Swap, Create(s) PROVE KeepsTerminal
    BY <1>1 DEF Create, KeepsTerminal, IInv, TypeOK
  <1>2. ASSUME NEW w \in Worker, NEW o \in Outcomes, Claim(w, o) PROVE KeepsTerminal
    BY <1>2 DEF Claim, Claimable, KeepsTerminal, IInv, TypeOK
  <1>3. ASSUME NEW w \in Worker, NEW o \in Outcomes, Complete(w, o) PROVE KeepsTerminal
    <2>1. status[job[w]] = "processing"
      BY <1>3 DEF Complete, IInv, HolderStatus, Claiming, Minting
    <2> QED BY <1>3, <2>1 DEF Complete, KeepsTerminal, IInv, TypeOK
  <1>4. ASSUME NEW w \in Worker, NEW o \in Outcomes, Release(w, o) PROVE KeepsTerminal
    <2>1. \/ status[job[w]] = "processing"
          \/ status[job[w]] = "completed" /\ <<"db", "late">> \in Faults
      BY <1>4 DEF Release, IInv, HolderStatus, Claiming
    <2> QED BY <1>4, <2>1 DEF Release, KeepsTerminal, IInv, TypeOK
  <1>5. ASSUME UNCHANGED status PROVE KeepsTerminal
    BY <1>5 DEF KeepsTerminal
  <1>6. ASSUME NEW s \in Swap, Intake(s) PROVE KeepsTerminal
    BY <1>1, <1>5, <1>6 DEF Intake, Replay, Enqueue
  <1>7. ASSUME NEW w \in Worker, Handle(w) PROVE KeepsTerminal
    BY <1>2, <1>3, <1>4, <1>5, <1>7
       DEF Handle, Ack, Load, SwapUsdcToXlm, Persist, CreateRow, Invoke, Record, Compensate,
           RecordAgain, MarkFailed, Nack
  <1>8. ASSUME NEW w \in Worker, Consume(w) \/ Detach(w) \/ Crash(w) PROVE KeepsTerminal
    BY <1>5, <1>8 DEF Consume, Deliver, Detach, Crash
  <1> QED BY <1>6, <1>7, <1>8 DEF Next

(* A failed deposit stays failed, and a completed one completed unless the       *)
(* database commits a write it reports as an error.                              *)
THEOREM TerminalHolds == Spec => TerminalStable
  BY InvariantHolds, KeepsTerminalStep, PTL DEF Spec, TerminalStable

-----------------------------------------------------------------------------
(* Where an open deposit is.  This is what keeps DepositsSettle within reach  *)
(* of a fair scheduler: as long as the database, the processes and the        *)
(* connections stay up and the broker loses no message, it is never stranded. *)

Reliable == FaultFree({"db", "process", "channel"}) /\ <<"broker", "lost">> \notin Faults

(* A deposit no handler has claimed is about to be published, in the queue, with a *)
(* consumer that is about to claim it, or with one that publishes it again.        *)
Waiting(s) ==
    \/ intake[s] = "enqueue"
    \/ \E r \in 0..MaxRetries : queued[s][r] > 0
    \/ Held(s, {"claim"})
    \/ \E w \in Worker : Holds(w, s, {"nack"}) /\ retries[w] < MaxRetries

NothingStranded ==
    \A s \in Swap : /\ status[s] = "pending_convert" => Waiting(s)
                    /\ status[s] = "processing" => Held(s, Claiming)

(* Nothing is stranded, and no connection is down. *)
Kept == attached = Worker /\ NothingStranded

(* What the environment may not do. *)
LEMMA ReliableAnswers ==
  ASSUME Reliable, NEW o \in Outcomes
  PROVE  /\ Answers("db", o) => o = "ok"
         /\ Answers("broker", o) => o \in {"ok", "late"}
         /\ ~Fault("channel", "lost") /\ ~Fault("process", "lost")
  BY DEF Reliable, FaultFree, Answers, Fault, Outcomes

(* A step of worker w that takes nothing from the queue leaves a deposit where it *)
(* is, unless w itself has it.                                                    *)
LEMMA StaysInHand ==
  ASSUME NEW w \in Worker, NEW t \in Swap,
         \A v \in Worker : v # w => pc'[v] = pc[v] /\ job'[v] = job[v] /\ retries'[v] = retries[v],
         intake'[t] = intake[t],
         \A r \in 0..MaxRetries : queued[t][r] > 0 => queued'[t][r] > 0
  PROVE  /\ Waiting(t) /\ ~Holds(w, t, {"claim", "nack"}) => Waiting(t)'
         /\ Held(t, Claiming) /\ ~Holds(w, t, Claiming) => Held(t, Claiming)'
  <1>1. ASSUME Held(t, Claiming), ~Holds(w, t, Claiming) PROVE Held(t, Claiming)'
    BY <1>1 DEF Held, Holds
  <1>2. ASSUME Waiting(t), ~Holds(w, t, {"claim", "nack"}) PROVE Waiting(t)'
    <2>1. CASE intake[t] = "enqueue"
      BY <2>1 DEF Waiting
    <2>2. CASE \E r \in 0..MaxRetries : queued[t][r] > 0
      BY <2>2 DEF Waiting
    <2>3. CASE Held(t, {"claim"})
      <3>1. Held(t, {"claim"})'
        BY <1>2, <2>3 DEF Held, Holds
      <3> QED BY <3>1 DEF Waiting
    <2>4. CASE \E v \in Worker : Holds(v, t, {"nack"}) /\ retries[v] < MaxRetries
      <3>1. PICK v \in Worker : Holds(v, t, {"nack"}) /\ retries[v] < MaxRetries
        BY <2>4
      <3>2. v # w
        BY <1>2, <3>1 DEF Holds
      <3>3. Holds(v, t, {"nack"})' /\ retries'[v] < MaxRetries
        BY <3>1, <3>2 DEF Holds
      <3> QED BY <3>3 DEF Waiting
    <2> QED BY <1>2, <2>1, <2>2, <2>3, <2>4 DEF Waiting
  <1> QED BY <1>1, <1>2

(* A handler that goes on with the row it has claimed. *)
LEMMA WorkKept ==
  ASSUME IInv, Kept, NEW w \in Worker,
         pc[w] \in Claiming, pc'[w] \in Claiming, \A v \in Worker : v # w => pc'[v] = pc[v],
         UNCHANGED <<status, intake, queued, job, retries, attached>>
  PROVE  Kept'
  <1>1. attached' = Worker
    BY DEF Kept
  <1>2. ASSUME NEW t \in Swap
        PROVE  /\ status'[t] = "pending_convert" => Waiting(t)'
               /\ status'[t] = "processing" => Held(t, Claiming)'
    <2>1. ~Holds(w, t, {"claim", "nack"})
      BY DEF Holds, Claiming, Minting
    <2>2. Holds(w, t, Claiming) => Held(t, Claiming)'
      BY DEF Holds, Held
    <2> QED BY <2>1, <2>2, StaysInHand DEF Kept, NothingStranded
  <1> QED BY <1>1, <1>2 DEF Kept, NothingStranded

LEMMA IntakeKept == ASSUME Reliable, IInv, Kept, NEW s \in Swap, Intake(s) PROVE Kept'
  <1> USE DEF queueVars, slotVars
  <1>1. attached' = Worker
    BY DEF Intake, Create, Replay, Enqueue, Kept
  <1>2. UNCHANGED <<pc, job, retries>>
    BY DEF Intake, Create, Replay, Enqueue
  <1>3. ASSUME NEW t \in Swap PROVE Held(t, Claiming)' <=> Held(t, Claiming)
    BY <1>2 DEF Held, Holds
  <1>4. ASSUME NEW t \in Swap, Waiting(t), intake'[t] = intake[t], UNCHANGED queued PROVE Waiting(t)'
    BY <1>2, <1>4 DEF Waiting, Held, Holds
  <1>5. CASE Create(s)
    <2>1. ASSUME NEW t \in Swap, t # s PROVE status'[t] = status[t] /\ intake'[t] = intake[t]
      BY <1>5, <2>1 DEF Create, IInv, TypeOK
    <2>2. status'[s] = "pending_convert" /\ intake'[s] = "enqueue" /\ UNCHANGED queued
      BY <1>5 DEF Create, IInv, TypeOK
    <2>3. Waiting(s)'
      BY <2>2 DEF Waiting
    <2> QED BY <1>1, <1>3, <1>4, <2>1, <2>2, <2>3 DEF Kept, NothingStranded
  <1>6. CASE Replay(s)
    <2>1. UNCHANGED <<status, intake, queued>>
      BY <1>6 DEF Replay
    <2> QED BY <1>1, <1>3, <1>4, <2>1 DEF Kept, NothingStranded
  <1>7. ASSUME NEW o \in Outcomes, Enqueue(s, o) PROVE Kept'
    <2>1. o \in {"ok", "late"} /\ UNCHANGED status
      BY <1>7, ReliableAnswers DEF Enqueue
    <2>2. queued' = Put(queued, s, 0)
      BY <1>7, <2>1 DEF Enqueue, Applied
    <2>3. queued \in [Swap -> [0..MaxRetries -> Nat]] /\ 0 \in 0..MaxRetries
      BY DEF IInv, TypeOK
    <2>4. queued'[s][0] > 0
      BY <2>2, <2>3 DEF Put
    <2>5. Waiting(s)'
      BY <2>3, <2>4 DEF Waiting
    <2>6. ASSUME NEW t \in Swap, t # s, Waiting(t) PROVE Waiting(t)'
      <3>1. queued'[t] = queued[t] /\ intake'[t] = intake[t]
        BY <1>7, <2>2, <2>3, <2>6 DEF Put, Enqueue, IInv, TypeOK
      <3> QED BY <1>2, <2>6, <3>1 DEF Waiting, Held, Holds
    <2> QED BY <1>1, <1>3, <2>1, <2>5, <2>6 DEF Kept, NothingStranded
  <1> QED BY <1>5, <1>6, <1>7 DEF Intake

LEMMA DeliverKept ==
  ASSUME IInv, Kept, NEW w \in Worker, NEW s \in Swap, NEW r \in 0..MaxRetries, Deliver(w, s, r)
  PROVE  Kept'
  <1>1. attached' = Worker /\ UNCHANGED <<status, intake>>
    BY DEF Deliver, Kept, intakeVars
  <1>2. /\ pc[w] = "idle" /\ pc'[w] = "claim" /\ job'[w] = s
        /\ \A v \in Worker : v # w => pc'[v] = pc[v] /\ job'[v] = job[v] /\ retries'[v] = retries[v]
    BY DEF Deliver, Goto, IInv, TypeOK
  <1>3. \A t \in Swap : Held(t, Claiming) => Held(t, Claiming)'
    BY <1>2 DEF Held, Holds, Claiming, Minting
  <1>4. Waiting(s)'
    BY <1>2 DEF Waiting, Held, Holds
  <1>5. ASSUME NEW t \in Swap, t # s, Waiting(t) PROVE Waiting(t)'
    <2>1. queued'[t] = queued[t]
      BY <1>5 DEF Deliver, IInv, TypeOK
    <2>2. ~Holds(w, t, {"claim", "nack"})
      BY <1>2 DEF Holds
    <2> QED BY <1>1, <1>2, <1>5, <2>1, <2>2, StaysInHand
  <1> QED BY <1>1, <1>3, <1>4, <1>5 DEF Kept, NothingStranded

(* The claim either takes the row or finds that it needs no claim. *)
LEMMA ClaimKept ==
  ASSUME Reliable, IInv, Kept, NEW w \in Worker, NEW o \in Outcomes, Claim(w, o) PROVE Kept'
  <1> USE DEF intakeVars, queueVars, slotVars
  <1>1. o = "ok" /\ job[w] \in Swap /\ pc[w] = "claim"
    BY ReliableAnswers DEF Claim, IInv, JobOK
  <1>2. /\ attached' = Worker /\ UNCHANGED <<intake, queued, job, retries>>
        /\ \A v \in Worker : v # w => pc'[v] = pc[v]
    BY DEF Claim, Goto, IInv, TypeOK, Kept
  <1>3. \A t \in Swap : t # job[w] => status'[t] = status[t]
    BY DEF Claim, IInv, TypeOK
  <1>4. ASSUME NEW t \in Swap, t # job[w]
        PROVE  (Waiting(t) => Waiting(t)') /\ (Held(t, Claiming) => Held(t, Claiming)')
    <2>1. ~Holds(w, t, {"claim", "nack"}) /\ ~Holds(w, t, Claiming)
      BY <1>4 DEF Holds
    <2> QED BY <1>2, <2>1, StaysInHand
  <1>5. CASE status[job[w]] = "pending_convert"
    <2>1. status'[job[w]] = "processing" /\ pc'[w] = "load"
      BY <1>1, <1>5 DEF Claim, Claimable, Applied, Goto, IInv, TypeOK
    <2>2. Held(job[w], Claiming)'
      BY <1>2, <2>1 DEF Held, Holds, Claiming
    <2> QED BY <1>2, <1>3, <1>4, <2>1, <2>2 DEF Kept, NothingStranded
  <1>6. CASE status[job[w]] # "pending_convert"
    <2>1. UNCHANGED status
      BY <1>6 DEF Claim, Claimable
    <2>2. ~Holds(w, job[w], Claiming)
      BY <1>1 DEF Holds, Claiming, Minting
    <2>3. Held(job[w], Claiming) => Held(job[w], Claiming)'
      BY <1>1, <1>2, <2>2, StaysInHand
    <2> QED BY <1>2, <1>3, <1>4, <1>6, <2>1, <2>3 DEF Kept, NothingStranded
  <1> QED BY <1>5, <1>6

(* A handler that lets go of the row it has claimed leaves it completed, failed or *)
(* with a message that is published again.                                         *)
LEMMA LetGoKept ==
  ASSUME IInv, Kept, NEW w \in Worker, NEW st \in {"completed", "failed", "pending_convert"},
         job[w] \in Swap, pc[w] \in Claiming,
         status' = [status EXCEPT ![job[w]] = st],
         \A v \in Worker : v # w => pc'[v] = pc[v],
         UNCHANGED <<intake, queued, job, retries, attached>>,
         st = "pending_convert" => pc'[w] = "nack" /\ retries[w] < MaxRetries
  PROVE  Kept'
  <1>1. attached' = Worker
    BY DEF Kept
  <1>2. /\ status'[job[w]] = st /\ \A t \in Swap : t # job[w] => status'[t] = status[t]
    BY DEF IInv, TypeOK
  <1>3. st = "pending_convert" => Waiting(job[w])'
    BY DEF Waiting, Holds
  <1>4. ASSUME NEW t \in Swap, t # job[w]
        PROVE  (Waiting(t) => Waiting(t)') /\ (Held(t, Claiming) => Held(t, Claiming)')
    <2>1. ~Holds(w, t, {"claim", "nack"}) /\ ~Holds(w, t, Claiming)
      BY <1>4 DEF Holds
    <2> QED BY <2>1, StaysInHand
  <1> QED BY <1>1, <1>2, <1>3, <1>4 DEF Kept, NothingStranded

LEMMA CompleteKept ==
  ASSUME Reliable, IInv, Kept, NEW w \in Worker, NEW o \in Outcomes, Complete(w, o) PROVE Kept'
  <1>1. o = "ok" /\ pc[w] \in Claiming /\ job[w] \in Swap
    BY ReliableAnswers DEF Complete, IInv, JobOK, Claiming, Minting
  <1>2. /\ status' = [status EXCEPT ![job[w]] = "completed"]
        /\ \A v \in Worker : v # w => pc'[v] = pc[v]
        /\ UNCHANGED <<intake, queued, job, retries, attached>>
    BY <1>1 DEF Complete, Applied, Goto, intakeVars, queueVars, slotVars, IInv, TypeOK
  <1> QED BY <1>1, <1>2, LetGoKept

LEMMA ReleaseKept ==
  ASSUME Reliable, IInv, Kept, NEW w \in Worker, NEW o \in Outcomes, Release(w, o) PROVE Kept'
  <1> DEFINE st == ReleaseStatus(w)
  <1>1. o = "ok" /\ pc[w] \in Claiming /\ job[w] \in Swap
    BY ReliableAnswers DEF Release, IInv, JobOK, Claiming
  <1>2. /\ status' = [status EXCEPT ![job[w]] = st]
        /\ pc'[w] = "nack" /\ \A v \in Worker : v # w => pc'[v] = pc[v]
        /\ UNCHANGED <<intake, queued, job, retries, attached>>
    BY <1>1 DEF Release, Applied, Goto, intakeVars, queueVars, slotVars, IInv, TypeOK
  <1>3. st \in {"completed", "failed", "pending_convert"}
    BY DEF ReleaseStatus
  <1>4. st = "pending_convert" => retries[w] < MaxRetries
    <2>1. retries[w] \in Nat /\ MaxRetries \in Nat
      BY DEF IInv, TypeOK
    <2> QED BY <2>1 DEF ReleaseStatus, FinalAttempt
  <1> HIDE DEF st
  <1> QED BY <1>1, <1>2, <1>3, <1>4, LetGoKept

LEMMA AckKept == ASSUME IInv, Kept, NEW w \in Worker, Ack(w) PROVE Kept'
  <1>1. attached' = Worker /\ UNCHANGED <<status, intake, queued>>
    BY DEF Ack, Kept, intakeVars, queueVars
  <1>2. /\ pc[w] = "ack"
        /\ \A v \in Worker : v # w => pc'[v] = pc[v] /\ job'[v] = job[v] /\ retries'[v] = retries[v]
    BY DEF Ack, Free, Goto, IInv, TypeOK
  <1>3. ASSUME NEW t \in Swap
        PROVE  (Waiting(t) => Waiting(t)') /\ (Held(t, Claiming) => Held(t, Claiming)')
    <2>1. ~Holds(w, t, {"claim", "nack"}) /\ ~Holds(w, t, Claiming)
      BY <1>2 DEF Holds, Claiming, Minting
    <2> QED BY <1>1, <1>2, <2>1, StaysInHand
  <1> QED BY <1>1, <1>3 DEF Kept, NothingStranded

LEMMA PutGrows ==
  ASSUME NEW f \in [Swap -> [0..MaxRetries -> Nat]], NEW s \in Swap, NEW r \in 0..MaxRetries
  PROVE  /\ Put(f, s, r)[s][r] > 0
         /\ \A t \in Swap, q \in 0..MaxRetries : f[t][q] > 0 => Put(f, s, r)[t][q] > 0
  BY DEF Put

(* A consumer that gives its delivery up with retries left publishes it again. *)
LEMMA NackKept ==
  ASSUME Reliable, IInv, Kept, NEW w \in Worker, NEW o \in Outcomes, Nack(w, o) PROVE Kept'
  <1> DEFINE s == job[w]
             r == retries[w]
  <1>1. attached = Worker /\ attached' = Worker /\ UNCHANGED <<status, intake>>
    BY DEF Nack, Kept, intakeVars
  <1>2. /\ pc[w] = "nack" /\ s \in Swap /\ r \in 0..MaxRetries
        /\ queued \in [Swap -> [0..MaxRetries -> Nat]]
        /\ \A v \in Worker : v # w => pc'[v] = pc[v] /\ job'[v] = job[v] /\ retries'[v] = retries[v]
    BY DEF Nack, Free, Goto, IInv, TypeOK, JobOK
  <1>3. \/ r >= MaxRetries /\ UNCHANGED queued
        \/ /\ r < MaxRetries
           /\ queued' \in {Put(queued, s, r + 1), Put(Put(queued, s, r + 1), s, r)}
    <2>1. w \in attached
      BY <1>1
    <2> QED BY <2>1, ReliableAnswers DEF Nack, queueVars
  <1> HIDE DEF s, r
  <1>4. ASSUME r < MaxRetries PROVE queued'[s][r + 1] > 0 /\ r + 1 \in 0..MaxRetries
    <2>1. r + 1 \in 0..MaxRetries
      BY <1>2, <1>4
    <2>2. queued' \in {Put(queued, s, r + 1), Put(Put(queued, s, r + 1), s, r)}
      BY <1>2, <1>3, <1>4
    <2>3. Put(queued, s, r + 1)[s][r + 1] > 0
      BY <1>2, <2>1, PutGrows
    <2>4. Put(Put(queued, s, r + 1), s, r)[s][r + 1] > 0
      BY <1>2, <2>1, <2>3, PutFacts, PutGrows
    <2> QED BY <2>1, <2>2, <2>3, <2>4
  <1>5. ASSUME NEW t \in Swap, NEW q \in 0..MaxRetries, queued[t][q] > 0 PROVE queued'[t][q] > 0
    <2>1. CASE UNCHANGED queued
      BY <1>5, <2>1
    <2>2. CASE r < MaxRetries
      <3>1. r + 1 \in 0..MaxRetries
        BY <1>2, <2>2
      <3>2. Put(queued, s, r + 1)[t][q] > 0
        BY <1>2, <1>5, <3>1, PutGrows
      <3>3. Put(Put(queued, s, r + 1), s, r)[t][q] > 0
        BY <1>2, <3>1, <3>2, PutFacts, PutGrows
      <3> QED BY <1>3, <2>2, <3>2, <3>3, <1>2
    <2> QED BY <1>3, <2>1, <2>2
  <1>6. ASSUME NEW t \in Swap, Held(t, Claiming) PROVE Held(t, Claiming)'
    <2>1. ~Holds(w, t, Claiming)
      BY <1>2 DEF Holds, Claiming, Minting
    <2> QED BY <1>1, <1>2, <1>5, <1>6, <2>1, StaysInHand
  <1>7. ASSUME NEW t \in Swap, Waiting(t) PROVE Waiting(t)'
    <2>1. CASE ~Holds(w, t, {"claim", "nack"})
      BY <1>1, <1>2, <1>5, <1>7, <2>1, StaysInHand
    <2>2. CASE t = s /\ r < MaxRetries
      BY <1>4, <2>2 DEF Waiting
    <2>3. CASE t = s /\ ~(r < MaxRetries)
      <3>1. CASE intake[t] = "enqueue"
        BY <1>1, <3>1 DEF Waiting
      <3>2. CASE \E q \in 0..MaxRetries : queued[t][q] > 0
        BY <1>5, <3>2 DEF Waiting
      <3>3. CASE Held(t, {"claim"})
        <4>1. Held(t, {"claim"})'
          BY <1>2, <3>3 DEF Held, Holds
        <4> QED BY <4>1 DEF Waiting
      <3>4. CASE \E v \in Worker : Holds(v, t, {"nack"}) /\ retries[v] < MaxRetries
        <4>1. PICK v \in Worker : Holds(v, t, {"nack"}) /\ retries[v] < MaxRetries
          BY <3>4
        <4>2. v # w
          BY <2>3, <4>1 DEF r
        <4>3. Holds(v, t, {"nack"})' /\ retries'[v] < MaxRetries
          BY <1>2, <4>1, <4>2 DEF Holds
        <4> QED BY <4>3 DEF Waiting
      <3> QED BY <1>7, <3>1, <3>2, <3>3, <3>4 DEF Waiting
    <2> QED BY <2>1, <2>2, <2>3 DEF Holds, s
  <1> QED BY <1>1, <1>6, <1>7 DEF Kept, NothingStranded

(* Every other step of a handler keeps its claim. *)
LEMMA StepsKept ==
  ASSUME Reliable, IInv, Kept, NEW w \in Worker, NEW o \in Outcomes,
         \/ Load(w, o)   \/ SwapUsdcToXlm(w, o) \/ Persist(w, o)     \/ CreateRow(w, o) \/ Invoke(w, o)
         \/ Record(w, o) \/ Compensate(w, o)    \/ RecordAgain(w, o) \/ MarkFailed(w, o)
  PROVE  Kept'
  <1> USE DEF Goto, intakeVars, queueVars, slotVars
  <1>1. Answers("db", o) => o = "ok"
    BY ReliableAnswers
  <1>2. UNCHANGED <<status, intake, queued, job, retries, attached>>
    BY DEF Load, SwapUsdcToXlm, Persist, CreateRow, Invoke, Record, Compensate, RecordAgain, MarkFailed
  <1>3. pc[w] \in Claiming
    BY DEF Load, SwapUsdcToXlm, Persist, CreateRow, Invoke, Record, Compensate, RecordAgain, MarkFailed,
           Claiming, Minting
  <1>4. pc'[w] \in Claiming /\ \A v \in Worker : v # w => pc'[v] = pc[v]
    <2>1. CASE Load(w, o) \/ SwapUsdcToXlm(w, o) \/ Persist(w, o) \/ CreateRow(w, o) \/ Invoke(w, o)
      BY <1>1, <2>1 DEF Load, AfterLoad, SwapUsdcToXlm, Persist, CreateRow, Invoke, Claiming, Minting, IInv, TypeOK
    <2>2. CASE Record(w, o) \/ Compensate(w, o) \/ RecordAgain(w, o) \/ MarkFailed(w, o)
      BY <1>1, <2>2 DEF Record, Compensate, RecordAgain, MarkFailed, Claiming, Minting, IInv, TypeOK
    <2> QED BY <2>1, <2>2
  <1> QED BY <1>2, <1>3, <1>4, WorkKept

LEMMA KeptStep == ASSUME Reliable, IInv, Kept, [Next]_vars PROVE Kept'
  <1>1. ASSUME NEW s \in Swap, Intake(s) PROVE Kept'
    BY <1>1, IntakeKept
  <1>2. ASSUME NEW w \in Worker, Consume(w) PROVE Kept'
    BY <1>2, DeliverKept DEF Consume
  <1>3. ASSUME NEW w \in Worker, Handle(w) PROVE Kept'
    <2>1. CASE Ack(w)
      BY <2>1, AckKept
    <2>2. ASSUME NEW o \in Outcomes, Claim(w, o) \/ Complete(w, o) \/ Release(w, o) \/ Nack(w, o)
          PROVE  Kept'
      BY <2>2, ClaimKept, CompleteKept, ReleaseKept, NackKept
    <2>3. ASSUME NEW o \in Outcomes,
                 \/ Load(w, o)   \/ SwapUsdcToXlm(w, o) \/ Persist(w, o)     \/ CreateRow(w, o) \/ Invoke(w, o)
                 \/ Record(w, o) \/ Compensate(w, o)    \/ RecordAgain(w, o) \/ MarkFailed(w, o)
          PROVE  Kept'
      BY <2>3, StepsKept
    <2> QED BY <1>3, <2>1, <2>2, <2>3 DEF Handle
  <1>4. ASSUME NEW w \in Worker PROVE ~Detach(w) /\ ~Crash(w)
    <2>1. "ok" \in Outcomes
      BY DEF Outcomes
    <2> QED BY <2>1, ReliableAnswers DEF Detach, Crash
  <1>5. CASE UNCHANGED vars
    <2>1. UNCHANGED <<status, intake, queued, pc, job, retries, attached>>
      BY <1>5 DEF vars, intakeVars, queueVars, slotVars
    <2> QED BY <2>1 DEF Kept, NothingStranded, Waiting, Held, Holds
  <1> QED BY <1>1, <1>2, <1>3, <1>4, <1>5 DEF Next

(* While the database, the processes and the connections stay up and the broker   *)
(* loses no message, every deposit that is not completed or failed is about to be *)
(* published, in the queue or in the hands of a consumer: however often the chain *)
(* refuses or answers unclearly and the broker duplicates, none is stranded       *)
(* behind a claim that lost its message.                                          *)
THEOREM DepositsInHand ==
  ASSUME Reliable
  PROVE  Spec => []NothingStranded
  <1>1. Init => Kept
    BY DEF Init, Kept, NothingStranded
  <1>2. IInv /\ Kept /\ [Next]_vars => Kept'
    BY KeptStep
  <1>3. Kept => NothingStranded
    BY DEF Kept
  <1> QED BY <1>1, <1>2, <1>3, InvariantHolds, PTL DEF Spec

-----------------------------------------------------------------------------
(* The refinement of Deposit: only five steps are visible in it. *)

LEMMA StageAfter ==
  ASSUME IInv, NEW s \in Swap, NEW st \in Statuses, status' = [status EXCEPT ![s] = st]
  PROVE  Stage' = [Stage EXCEPT ![s] = IF st \in {"pending_convert", "processing"} THEN "open" ELSE st]
  BY DEF Stage, IInv, TypeOK, Statuses

LEMMA DepositStep ==
  ASSUME FaultFree({"db", "process"}), NoLateChain, IInv, Next
  PROVE  [D!DepositNext]_(D!depositVars)
  <1> USE DEF D!DepositNext, D!depositVars, D!Open, D!Convert, D!Mint, D!Settle
  <1>1. ASSUME UNCHANGED <<status, swaps, mints>> PROVE UNCHANGED D!depositVars
    BY <1>1 DEF Stage
  <1>2. ASSUME NEW s \in Swap, Create(s) PROVE D!Open(s)
    <2>1. Stage' = [Stage EXCEPT ![s] = "open"]
      BY <1>2, StageAfter DEF Create, Statuses
    <2> QED BY <1>2, <2>1 DEF Create, Stage, chainVars
  <1>3. ASSUME NEW w \in Worker, NEW o \in Outcomes, Claim(w, o) PROVE UNCHANGED D!depositVars
    <2>1. job[w] \in Swap
      BY <1>3 DEF Claim, IInv, JobOK
    <2>2. Stage' = Stage
      BY <1>3, <2>1 DEF Claim, Claimable, Stage, IInv, TypeOK
    <2> QED BY <1>3, <2>2 DEF Claim, chainVars
  <1>4. ASSUME NEW w \in Worker, pc[w] \in Claiming
        PROVE  /\ job[w] \in Swap /\ status[job[w]] = "processing"
               /\ mints[job[w]] = IF pc[w] \in Minting THEN 1 ELSE 0
               /\ job[w] \in Usdc => swaps[job[w]] = IF job[w] \in xlmRecorded \/ pc[w] = "persist" THEN 1 ELSE 0
    <2>1. job[w] \in Swap /\ Local(w)
      BY <1>4, ClaimantAlone, LocalBefore
    <2>2. status[job[w]] = "processing"
      BY <1>4 DEF IInv, HolderStatus, FaultFree
    <2>3. lostMints[job[w]] = 0 /\ lostSwaps[job[w]] = 0
      BY <2>1 DEF IInv, NoLoss
    <2>4. mints[job[w]] = lostMints[job[w]] + One(status[job[w]] = "completed") + One(pc[w] \in Minting)
      BY <2>1 DEF Local
    <2>5. job[w] \in Usdc =>
             swaps[job[w]] = lostSwaps[job[w]] + One(job[w] \in xlmRecorded) + One(pc[w] = "persist")
      BY <2>1 DEF Local
    <2>6. pc[w] = "persist" => job[w] \notin xlmRecorded
      BY DEF IInv, Converted
    <2> QED BY <2>1, <2>2, <2>3, <2>4, <2>5, <2>6 DEF One
  <1>5. ASSUME NEW w \in Worker, NEW o \in Outcomes, SwapUsdcToXlm(w, o)
        PROVE  D!Convert(job[w]) \/ UNCHANGED D!depositVars
    <2>1. CASE o = "ok"
      <3>1. pc[w] = "swap" /\ pc[w] \in Claiming
        BY <1>5 DEF SwapUsdcToXlm, Claiming
      <3>2. job[w] \in Swap /\ job[w] \in Usdc /\ Stage[job[w]] = "open"
        BY <1>4, <3>1 DEF IInv, Converted, Stage
      <3>3. swaps[job[w]] = 0 /\ mints[job[w]] = 0
        BY <1>4, <3>1, <3>2 DEF IInv, Converted, Minting
      <3>4. swaps' = [swaps EXCEPT ![job[w]] = 1]
        BY <1>5, <2>1, <3>2, <3>3 DEF SwapUsdcToXlm, Applied, Add, IInv, TypeOK
      <3> QED BY <1>5, <3>2, <3>3, <3>4 DEF SwapUsdcToXlm, Stage
    <2>2. CASE o = "lost"
      BY <1>1, <1>5, <2>2 DEF SwapUsdcToXlm, Applied
    <2>3. o # "late"
      BY <1>5 DEF SwapUsdcToXlm, Answers, Fault, NoLateChain
    <2> QED BY <2>1, <2>2, <2>3 DEF Outcomes
  <1>6. ASSUME NEW w \in Worker, NEW o \in Outcomes, Invoke(w, o)
        PROVE  D!Mint(job[w]) \/ UNCHANGED D!depositVars
    <2>1. CASE o = "ok"
      <3>1. pc[w] = "invoke" /\ pc[w] \in Claiming
        BY <1>6 DEF Invoke, Claiming
      <3>2. job[w] \in Swap /\ Stage[job[w]] = "open"
        BY <1>4, <3>1 DEF Stage
      <3>3. mints[job[w]] = 0 /\ (job[w] \in Usdc => swaps[job[w]] = 1)
        BY <1>4, <3>1, <3>2 DEF IInv, Converted, Minting
      <3>4. mints' = [mints EXCEPT ![job[w]] = 1]
        BY <1>6, <2>1, <3>2, <3>3 DEF Invoke, Applied, Add, IInv, TypeOK
      <3> QED BY <1>6, <3>2, <3>3, <3>4 DEF Invoke, Stage
    <2>2. CASE o = "lost"
      BY <1>1, <1>6, <2>2 DEF Invoke, Applied
    <2>3. o # "late"
      BY <1>6 DEF Invoke, Answers, Fault, NoLateChain
    <2> QED BY <2>1, <2>2, <2>3 DEF Outcomes
  <1>7. ASSUME NEW w \in Worker, NEW o \in Outcomes, Complete(w, o) PROVE D!Settle(job[w])
    <2>1. pc[w] = "complete" /\ pc[w] \in Claiming
      BY <1>7 DEF Complete, Claiming, Minting
    <2>2. job[w] \in Swap /\ Stage[job[w]] = "open" /\ status[job[w]] = "processing"
      BY <1>4, <2>1 DEF Stage
    <2>3. mints[job[w]] = 1
      BY <1>4, <2>1 DEF Minting
    <2>4. o = "ok"
      BY <1>7 DEF Complete, Answers, Fault, FaultFree
    <2>5. Stage' = [Stage EXCEPT ![job[w]] = "completed"]
      BY <1>7, <2>2, <2>4, StageAfter DEF Complete, Applied, Statuses
    <2> QED BY <1>7, <2>2, <2>3, <2>5 DEF Complete, chainVars
  <1>8. ASSUME NEW w \in Worker, NEW o \in Outcomes, Release(w, o)
        PROVE  D!Settle(job[w]) \/ UNCHANGED D!depositVars
    <2>1. pc[w] = "release" /\ pc[w] \in Claiming
      BY <1>8 DEF Release, Claiming
    <2>2. job[w] \in Swap /\ Stage[job[w]] = "open" /\ status[job[w]] = "processing"
      BY <1>4, <2>1 DEF Stage, IInv, HolderStatus, FaultFree
    <2>3. mints[job[w]] = 0
      BY <1>4, <2>1 DEF Minting
    <2>4. o = "ok"
      BY <1>8 DEF Release, Answers, Fault, FaultFree
    <2>5. CASE ReleaseStatus(w) = "pending_convert"
      <3>1. Stage' = Stage
        BY <1>8, <2>2, <2>4, <2>5 DEF Release, Applied, Stage, IInv, TypeOK
      <3> QED BY <1>8, <3>1 DEF Release, chainVars
    <2>6. CASE ReleaseStatus(w) = "failed"
      <3>1. Stage' = [Stage EXCEPT ![job[w]] = "failed"]
        BY <1>8, <2>2, <2>4, <2>6, StageAfter DEF Release, Applied, Statuses
      <3> QED BY <1>8, <2>2, <2>3, <3>1 DEF Release, chainVars
    <2> QED BY <2>5, <2>6 DEF ReleaseStatus
  <1>9. ASSUME NEW s \in Swap, Intake(s) PROVE [D!DepositNext]_(D!depositVars)
    BY <1>1, <1>2, <1>9 DEF Intake, Replay, Enqueue, chainVars
  <1>10. ASSUME NEW w \in Worker, Handle(w) PROVE [D!DepositNext]_(D!depositVars)
    <2>1. ASSUME NEW o \in Outcomes, SwapUsdcToXlm(w, o) \/ Invoke(w, o) \/ Complete(w, o) \/ Release(w, o)
          PROVE  [D!DepositNext]_(D!depositVars)
      <3>1. job[w] \in Swap
        BY <2>1 DEF SwapUsdcToXlm, Invoke, Complete, Release, IInv, JobOK
      <3> QED BY <1>5, <1>6, <1>7, <1>8, <2>1, <3>1
    <2>2. ASSUME NEW o \in Outcomes,
                 \/ Ack(w) \/ Load(w, o) \/ Persist(w, o) \/ CreateRow(w, o) \/ Record(w, o)
                 \/ Compensate(w, o) \/ RecordAgain(w, o) \/ MarkFailed(w, o) \/ Nack(w, o)
          PROVE  UNCHANGED <<status, swaps, mints>>
      BY <2>2 DEF Ack, Load, Persist, CreateRow, Record, Compensate, RecordAgain, MarkFailed, Nack, chainVars
    <2> QED BY <1>1, <1>3, <1>10, <2>1, <2>2 DEF Handle, Outcomes
  <1>11. ASSUME NEW w \in Worker, Consume(w) \/ Detach(w) \/ Crash(w) PROVE UNCHANGED <<status, swaps, mints>>
    BY <1>11 DEF Consume, Deliver, Detach, Crash, chainVars
  <1> QED BY <1>1, <1>9, <1>10, <1>11 DEF Next

(* With the database and the processes up and clear answers from the chain, the *)
(* queues, claims and retries of the on-ramp implement the abstract deposit,    *)
(* for any number of deposits, consumers and retries.                           *)
THEOREM ImplementsDeposits ==
  ASSUME FaultFree({"db", "process"}), NoLateChain
  PROVE  Spec => ImplementsDeposit
  <1>1. Init => D!DepositInit
    BY DEF Init, D!DepositInit, Stage
  <1>2. IInv /\ [Next]_vars => [D!DepositNext]_(D!depositVars)
    <2>1. CASE UNCHANGED vars
      BY <2>1 DEF vars, chainVars, D!depositVars, Stage
    <2> QED BY <2>1, DepositStep
  <1> QED BY <1>1, <1>2, InvariantHolds, PTL DEF Spec, ImplementsDeposit, D!DepositSpec
=============================================================================
