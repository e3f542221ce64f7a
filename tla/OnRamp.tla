------------------------------- MODULE OnRamp -------------------------------
(***************************************************************************)
(* The on-ramp: a deposit (USDC, or XLM the user already swapped) becomes  *)
(* an OnRampSwap row and a queue message; a consumer claims the row,       *)
(* converts USDC to XLM on the Stellar DEX, mints ACBU and completes it.   *)
(*                                                                         *)
(*   mintController.mintFromUsdc, onrampController.registerOnRampSwap      *)
(*     --> USDC_CONVERT_AND_MINT / XLM_TO_ACBU queue                       *)
(*     --> processUsdcConvertAndMint / processXlmToAcbu                    *)
(*     --> mintController.mintFromUsdcInternal                             *)
(*                                                                         *)
(* A worker is one consumer slot (prefetch is 1).  Every await of the      *)
(* handlers is a step, so two workers, or a worker and the broker,         *)
(* interleave wherever the code yields.  A database write or a chain call  *)
(* answers "ok", is "lost" (error, no effect) or is "late" (error, although*)
(* it took effect: a timeout after the commit or after the submission).    *)
(***************************************************************************)
EXTENDS Naturals, FiniteSets

CONSTANTS
    Swap,        \* the OnRampSwap rows that clients may create
    Usdc,        \* those with source = "usdc_deposit"; the others are "xlm_deposit"
    Worker,      \* consumer slots
    NoSwap,      \* a worker that has no delivery
    MaxRetries,  \* getQueueMaxRetries(QUEUE)
    Faults,      \* the kinds of fault the environment may show
    MaxFaults    \* bound: how many of them

FaultKinds == ({"db", "chain", "broker"} \X {"lost", "late"})
                \cup {<<"channel", "lost">>, <<"process", "lost">>}

ASSUME ConstantsAssumption ==
    /\ Usdc \subseteq Swap
    /\ NoSwap \notin Swap
    /\ MaxRetries \in Nat \ {0}
    /\ Faults \subseteq FaultKinds
    /\ MaxFaults \in Nat

VARIABLES
    status,       \* OnRampSwap.status; "none" before the row exists
    xlmRecorded,  \* the rows whose OnRampSwap.xlmAmount is not null
    intake,       \* the HTTP request that created the row
    accepted,     \* the rows for which a client was answered 202
    queued,       \* queued[s][r]: messages for s in the queue with x-retries = r
    dead,         \* messages rejected without requeue
    pc, job, retries,  \* of a worker: next step, delivery, its x-retries
    attached,     \* the workers whose channel is open (their delivery is still theirs)
    row,          \* the Transaction row of the worker's current attempt
    booked,       \* how many Transaction rows of a deposit are completed
    swaps, mints, \* effects on chain: DEX swaps and ACBU mints for a deposit
    burns,        \* compensation burns
    lostSwaps, lostMints,  \* history: effects on chain whose record was lost
    faults        \* faults so far

intakeVars == <<intake, accepted>>
queueVars  == <<queued, dead>>
slotVars   == <<job, retries, attached>>
chainVars  == <<swaps, mints, burns>>
lostVars   == <<lostSwaps, lostMints>>
vars == <<status, xlmRecorded, intakeVars, queueVars, pc, slotVars, row, booked,
          chainVars, lostVars, faults>>

-----------------------------------------------------------------------------
Statuses  == {"none", "pending_convert", "processing", "completed", "failed"}
RowStatus == {"pending", "completed", "failed"}
Outcomes  == {"ok", "lost", "late"}

(* Steps taken while the worker has the row claimed. *)
Minting  == {"record", "compensate", "recordAgain", "complete"}
Claiming == {"load", "swap", "persist", "create", "invoke", "markFailed", "release"} \cup Minting
Steps    == Claiming \cup {"idle", "claim", "ack", "nack"}

TypeOK ==
    /\ status \in [Swap -> Statuses]
    /\ xlmRecorded \subseteq Swap
    /\ intake \in [Swap -> {"none", "enqueue", "answered", "failed"}]
    /\ accepted \subseteq Swap
    /\ queued \in [Swap -> [0..MaxRetries -> Nat]]
    /\ dead \in [Swap -> Nat]
    /\ pc \in [Worker -> Steps]
    /\ job \in [Worker -> Swap \cup {NoSwap}]
    /\ retries \in [Worker -> 0..MaxRetries]
    /\ attached \subseteq Worker
    /\ row \in [Worker -> RowStatus \cup {"none"}]
    /\ booked \in [Swap -> Nat]
    /\ swaps \in [Swap -> Nat]
    /\ mints \in [Swap -> Nat]
    /\ burns \in [Swap -> Nat]
    /\ lostSwaps \in [Swap -> Nat]
    /\ lostMints \in [Swap -> Nat]
    /\ faults \in 0..MaxFaults

Init ==
    /\ status = [s \in Swap |-> "none"]
    /\ xlmRecorded = {}
    /\ intake = [s \in Swap |-> "none"]
    /\ accepted = {}
    /\ queued = [s \in Swap |-> [r \in 0..MaxRetries |-> 0]]
    /\ dead = [s \in Swap |-> 0]
    /\ pc = [w \in Worker |-> "idle"]
    /\ job = [w \in Worker |-> NoSwap]
    /\ retries = [w \in Worker |-> 0]
    /\ attached = Worker
    /\ row = [w \in Worker |-> "none"]
    /\ booked = [s \in Swap |-> 0]
    /\ swaps = [s \in Swap |-> 0]
    /\ mints = [s \in Swap |-> 0]
    /\ burns = [s \in Swap |-> 0]
    /\ lostSwaps = [s \in Swap |-> 0]
    /\ lostMints = [s \in Swap |-> 0]
    /\ faults = 0

-----------------------------------------------------------------------------
One(p)          == IF p THEN 1 ELSE 0
Add(f, s)       == [f EXCEPT ![s] = @ + 1]
Put(f, s, r)    == [f EXCEPT ![s][r] = @ + 1]
Applied(o)      == o # "lost"
Goto(w, step)   == pc' = [pc EXCEPT ![w] = step]

(* A fault of this kind happens now, within the bound. *)
Fault(kind, o) ==
    /\ <<kind, o>> \in Faults
    /\ faults < MaxFaults
    /\ faults' = faults + 1

(* How an operation of this kind may answer. *)
Answers(kind, o) ==
    \/ o = "ok" /\ UNCHANGED faults
    \/ o \in {"lost", "late"} /\ Fault(kind, o)

(* The attempt's Transaction row moves to status t. *)
SetRow(w, t) ==
    /\ row' = [row EXCEPT ![w] = t]
    /\ booked' = [booked EXCEPT ![job[w]] =
                    @ + One(t = "completed") - One(row[w] = "completed")]

-----------------------------------------------------------------------------
(* Intake.  Authentication, validation, wallet, pause and limit checks come *)
(* before the row exists: a request they reject is no step.                 *)

(* onRampSwap.create; the unique idempotency key makes it happen once. *)
Create(s) ==
    /\ status[s] = "none"
    /\ status' = [status EXCEPT ![s] = "pending_convert"]
    /\ xlmRecorded' = xlmRecorded \cup ({s} \ Usdc)
    /\ intake' = [intake EXCEPT ![s] = "enqueue"]
    /\ UNCHANGED <<accepted, queueVars, pc, slotVars, row, booked, chainVars, lostVars, faults>>

(* enqueueUsdcConvertAndMint / enqueueXlmToAcbu, then the 202; an error goes *)
(* to next(error) and leaves the row as it is.                               *)
Enqueue(s, o) ==
    /\ intake[s] = "enqueue"
    /\ Answers("broker", o)
    /\ queued' = IF Applied(o) THEN Put(queued, s, 0) ELSE queued
    /\ intake' = [intake EXCEPT ![s] = IF o = "ok" THEN "answered" ELSE "failed"]
    /\ accepted' = IF o = "ok" THEN accepted \cup {s} ELSE accepted
    /\ UNCHANGED <<status, xlmRecorded, dead, pc, slotVars, row, booked, chainVars, lostVars>>

(* A request with the same idempotency key (a client retry, or the loser of *)
(* a P2002 race) finds the row and is answered 202.                         *)
Replay(s) ==
    /\ status[s] # "none"
    /\ accepted' = accepted \cup {s}
    /\ UNCHANGED <<status, xlmRecorded, intake, queueVars, pc, slotVars, row, booked,
                   chainVars, lostVars, faults>>

-----------------------------------------------------------------------------
(* The consumer and the two process functions, one step per await. *)

Deliver(w, s, r) ==
    /\ pc[w] = "idle" /\ w \in attached
    /\ queued[s][r] > 0
    /\ queued' = [queued EXCEPT ![s][r] = @ - 1]
    /\ job' = [job EXCEPT ![w] = s]
    /\ retries' = [retries EXCEPT ![w] = r]
    /\ Goto(w, "claim")
    /\ UNCHANGED <<status, xlmRecorded, intakeVars, dead, attached, row, booked,
                   chainVars, lostVars, faults>>

(* Mutation: the claim's where clause forgets the status / only skips a claimed row. *)
ClaimableUnfinished(s) == status[s] \in {"pending_convert", "processing"}
ClaimableUnclaimed(s)  == status[s] # "processing"

(* updateMany where status = pending_convert: count 0 returns at once. *)
Claimable(s) == status[s] = "pending_convert"

Claim(w, o) ==
    /\ pc[w] = "claim"
    /\ Answers("db", o)
    /\ LET wins == Claimable(job[w])
       IN /\ status' = IF wins /\ Applied(o)
                       THEN [status EXCEPT ![job[w]] = "processing"] ELSE status
          /\ Goto(w, IF o # "ok" THEN "nack" ELSE IF wins THEN "load" ELSE "ack")
    /\ UNCHANGED <<xlmRecorded, intakeVars, queueVars, slotVars, row, booked, chainVars, lostVars>>

(* Mutation: xlmAmount is ignored. *)
AlwaysSwap(s) == IF s \in Usdc THEN "swap" ELSE "create"

(* A USDC deposit whose xlmAmount is set resumes at the mint. *)
AfterLoad(s) == IF s \in xlmRecorded THEN "create" ELSE "swap"

(* findUnique, outside the try: an error leaves the row in "processing". *)
Load(w, o) ==
    /\ pc[w] = "load"
    /\ o # "late"
    /\ Answers("db", o)
    /\ Goto(w, IF o = "ok" THEN AfterLoad(job[w]) ELSE "nack")
    /\ UNCHANGED <<status, xlmRecorded, intakeVars, queueVars, slotVars, row, booked,
                   chainVars, lostVars>>

(* swapUsdcToXlm: a path payment on the DEX. *)
SwapUsdcToXlm(w, o) ==
    /\ pc[w] = "swap"
    /\ Answers("chain", o)
    /\ swaps' = IF Applied(o) THEN Add(swaps, job[w]) ELSE swaps
    /\ lostSwaps' = IF o = "late" THEN Add(lostSwaps, job[w]) ELSE lostSwaps
    /\ Goto(w, IF o = "ok" THEN "persist" ELSE "release")
    /\ UNCHANGED <<status, xlmRecorded, intakeVars, queueVars, slotVars, row, booked,
                   mints, burns, lostMints>>

(* onRampSwap.update xlmAmount. *)
Persist(w, o) ==
    /\ pc[w] = "persist"
    /\ Answers("db", o)
    /\ xlmRecorded' = IF Applied(o) THEN xlmRecorded \cup {job[w]} ELSE xlmRecorded
    /\ lostSwaps' = IF Applied(o) THEN lostSwaps ELSE Add(lostSwaps, job[w])
    /\ Goto(w, IF o = "ok" THEN "create" ELSE "release")
    /\ UNCHANGED <<status, intakeVars, queueVars, slotVars, row, booked, chainVars, lostMints>>

(* mintFromUsdcInternal: transaction.create with status pending. *)
RowAtCreate == "pending"

CreateRow(w, o) ==
    /\ pc[w] = "create"
    /\ Answers("db", o)
    /\ IF Applied(o) THEN SetRow(w, RowAtCreate) ELSE UNCHANGED <<row, booked>>
    /\ Goto(w, IF o = "ok" THEN "invoke" ELSE "release")
    /\ UNCHANGED <<status, xlmRecorded, intakeVars, queueVars, slotVars, chainVars, lostVars>>

(* acbuMintingService.mintFromUsdc.  A missing contract address or key takes *)
(* the "lost" branch: nothing reaches the chain and the row is marked failed.*)
Invoke(w, o) ==
    /\ pc[w] = "invoke"
    /\ Answers("chain", o)
    /\ mints' = IF Applied(o) THEN Add(mints, job[w]) ELSE mints
    /\ lostMints' = IF o = "late" THEN Add(lostMints, job[w]) ELSE lostMints
    /\ Goto(w, IF o = "ok" THEN "record" ELSE "markFailed")
    /\ UNCHANGED <<status, xlmRecorded, intakeVars, queueVars, slotVars, row, booked,
                   swaps, burns, lostSwaps>>

(* transaction.update to completed; its error starts the compensation. *)
Record(w, o) ==
    /\ pc[w] = "record"
    /\ Answers("db", o)
    /\ IF Applied(o) THEN SetRow(w, "completed") ELSE UNCHANGED <<row, booked>>
    /\ Goto(w, IF o = "ok" THEN "complete" ELSE "compensate")
    /\ UNCHANGED <<status, xlmRecorded, intakeVars, queueVars, slotVars, chainVars, lostVars>>

(* acbuBurningService.redeemSingle from the backend's own account; its error *)
(* is only logged.                                                           *)
Compensate(w, o) ==
    /\ pc[w] = "compensate"
    /\ Answers("chain", o)
    /\ burns' = IF Applied(o) THEN Add(burns, job[w]) ELSE burns
    /\ Goto(w, "recordAgain")
    /\ UNCHANGED <<status, xlmRecorded, intakeVars, queueVars, slotVars, row, booked,
                   swaps, mints, lostVars>>

(* The second transaction.update to completed, marking the row for review. *)
RecordAgain(w, o) ==
    /\ pc[w] = "recordAgain"
    /\ Answers("db", o)
    /\ IF Applied(o) THEN SetRow(w, "completed") ELSE UNCHANGED <<row, booked>>
    /\ lostMints' = IF o = "ok" THEN lostMints ELSE Add(lostMints, job[w])
    /\ Goto(w, IF o = "ok" THEN "complete" ELSE "markFailed")
    /\ UNCHANGED <<status, xlmRecorded, intakeVars, queueVars, slotVars, chainVars, lostSwaps>>

(* The outer catch of mintFromUsdcInternal: the row is failed, whatever it was. *)
MarkFailed(w, o) ==
    /\ pc[w] = "markFailed"
    /\ Answers("db", o)
    /\ IF Applied(o) THEN SetRow(w, "failed") ELSE UNCHANGED <<row, booked>>
    /\ Goto(w, "release")
    /\ UNCHANGED <<status, xlmRecorded, intakeVars, queueVars, slotVars, chainVars, lostVars>>

(* onRampSwap.update to completed. *)
Complete(w, o) ==
    /\ pc[w] = "complete"
    /\ Answers("db", o)
    /\ status' = IF Applied(o) THEN [status EXCEPT ![job[w]] = "completed"] ELSE status
    /\ lostMints' = IF Applied(o) THEN lostMints ELSE Add(lostMints, job[w])
    /\ row' = [row EXCEPT ![w] = "none"]
    /\ Goto(w, IF o = "ok" THEN "ack" ELSE "release")
    /\ UNCHANGED <<xlmRecorded, intakeVars, queueVars, slotVars, booked, chainVars, lostSwaps>>

(* finalAttempt: retries >= MAX_RETRIES - 1. *)
FinalAttempt(w) == retries[w] >= MaxRetries - 1

(* Mutation: every attempt hands the row back, also the final one. *)
AlwaysPending(w) == "pending_convert"

(* The catch of the process functions.  The USDC job hands the row back unless *)
(* this is its final attempt; the XLM job always marks it failed.  The update  *)
(* is by id only: it also overwrites "completed".                              *)
ReleaseStatus(w) ==
    IF job[w] \in Usdc /\ ~FinalAttempt(w) THEN "pending_convert" ELSE "failed"

Release(w, o) ==
    /\ pc[w] = "release"
    /\ Answers("db", o)
    /\ status' = IF Applied(o) THEN [status EXCEPT ![job[w]] = ReleaseStatus(w)] ELSE status
    /\ lostMints' = IF Applied(o) /\ status[job[w]] = "completed"
                    THEN Add(lostMints, job[w]) ELSE lostMints
    /\ row' = [row EXCEPT ![w] = "none"]
    /\ Goto(w, "nack")
    /\ UNCHANGED <<xlmRecorded, intakeVars, queueVars, slotVars, booked, chainVars, lostSwaps>>

(* The slot is free again. *)
Free(w) ==
    /\ Goto(w, "idle")
    /\ job' = [job EXCEPT ![w] = NoSwap]
    /\ retries' = [retries EXCEPT ![w] = 0]

(* The broker takes an unsettled delivery back. *)
Requeued(w) ==
    IF pc[w] # "idle" /\ w \in attached THEN Put(queued, job[w], retries[w]) ELSE queued

(* ch.ack(msg); on a closed channel it does nothing, the broker has requeued. *)
Ack(w) ==
    /\ pc[w] = "ack"
    /\ Free(w)
    /\ UNCHANGED <<status, xlmRecorded, intakeVars, queueVars, attached, row, booked,
                   chainVars, lostVars, faults>>

(* The consumer's catch: reject once retries are used up, else publish a copy  *)
(* with x-retries + 1 and ack.  The publish is not confirmed: "lost" loses it, *)
(* "late" keeps both (the ack does not arrive).  On a closed channel it throws.*)
Nack(w, o) ==
    /\ pc[w] = "nack"
    /\ LET s == job[w]
           r == retries[w]
       IN \/ /\ w \notin attached /\ o = "ok"
             /\ UNCHANGED <<queueVars, faults>>
          \/ /\ w \in attached /\ r >= MaxRetries /\ o = "ok"
             /\ dead' = Add(dead, s)
             /\ UNCHANGED <<queued, faults>>
          \/ /\ w \in attached /\ r < MaxRetries
             /\ Answers("broker", o)
             /\ queued' = CASE o = "ok"   -> Put(queued, s, r + 1)
                            [] o = "lost" -> queued
                            [] o = "late" -> Put(Put(queued, s, r + 1), s, r)
             /\ UNCHANGED dead
    /\ Free(w)
    /\ UNCHANGED <<status, xlmRecorded, intakeVars, attached, row, booked, chainVars, lostVars>>

-----------------------------------------------------------------------------
(* The connection closes; the handler keeps running, and nothing consumes on *)
(* this process again until it restarts.                                     *)
Detach(w) ==
    /\ w \in attached
    /\ Fault("channel", "lost")
    /\ queued' = Requeued(w)
    /\ attached' = attached \ {w}
    /\ UNCHANGED <<status, xlmRecorded, intakeVars, dead, pc, job, retries, row, booked,
                   chainVars, lostVars>>

(* The process dies and restarts: what only its memory knew is lost. *)
Crash(w) ==
    /\ Fault("process", "lost")
    /\ queued' = Requeued(w)
    /\ lostMints' = IF pc[w] \in Minting THEN Add(lostMints, job[w]) ELSE lostMints
    /\ lostSwaps' = IF pc[w] = "persist" THEN Add(lostSwaps, job[w]) ELSE lostSwaps
    /\ attached' = attached \cup {w}
    /\ row' = [row EXCEPT ![w] = "none"]
    /\ Free(w)
    /\ UNCHANGED <<status, xlmRecorded, intakeVars, dead, booked, chainVars>>

-----------------------------------------------------------------------------
Intake(s) == Create(s) \/ Replay(s) \/ \E o \in Outcomes : Enqueue(s, o)

(* One step of the handler that runs in slot w. *)
Handle(w) ==
    \/ Ack(w)
    \/ \E o \in Outcomes :
          \/ Claim(w, o)       \/ Load(w, o)     \/ SwapUsdcToXlm(w, o)
          \/ Persist(w, o)     \/ CreateRow(w, o) \/ Invoke(w, o)
          \/ Record(w, o)      \/ Compensate(w, o)
          \/ RecordAgain(w, o) \/ MarkFailed(w, o)
          \/ Complete(w, o)    \/ Release(w, o)  \/ Nack(w, o)

Consume(w) == \E s \in Swap, r \in 0..MaxRetries : Deliver(w, s, r)

Next ==
    \/ \E s \in Swap : Intake(s)
    \/ \E w \in Worker : Consume(w) \/ Handle(w) \/ Detach(w) \/ Crash(w)

Spec == Init /\ [][Next]_vars

(* A request handler and a message handler that started run to their end, and *)
(* the broker delivers to an idle consumer.                                   *)
Fairness ==
    /\ \A s \in Swap : WF_vars(\E o \in Outcomes : Enqueue(s, o))
    /\ \A w \in Worker : WF_vars(Handle(w)) /\ WF_vars(Consume(w))

FairSpec == Spec /\ Fairness

-----------------------------------------------------------------------------
(* Properties. *)

Holds(w, s, steps) == job[w] = s /\ pc[w] \in steps
Held(s, steps) == \E w \in Worker : Holds(w, s, steps)
FaultFree(kinds) == \A f \in Faults : f[1] \notin kinds
NoLateChain == <<"chain", "late">> \notin Faults

(* The updateMany claim gives a row to one handler at a time, also while the *)
(* broker redelivers its message to another consumer.                        *)
ClaimExclusion ==
    \A v, w \in Worker : v # w /\ pc[v] \in Claiming /\ pc[w] \in Claiming => job[v] # job[w]

(* "Minting is only triggered once the on-chain swap transaction is confirmed": *)
(* no ACBU exists for a USDC deposit whose DEX swap is not on chain and         *)
(* recorded in xlmAmount, over any number of attempts.                          *)
MintAfterSwap ==
    \A s \in Usdc : mints[s] > 0 => s \in xlmRecorded /\ swaps[s] > 0

(* Every mint of a deposit is the one its completed row stands for, is in the *)
(* hands of the handler that claimed the row, or is one whose record an error *)
(* or a crash destroyed: a retry repeats the mint only in the last case.      *)
MintAccounting ==
    \A s \in Swap : mints[s] = lostMints[s] + One(status[s] = "completed")
                                + One(Held(s, Minting))

(* The same for the DEX swap of a USDC deposit and its xlmAmount. *)
SwapAccounting ==
    \A s \in Usdc : swaps[s] = lostSwaps[s] + One(s \in xlmRecorded)
                                + One(Held(s, {"persist"}))

(* As long as the database and the processes stay up and the chain gives clear *)
(* answers, a deposit is swapped and minted at most once, whatever the broker  *)
(* loses, duplicates or redelivers and however often the chain refuses.        *)
ExactlyOnce ==
    FaultFree({"db", "process"}) /\ NoLateChain =>
        \A s \in Swap : mints[s] <= 1 /\ swaps[s] <= 1

(* The books never claim more than the chain: completed Transaction rows are   *)
(* backed one by one by mints, and a completed deposit has such a row.         *)
RowsBacked ==
    \A s \in Swap : /\ booked[s] <= mints[s]
                    /\ status[s] = "completed" => booked[s] > 0

(* "failed" is final, and so is "completed" as long as no committed write is *)
(* reported as an error (the release in the catch is by id only).            *)
KeepsTerminal ==
    \A s \in Swap :
        /\ status[s] = "failed" => status'[s] = "failed"
        /\ status[s] = "completed" /\ <<"db", "late">> \notin Faults
              => status'[s] = "completed"
TerminalStable == [][KeepsTerminal]_vars

(* With fair handlers every deposit whose request finished reaches a terminal *)
(* status, however often the chain refuses.                                   *)
DepositsSettle ==
    \A s \in Swap : intake[s] = "enqueue" ~> status[s] \in {"completed", "failed"}

(* The row as the client sees it: between its creation and its end it is open. *)
Stage == [s \in Swap |-> IF status[s] \in {"pending_convert", "processing"} THEN "open" ELSE status[s]]

(* The on-ramp implements Deposit: behind its rows, queues, claims and retries  *)
(* every step is a step of the abstract deposit or changes nothing of it.  It   *)
(* holds where ExactlyOnce does.                                                *)
D == INSTANCE Deposit WITH stage <- Stage
ImplementsDeposit == D!DepositSpec
=============================================================================
