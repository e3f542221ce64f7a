----------------------------- MODULE Withdrawal -----------------------------
(***************************************************************************)
(* Paying out burned ACBU: a burn effect of the burning contract finds its *)
(* Transaction row (type "burn") and publishes a WITHDRAWAL_PROCESSING     *)
(* message; the consumer checks the row, disburses through a fintech       *)
(* provider with one failover, completes the row and notifies the user.    *)
(* There is no claim: the row keeps its status until the payout returned.  *)
(* A worker is one consumer slot (prefetch is 1), one per process.         *)
(***************************************************************************)
EXTENDS Naturals, FiniteSets, Sequences, SequencesExt

CONSTANTS
    Tx,          \* the burn Transaction rows
    Provider,    \* registered fintech providers
    Fallback,    \* flutterwave
    Route,       \* currencyProviders: the priority order of a row's currency
    Worker, NoTx, NoProvider,
    MaxRetries,  \* getQueueMaxRetries(queue)
    MaxEvents,   \* bound: burn effects of a row that listeners handle
    Faults,      \* kinds of fault: "db", "provider", "channel", "process", and "late"
    MaxFaults    \* bound: how many of them

ASSUME WithdrawalAssumption ==
    /\ Fallback \in Provider
    /\ Route \in [Tx -> Seq(Provider)]
    /\ \A t \in Tx : Len(Route[t]) > 0
    /\ NoTx \notin Tx /\ NoProvider \notin Provider
    /\ MaxRetries \in Nat /\ MaxEvents \in [Tx -> Nat] /\ MaxFaults \in Nat
    /\ Faults \subseteq {"db", "provider", "late", "channel", "process"}

VARIABLES
    status,    \* Transaction.status
    valid,     \* the rows with currency, amount, account number and bank code
    recorded,  \* Transaction.fintechProvider
    found,     \* the burn handlers that found the row and did not publish yet
    events,    \* burn effects handled so far
    queued,    \* queued[t][r]: messages for t with x-retries = r
    pc, job, retries, provider,  \* of a worker: step, delivery, x-retries, used provider
    attached,  \* the workers whose channel is open
    paid,      \* paid[t][p]: payouts that provider p made for t
    notices,   \* NOTIFICATIONS: what users were told
    clouded,   \* history: rows in two hands at once, or with an unclear or cut off step
    faults

rowVars   == <<status, recorded, valid>>
eventVars == <<found, events>>
faultVars == <<clouded, faults>>
slotVars  == <<job, retries, attached>>
vars == <<rowVars, eventVars, queued, pc, slotVars, provider, paid, notices, faultVars>>

Statuses == {"pending", "completed", "failed"}
Steps == {"idle", "find", "reject", "disburse", "failover", "complete", "notify", "giveUp",
          "ack", "settle"}

TypeOK ==
    /\ status \in [Tx -> Statuses]
    /\ valid \subseteq Tx
    /\ recorded \in [Tx -> Provider \cup {NoProvider}]
    /\ found \in [Tx -> Nat]
    /\ events \in [Tx -> Nat]
    /\ queued \in [Tx -> [0..MaxRetries -> Nat]]
    /\ pc \in [Worker -> Steps]
    /\ job \in [Worker -> Tx \cup {NoTx}]
    /\ retries \in [Worker -> 0..MaxRetries]
    /\ provider \in [Worker -> Provider \cup {NoProvider}]
    /\ attached \subseteq Worker
    /\ paid \in [Tx -> [Provider -> Nat]]
    /\ notices \subseteq Tx \X {"completed", "failed"}
    /\ clouded \subseteq Tx
    /\ faults \in 0..MaxFaults

(* The rows exist; nothing in the backend but this pipeline changes them. *)
Init ==
    /\ status = [t \in Tx |-> "pending"]
    /\ valid \in SUBSET Tx
    /\ recorded = [t \in Tx |-> NoProvider]
    /\ found = [t \in Tx |-> 0]
    /\ events = [t \in Tx |-> 0]
    /\ queued = [t \in Tx |-> [r \in 0..MaxRetries |-> 0]]
    /\ pc = [w \in Worker |-> "idle"]
    /\ job = [w \in Worker |-> NoTx]
    /\ retries = [w \in Worker |-> 0]
    /\ provider = [w \in Worker |-> NoProvider]
    /\ attached = Worker
    /\ paid = [t \in Tx |-> [p \in Provider |-> 0]]
    /\ notices = {}
    /\ clouded = {}
    /\ faults = 0

-----------------------------------------------------------------------------
Goto(w, step) == pc' = [pc EXCEPT ![w] = step]
Put(t, r)     == [queued EXCEPT ![t][r] = @ + 1]
Pay(w, p)     == paid' = [paid EXCEPT ![job[w]][p] = @ + 1]
Free(w) ==
    /\ Goto(w, "idle")
    /\ job' = [job EXCEPT ![w] = NoTx]
    /\ retries' = [retries EXCEPT ![w] = 0]
    /\ provider' = [provider EXCEPT ![w] = NoProvider]

(* A fault hits worker w, within the bound.  Only a provider's refusal leaves *)
(* no doubt about what was done.                                              *)
Fault(kind, w) ==
    /\ kind \in Faults
    /\ faults < MaxFaults
    /\ faults' = faults + 1
    /\ clouded' = IF kind = "provider" THEN clouded ELSE clouded \cup ({job[w]} \ {NoTx})

(* A database write is applied and answered, lost, or applied and answered *)
(* with an error.                                                          *)
Writes(w, ok, applied) ==
    \/ ok /\ applied /\ UNCHANGED faultVars
    \/ ~ok /\ ~applied /\ Fault("db", w)
    \/ ~ok /\ applied /\ "db" \in Faults /\ Fault("late", w)

SetStatus(t, st, applied) == status' = IF applied THEN [status EXCEPT ![t] = st] ELSE status

-----------------------------------------------------------------------------
(* The burn event handler. *)

(* findTransactionByBlockchainHash: only a pending or processing row. *)
BurnEvent(t) ==
    /\ events[t] < MaxEvents[t]
    /\ status[t] = "pending"
    /\ events' = [events EXCEPT ![t] = @ + 1]
    /\ found' = [found EXCEPT ![t] = @ + 1]
    /\ UNCHANGED <<rowVars, queued, pc, slotVars, provider, paid, notices, faultVars>>

enqueueWithdrawalProcessing(t) ==
    /\ found[t] > 0
    /\ found' = [found EXCEPT ![t] = @ - 1]
    /\ queued' = Put(t, 0)
    /\ UNCHANGED <<rowVars, events, pc, slotVars, provider, paid, notices, faultVars>>

-----------------------------------------------------------------------------
(* The consumer, one step per await. *)

Deliver(w, t, r) ==
    /\ pc[w] = "idle" /\ w \in attached
    /\ queued[t][r] > 0
    /\ queued' = [queued EXCEPT ![t][r] = @ - 1]
    /\ job' = [job EXCEPT ![w] = t]
    /\ retries' = [retries EXCEPT ![w] = r]
    /\ Goto(w, "find")
    /\ clouded' = IF \E v \in Worker : job[v] = t THEN clouded \cup {t} ELSE clouded
    /\ UNCHANGED <<rowVars, eventVars, attached, provider, paid, notices, faults>>

(* Mutation: a row that failed is processed again. *)
FailedIsOpen(st) == st # "completed"

(* status processing or pending; nothing writes processing to a burn row. *)
Open(st) == st = "pending"

Find(w) ==
    /\ pc[w] = "find"
    /\ \/ /\ Goto(w, IF ~Open(status[job[w]]) THEN "ack"
                     ELSE IF job[w] \in valid THEN "disburse" ELSE "reject")
          /\ UNCHANGED faultVars
       \/ Fault("db", w) /\ Goto(w, "settle")
    /\ UNCHANGED <<rowVars, eventVars, queued, slotVars, provider, paid, notices>>

(* Missing currency, amount or recipient: failed at once. *)
Reject(w) ==
    /\ pc[w] = "reject"
    /\ \E ok, applied \in BOOLEAN :
          /\ Writes(w, ok, applied)
          /\ SetStatus(job[w], "failed", applied)
          /\ Goto(w, IF ok THEN "ack" ELSE "settle")
    /\ UNCHANGED <<recorded, valid, eventVars, queued, slotVars, provider, paid, notices>>

(* router.getProvider: the first healthy provider in priority order but `skip`; *)
(* without one, Fallback if the order does not name it, else an error.          *)
getProvider(t, skip, up) ==
    LET healthy == {i \in DOMAIN Route[t] : Route[t][i] # skip /\ Route[t][i] \in up}
    IN IF healthy # {} THEN Route[t][Min(healthy)]
       ELSE IF Fallback \notin Range(Route[t]) THEN Fallback ELSE NoProvider

getPreferredProviderId(t) == Head(Route[t])

(* Where an attempt that got an error goes: the catch's retry test. *)
AfterError(w) == IF retries[w] >= MaxRetries THEN "giveUp" ELSE "settle"

(* getProvider and disburseFunds; `next` is where an error goes.  The health *)
(* checks and the payout may each fail; a payout that failed may be "late".  *)
Disbursed(w, skip, next) ==
    /\ \/ /\ LET p == getProvider(job[w], skip, Provider)
             IN IF p = NoProvider
                THEN Goto(w, next) /\ UNCHANGED <<provider, paid, faultVars>>
                ELSE \/ /\ Pay(w, p) /\ Goto(w, "complete")
                        /\ provider' = [provider EXCEPT ![w] = p] /\ UNCHANGED faultVars
                     \/ /\ Fault("provider", w) /\ Goto(w, next) /\ UNCHANGED <<provider, paid>>
                     \/ /\ "provider" \in Faults /\ Fault("late", w)
                        /\ Pay(w, p) /\ Goto(w, next) /\ UNCHANGED provider
       \/ /\ Fault("provider", w)
          /\ \E up \in SUBSET Provider :
                LET p == getProvider(job[w], skip, up)
                IN IF p = NoProvider
                   THEN Goto(w, next) /\ UNCHANGED <<provider, paid>>
                   ELSE Pay(w, p) /\ Goto(w, "complete") /\ provider' = [provider EXCEPT ![w] = p]
    /\ UNCHANGED <<rowVars, eventVars, queued, slotVars, notices>>

(* Mutation: an error of the first provider counts as a payout. *)
AssumesPaid(w) ==
    /\ pc[w] = "disburse"
    /\ Disbursed(w, NoProvider, "complete")

Disburse(w) ==
    /\ pc[w] = "disburse"
    /\ Disbursed(w, NoProvider, "failover")

Failover(w) ==
    /\ pc[w] = "failover"
    /\ Disbursed(w, getPreferredProviderId(job[w]), AfterError(w))

(* transaction.update to completed, inside the same try as the payout. *)
Complete(w) ==
    /\ pc[w] = "complete"
    /\ \E ok, applied \in BOOLEAN :
          /\ Writes(w, ok, applied)
          /\ SetStatus(job[w], "completed", applied)
          /\ recorded' = IF applied THEN [recorded EXCEPT ![job[w]] = provider[w]] ELSE recorded
          /\ Goto(w, IF ok THEN "notify" ELSE AfterError(w))
    /\ UNCHANGED <<valid, eventVars, queued, slotVars, provider, paid, notices>>

(* publishWithdrawalNotification("completed"); its error is swallowed. *)
Notify(w) ==
    /\ pc[w] = "notify"
    /\ notices' = notices \cup {<<job[w], "completed">>}
    /\ Goto(w, "ack")
    /\ UNCHANGED <<rowVars, eventVars, queued, slotVars, provider, paid, faultVars>>

(* Mutation: the row of a withdrawal that failed for good keeps its status. *)
LeavesPending(w) ==
    /\ pc[w] = "giveUp"
    /\ Goto(w, "settle")
    /\ UNCHANGED <<rowVars, eventVars, queued, slotVars, provider, paid, notices, faultVars>>

(* Retries used up: the row is failed, by id, and the user told. *)
GiveUp(w) ==
    /\ pc[w] = "giveUp"
    /\ \E ok, applied \in BOOLEAN :
          /\ Writes(w, ok, applied)
          /\ SetStatus(job[w], "failed", applied)
          /\ notices' = IF ok THEN notices \cup {<<job[w], "failed">>} ELSE notices
    /\ Goto(w, "settle")
    /\ UNCHANGED <<recorded, valid, eventVars, queued, slotVars, provider, paid>>

Ack(w) ==
    /\ pc[w] = "ack"
    /\ Free(w)
    /\ UNCHANGED <<rowVars, eventVars, queued, attached, paid, notices, faultVars>>

(* The end of both catches: reject once retries are used up, else publish a    *)
(* copy with x-retries + 1 and ack.  A rejected message is gone: the queue is   *)
(* declared with arguments RabbitMQ has no meaning for.  On a closed channel    *)
(* both calls throw.                                                           *)
Settle(w) ==
    /\ pc[w] = "settle"
    /\ queued' = IF w \in attached /\ retries[w] < MaxRetries
                 THEN Put(job[w], retries[w] + 1) ELSE queued
    /\ Free(w)
    /\ UNCHANGED <<rowVars, eventVars, attached, paid, notices, faultVars>>

-----------------------------------------------------------------------------
(* The broker takes an unsettled delivery back. *)
Requeued(w) == IF pc[w] # "idle" /\ w \in attached THEN Put(job[w], retries[w]) ELSE queued

(* The connection closes; the handler goes on, nothing consumes here again. *)
Detach(w) ==
    /\ w \in attached
    /\ Fault("channel", w)
    /\ queued' = Requeued(w)
    /\ attached' = attached \ {w}
    /\ UNCHANGED <<rowVars, eventVars, pc, job, retries, provider, paid, notices>>

(* The process dies and restarts. *)
Crash(w) ==
    /\ Fault("process", w)
    /\ queued' = Requeued(w)
    /\ attached' = attached \cup {w}
    /\ Free(w)
    /\ UNCHANGED <<rowVars, eventVars, paid, notices>>

Consume(w) == \E t \in Tx, r \in 0..MaxRetries : Deliver(w, t, r)

Handle(w) ==
    \/ Find(w) \/ Reject(w) \/ Disburse(w) \/ Failover(w) \/ Complete(w) \/ Notify(w)
    \/ GiveUp(w) \/ Ack(w) \/ Settle(w)

Next ==
    \/ \E t \in Tx : BurnEvent(t) \/ enqueueWithdrawalProcessing(t)
    \/ \E w \in Worker : Consume(w) \/ Handle(w) \/ Detach(w) \/ Crash(w)

Spec == Init /\ [][Next]_vars

(* Handlers that started run on, and the broker delivers to an idle consumer. *)
Fairness ==
    /\ \A t \in Tx : WF_vars(enqueueWithdrawalProcessing(t))
    /\ \A w \in Worker : WF_vars(Handle(w)) /\ WF_vars(Consume(w))

FairSpec == Spec /\ Fairness

-----------------------------------------------------------------------------
Payouts(t) == {p \in Provider : paid[t][p] > 0}

(* A completed withdrawal was paid by the provider its row names, and a user   *)
(* who was told "completed" was paid, whatever the retries, failovers,         *)
(* overlapping consumers, lost writes and restarts.                            *)
CompletedIsPaid ==
    TypeOK /\ \A t \in Tx :
                  /\ status[t] = "completed" => recorded[t] \in Payouts(t)
                  /\ <<t, "completed">> \in notices => Payouts(t) # {}

(* A row is paid at most once, however many burn effects name it and however   *)
(* often providers refuse and the job is retried, unless two consumers had it   *)
(* at once or an answer about it was lost; nor is such a row paid if it failed, *)
(* or its user was told so, at any time.                                        *)
PaidOnceInSequence ==
    \A t \in Tx \ clouded :
        /\ Cardinality(Payouts(t)) <= 1
        /\ \A p \in Provider : paid[t][p] <= 1
        /\ status[t] = "failed" \/ <<t, "failed">> \in notices => Payouts(t) = {}

(* Every withdrawal whose burn was seen ends while a consumer is left, however  *)
(* often providers refuse and whatever befalls the other withdrawals.           *)
WithdrawalsEnd ==
    \A t \in Tx : found[t] > 0 ~>
        status[t] \in {"completed", "failed"} \/ t \in clouded \/ attached = {}
=============================================================================
