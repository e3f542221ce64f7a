--------------------------- MODULE UsdcConversion ---------------------------
(***************************************************************************)
(* jobs/usdcConversionJob.ts: a mint effect of the minting contract finds  *)
(* its Transaction row and publishes a USDC_CONVERSION message; the        *)
(* consumer claims the row (pending to processing), buys every currency of *)
(* the basket at a fintech provider, writes one reserve history row per    *)
(* purchase, and completes the row.  An error hands the claim back and     *)
(* publishes the message again; the purchases already made stay made.      *)
(***************************************************************************)
EXTENDS Naturals, FiniteSets, Sequences

CONSTANTS
    Tx,          \* mint Transaction rows that carry the hash of their mint
    Valid,       \* those whose effect has an amount that Decimal accepts
    Basket,      \* the currencies of calculateBasketDistribution, in order
    Worker, NoTx,
    MaxRetries,  \* getQueueMaxRetries(QUEUE)
    MaxEvents,   \* bound: mint effects of one row that listeners handle
    Faults,      \* kinds of fault: "db", "basket", "fx", "late", "channel", "process"
    MaxFaults    \* bound: how many of them

Currency == {Basket[i] : i \in DOMAIN Basket}

ASSUME ConversionAssumption ==
    /\ Valid \subseteq Tx /\ NoTx \notin Tx
    /\ Basket \in Seq(Currency) /\ Len(Basket) > 0
    /\ \A i, j \in DOMAIN Basket : Basket[i] = Basket[j] => i = j
    /\ MaxRetries \in Nat /\ MaxEvents \in Nat /\ MaxFaults \in Nat
    /\ Faults \subseteq {"db", "basket", "fx", "late", "channel", "process"}

VARIABLES
    status,     \* Transaction.status
    found,      \* mint handlers that found the row and did not publish yet
    events,     \* mint effects handled so far
    queued,     \* queued[t][r]: messages for t with x-retries = r
    pc, job, retries,  \* of a worker: next step, delivery, its x-retries
    next,       \* of a worker: the index in Basket of the purchase to come
    attached,   \* the workers whose channel is open
    bought,     \* bought[t][c]: purchases of c for t at a provider
    entries,    \* entries[t][c]: reserve history rows written for them
    skipped,    \* skipped[t]: the currencies whose purchase the last attempt gave up
    clouded,    \* history: rows that lost a database call, an answer or their handler
    faults

eventVars == <<found, events>>
slotVars  == <<job, retries, attached>>
bookVars  == <<bought, entries, skipped>>
faultVars == <<clouded, faults>>
vars == <<status, eventVars, queued, pc, slotVars, next, bookVars, faultVars>>

Steps   == {"idle", "claim", "basket", "buy", "record", "complete", "release", "ack", "nack"}
Claimed == {"basket", "buy", "record", "complete", "release"}

TypeOK ==
    /\ status \in [Tx -> {"pending", "processing", "completed"}]
    /\ found \in [Tx -> 0..MaxEvents] /\ events \in [Tx -> 0..MaxEvents]
    /\ queued \in [Tx -> [0..MaxRetries -> Nat]]
    /\ pc \in [Worker -> Steps]
    /\ job \in [Worker -> Tx \cup {NoTx}]
    /\ retries \in [Worker -> 0..MaxRetries]
    /\ next \in [Worker -> 1..(Len(Basket) + 1)]
    /\ attached \subseteq Worker
    /\ bought \in [Tx -> [Currency -> Nat]] /\ entries \in [Tx -> [Currency -> Nat]]
    /\ skipped \in [Tx -> SUBSET Currency]
    /\ clouded \subseteq Tx
    /\ faults \in 0..MaxFaults

Init ==
    /\ status = [t \in Tx |-> "pending"]
    /\ found = [t \in Tx |-> 0] /\ events = [t \in Tx |-> 0]
    /\ queued = [t \in Tx |-> [r \in 0..MaxRetries |-> 0]]
    /\ pc = [w \in Worker |-> "idle"]
    /\ job = [w \in Worker |-> NoTx]
    /\ retries = [w \in Worker |-> 0]
    /\ next = [w \in Worker |-> 1]
    /\ attached = Worker
    /\ bought = [t \in Tx |-> [c \in Currency |-> 0]]
    /\ entries = bought
    /\ skipped = [t \in Tx |-> {}]
    /\ clouded = {}
    /\ faults = 0

-----------------------------------------------------------------------------
Goto(w, step) == pc' = [pc EXCEPT ![w] = step]
Put(t, r)     == [queued EXCEPT ![t][r] = @ + 1]
Due(w)        == Basket[next[w]]
Free(w) ==
    /\ Goto(w, "idle")
    /\ job' = [job EXCEPT ![w] = NoTx]
    /\ retries' = [retries EXCEPT ![w] = 0]
    /\ next' = [next EXCEPT ![w] = 1]

(* The loop goes on with the next currency, or ends. *)
NextCurrency(w) ==
    /\ next' = [next EXCEPT ![w] = @ + 1]
    /\ Goto(w, IF next[w] < Len(Basket) THEN "buy" ELSE "complete")

(* A fault hits worker w, within the bound.  A basket or a provider that only *)
(* refuses, and a closed channel, leave no doubt about what was done.         *)
Fault(kind, w) ==
    /\ kind \in Faults
    /\ faults < MaxFaults
    /\ faults' = faults + 1
    /\ clouded' = IF kind \in {"basket", "fx", "channel"}
                  THEN clouded ELSE clouded \cup ({job[w]} \ {NoTx})

(* A call of this kind is applied and answered, lost, or applied and answered *)
(* with an error.                                                             *)
Call(kind, w, ok, applied) ==
    \/ ok /\ applied /\ UNCHANGED faultVars
    \/ ~ok /\ ~applied /\ Fault(kind, w)
    \/ ~ok /\ applied /\ kind \in Faults /\ Fault("late", w)

-----------------------------------------------------------------------------
(* startMintEventListener's handler: findTransactionByBlockchainHash wants a *)
(* pending or processing row, then the message is published.                 *)
MintEvent(t) ==
    /\ events[t] < MaxEvents
    /\ status[t] \in {"pending", "processing"}
    /\ events' = [events EXCEPT ![t] = @ + 1]
    /\ found' = [found EXCEPT ![t] = @ + 1]
    /\ UNCHANGED <<status, queued, pc, slotVars, next, bookVars, faultVars>>

enqueueUsdcConversion(t) ==
    /\ found[t] > 0
    /\ found' = [found EXCEPT ![t] = @ - 1]
    /\ queued' = Put(t, 0)
    /\ UNCHANGED <<status, events, pc, slotVars, next, bookVars, faultVars>>

-----------------------------------------------------------------------------
(* The consumer, one step per await. *)

Deliver(w, t, r) ==
    /\ pc[w] = "idle" /\ w \in attached
    /\ queued[t][r] > 0
    /\ queued' = [queued EXCEPT ![t][r] = @ - 1]
    /\ job' = [job EXCEPT ![w] = t]
    /\ retries' = [retries EXCEPT ![w] = r]
    /\ Goto(w, "claim")
    /\ UNCHANGED <<status, eventVars, attached, next, bookVars, faultVars>>

(* Mutation: the claim's where clause takes any row. *)
ClaimableAny(t) == TRUE

Claimable(t) == status[t] = "pending"

(* claimTransaction; its error leaves claimedTransactionId null. *)
claimTransaction(w) ==
    /\ pc[w] = "claim"
    /\ \E ok, applied \in BOOLEAN :
          /\ Call("db", w, ok, applied)
          /\ status' = IF applied /\ Claimable(job[w])
                       THEN [status EXCEPT ![job[w]] = "processing"] ELSE status
          /\ Goto(w, IF ~ok THEN "nack" ELSE IF Claimable(job[w]) THEN "basket" ELSE "ack")
    /\ UNCHANGED <<eventVars, queued, slotVars, next, bookVars>>

(* processUsdcConversion up to the loop.  An amount that Decimal refuses      *)
(* returns, and the message is acked with the row still in processing.        *)
(* getCurrentBasket throws on weights that do not sum to 100%.                *)
GetCurrentBasket(w) ==
    /\ pc[w] = "basket"
    /\ \/ /\ Goto(w, IF job[w] \in Valid THEN "buy" ELSE "ack")
          /\ skipped' = [skipped EXCEPT ![job[w]] = {}]
          /\ UNCHANGED faultVars
       \/ /\ job[w] \in Valid /\ Fault("basket", w)
          /\ Goto(w, "release")
          /\ UNCHANGED skipped
    /\ UNCHANGED <<status, eventVars, queued, slotVars, next, bought, entries>>

(* Mutation: the history row is written although the purchase failed. *)
BooksAnyway(ok) == "record"

(* Where the answer of convertCurrency leads: a failed purchase is skipped. *)
AfterPurchase(ok) == IF ok THEN "record" ELSE "skip"

(* getProvider and convertCurrency of the next currency. *)
ConvertCurrency(w) ==
    /\ pc[w] = "buy"
    /\ \E ok, applied \in BOOLEAN :
          /\ Call("fx", w, ok, applied)
          /\ bought' = IF applied THEN [bought EXCEPT ![job[w]][Due(w)] = @ + 1] ELSE bought
          /\ IF AfterPurchase(ok) = "record"
             THEN Goto(w, "record") /\ UNCHANGED <<next, skipped>>
             ELSE NextCurrency(w) /\ skipped' = [skipped EXCEPT ![job[w]] = @ \cup {Due(w)}]
    /\ UNCHANGED <<status, eventVars, queued, slotVars, entries>>

(* reserveHistory.create, without a transactionId. *)
Record(w) ==
    /\ pc[w] = "record"
    /\ \E ok, applied \in BOOLEAN :
          /\ Call("db", w, ok, applied)
          /\ entries' = IF applied THEN [entries EXCEPT ![job[w]][Due(w)] = @ + 1] ELSE entries
          /\ IF ok THEN NextCurrency(w) ELSE Goto(w, "release") /\ UNCHANGED next
    /\ UNCHANGED <<status, eventVars, queued, slotVars, bought, skipped>>

(* The status of a converted row. *)
Converted == "completed"

(* transaction.update to completed, by id. *)
Complete(w) ==
    /\ pc[w] = "complete"
    /\ \E ok, applied \in BOOLEAN :
          /\ Call("db", w, ok, applied)
          /\ status' = IF applied THEN [status EXCEPT ![job[w]] = Converted] ELSE status
          /\ Goto(w, IF ok THEN "ack" ELSE "release")
    /\ UNCHANGED <<eventVars, queued, slotVars, next, bookVars>>

(* releaseClaim only touches a row that is still in processing. *)
Releasable(t) == status[t] = "processing"

(* releaseClaim in the consumer's catch; its error is only logged. *)
releaseClaim(w) ==
    /\ pc[w] = "release"
    /\ \E ok, applied \in BOOLEAN :
          /\ Call("db", w, ok, applied)
          /\ status' = IF applied /\ Releasable(job[w])
                       THEN [status EXCEPT ![job[w]] = "pending"] ELSE status
    /\ Goto(w, "nack")
    /\ UNCHANGED <<eventVars, queued, slotVars, next, bookVars>>

Ack(w) ==
    /\ pc[w] = "ack"
    /\ Free(w)
    /\ UNCHANGED <<status, eventVars, queued, attached, bookVars, faultVars>>

(* Mutation: the failed message is dropped. *)
DropsMessage(w) == queued

(* Reject once retries are used up, else publish a copy with x-retries + 1 and *)
(* ack; on a closed channel both throw.                                        *)
Republished(w) ==
    IF w \in attached /\ retries[w] < MaxRetries THEN Put(job[w], retries[w] + 1) ELSE queued

Nack(w) ==
    /\ pc[w] = "nack"
    /\ queued' = Republished(w)
    /\ Free(w)
    /\ UNCHANGED <<status, eventVars, attached, bookVars, faultVars>>

-----------------------------------------------------------------------------
(* The broker takes an unsettled delivery back. *)
Requeued(w) == IF pc[w] # "idle" /\ w \in attached THEN Put(job[w], retries[w]) ELSE queued

(* The connection closes; the handler goes on, nothing consumes here again. *)
Detach(w) ==
    /\ w \in attached
    /\ Fault("channel", w)
    /\ queued' = Requeued(w)
    /\ attached' = attached \ {w}
    /\ UNCHANGED <<status, eventVars, pc, job, retries, next, bookVars>>

(* The process dies and restarts. *)
Crash(w) ==
    /\ Fault("process", w)
    /\ queued' = Requeued(w)
    /\ attached' = attached \cup {w}
    /\ Free(w)
    /\ UNCHANGED <<status, eventVars, bookVars>>

Consume(w) == \E t \in Tx, r \in 0..MaxRetries : Deliver(w, t, r)

Handle(w) ==
    \/ claimTransaction(w) \/ GetCurrentBasket(w) \/ ConvertCurrency(w) \/ Record(w)
    \/ Complete(w) \/ releaseClaim(w) \/ Ack(w) \/ Nack(w)

Next ==
    \/ \E t \in Tx : MintEvent(t) \/ enqueueUsdcConversion(t)
    \/ \E w \in Worker : Consume(w) \/ Handle(w) \/ Detach(w) \/ Crash(w)

Spec == Init /\ [][Next]_vars

(* Handlers that started run on, and the broker delivers to an idle consumer. *)
FairSpec ==
    /\ Spec
    /\ \A t \in Tx : WF_vars(enqueueUsdcConversion(t))
    /\ \A w \in Worker : WF_vars(Handle(w)) /\ WF_vars(Consume(w))

-----------------------------------------------------------------------------
(* usdcConversionJob.ts:282-284: "the reserve ledger must not move" for a        *)
(* purchase that did not happen: over all attempts no currency has more history *)
(* rows than purchases.  And a completed conversion bought and booked every      *)
(* currency of the basket, but those the attempt that completed it gave up.      *)
LedgerSound ==
    /\ TypeOK
    /\ \A t \in Tx, c \in Currency : entries[t][c] <= bought[t][c]
    /\ \A t \in Tx : status[t] = "completed" => \A c \in Currency \ skipped[t] : entries[t][c] > 0

(* No two handlers hold a row, whatever the broker redelivers and however claims *)
(* are handed back; and each currency is bought and booked at most once,         *)
(* whatever mint effects repeat, channels close and providers refuse, unless a   *)
(* database call, an answer or the handler of the row was lost.                  *)
ConvertedOnce ==
    /\ \A v, w \in Worker : v # w /\ pc[v] \in Claimed /\ pc[w] \in Claimed => job[v] # job[w]
    /\ \A t \in Tx \ clouded, c \in Currency : bought[t][c] <= 1 /\ entries[t][c] <= 1

(* A completed row stays completed: a handler's release never takes back what   *)
(* another write, or its own whose answer was lost, has completed.  And a mint  *)
(* whose effect was seen is converted in the end while the consumers are        *)
(* connected and no more attempts fail than there are retries, unless it lost a *)
(* database call, an answer or its handler: whatever befalls the other mints.   *)
ConversionsEnd ==
    /\ [][\A t \in Tx : status[t] = "completed" => status'[t] = "completed"]_vars
    /\ \A t \in Valid : found[t] > 0 ~>
          \/ status[t] = "completed"
          \/ t \in clouded \/ attached # Worker \/ faults > MaxRetries
=============================================================================
