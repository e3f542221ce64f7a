----------------------------- MODULE BasketMint -----------------------------
(***************************************************************************)
(* Minting from a basket-currency deposit: POST /v1/mint/deposit creates   *)
(* the Transaction row and mints at once; POST /v1/mint/confirm lets a     *)
(* partner confirm a pending row, and mints too.  Both update the row by   *)
(* id, whatever its status has become since they read it.                  *)
(***************************************************************************)
EXTENDS Naturals, FiniteSets

CONSTANTS
    Tx,          \* Transaction rows, one per idempotency key
    Deposits,    \* deposit requests
    Confirms,    \* confirmation requests
    NoTx,
    Faults,      \* kinds of fault: "db", "chain", "late", "audit", "process"
    MaxFaults    \* bound: how many of them

Handler == Deposits \cup Confirms

ASSUME BasketAssumption ==
    /\ Deposits \cap Confirms = {}
    /\ NoTx \notin Tx
    /\ Faults \subseteq {"db", "chain", "late", "audit", "process"}
    /\ MaxFaults \in Nat

VARIABLES
    status,   \* Transaction.status, "none" before the row exists
    paused,   \* isMintingPaused(): the reserve ratio is below 102%
    pc, tx,   \* of a request: next step, its row
    minted,   \* requests whose mint took effect on chain
    lost,     \* history: rows of a request that lost a database call or died
    faults

faultVars == <<lost, faults>>
vars == <<status, paused, pc, tx, minted, faultVars>>

Statuses == {"none", "pending", "processing", "completed", "failed"}
Steps == {"new", "paused", "find", "create", "claim", "invoke", "complete", "audit",
          "svcFail", "fail", "done"}

TypeOK ==
    /\ status \in [Tx -> Statuses]
    /\ paused \in BOOLEAN
    /\ pc \in [Handler -> Steps]
    /\ tx \in [Handler -> Tx \cup {NoTx}]
    /\ minted \subseteq Handler
    /\ lost \subseteq Tx
    /\ faults \in 0..MaxFaults

Init ==
    /\ status = [t \in Tx |-> "none"]
    /\ paused = FALSE
    /\ pc = [h \in Handler |-> "new"]
    /\ tx = [h \in Handler |-> NoTx]
    /\ minted = {}
    /\ lost = {}
    /\ faults = 0

-----------------------------------------------------------------------------
Goto(h, step)    == pc' = [pc EXCEPT ![h] = step]
SetStatus(h, st) == status' = [status EXCEPT ![tx[h]] = st]

(* A fault hits a request, within the bound. *)
Fault(kind, h) ==
    /\ kind \in Faults
    /\ faults < MaxFaults
    /\ faults' = faults + 1
    /\ lost' = IF kind \in {"db", "process"} THEN lost \cup {tx[h]} ELSE lost

(* The reserve monitor changes what isMintingPaused answers. *)
TogglePause ==
    /\ paused' = ~paused
    /\ UNCHANGED <<status, pc, tx, minted, faultVars>>

(* A request for row t arrives.  A confirmation needs the row's id. *)
Arrive(h, t) ==
    /\ pc[h] = "new"
    /\ h \in Confirms => status[t] # "none"
    /\ tx' = [tx EXCEPT ![h] = t]
    /\ Goto(h, IF h \in Deposits THEN "paused" ELSE "find")
    /\ UNCHANGED <<status, paused, minted, faultVars>>

(* isMintingPaused: 503.  The limit check and the wallet lookups that follow *)
(* only end the request, like the pause.                                     *)
CheckPaused(h) ==
    /\ pc[h] = "paused"
    /\ \/ Goto(h, "done")
       \/ ~paused /\ Goto(h, IF h \in Deposits THEN "find" ELSE "claim")
    /\ UNCHANGED <<status, paused, tx, minted, faultVars>>

(* confirmMint: completed answers 200, anything else but pending 409. *)
Confirmable(st) == st = "pending"

(* findUnique: a deposit whose key is known answers 202. *)
Find(h) ==
    /\ pc[h] = "find"
    /\ \/ Goto(h, IF h \in Deposits
                  THEN IF status[tx[h]] = "none" THEN "create" ELSE "done"
                  ELSE IF Confirmable(status[tx[h]]) THEN "paused" ELSE "done")
          /\ UNCHANGED faultVars
       \/ Fault("db", h) /\ Goto(h, "done")
    /\ UNCHANGED <<status, paused, tx, minted>>

(* Mutation: the key is not unique, the loser of the race goes on. *)
CreateAnyway(h) ==
    /\ pc[h] = "create"
    /\ SetStatus(h, "pending") /\ Goto(h, "invoke") /\ UNCHANGED faultVars
    /\ UNCHANGED <<paused, tx, minted>>

(* transaction.create; a P2002 on the unique key answers 202 as well. *)
CreateTx(h) ==
    /\ pc[h] = "create"
    /\ \/ status[tx[h]] = "none" /\ SetStatus(h, "pending") /\ Goto(h, "invoke") /\ UNCHANGED faultVars
       \/ status[tx[h]] # "none" /\ Goto(h, "done") /\ UNCHANGED <<status, faultVars>>
       \/ Fault("db", h) /\ Goto(h, "done") /\ UNCHANGED status
    /\ UNCHANGED <<paused, tx, minted>>

(* Mutation: the confirmation writes its final status before the mint. *)
CompletesFirst(h) ==
    /\ pc[h] = "claim"
    /\ SetStatus(h, "completed") /\ Goto(h, "invoke") /\ UNCHANGED faultVars
    /\ UNCHANGED <<paused, tx, minted>>

(* confirmMint marks the row as processing, by id. *)
MarkProcessing(h) ==
    /\ pc[h] = "claim"
    /\ \/ SetStatus(h, "processing") /\ Goto(h, "invoke") /\ UNCHANGED faultVars
       \/ Fault("db", h) /\ Goto(h, "done") /\ UNCHANGED status
    /\ UNCHANGED <<paused, tx, minted>>

(* mintFromBasket.  An error before the call (conversion, missing key) skips *)
(* the service's own compensation; a timeout may have minted nevertheless.   *)
Invoke(h) ==
    /\ pc[h] = "invoke"
    /\ \/ Goto(h, "complete") /\ minted' = minted \cup {h} /\ UNCHANGED faultVars
       \/ Fault("chain", h) /\ (Goto(h, "svcFail") \/ Goto(h, "fail")) /\ UNCHANGED minted
       \/ Fault("late", h) /\ Goto(h, "svcFail") /\ minted' = minted \cup {h}
    /\ UNCHANGED <<status, paused, tx>>

Complete(h) ==
    /\ pc[h] = "complete"
    /\ \/ SetStatus(h, "completed") /\ Goto(h, "audit") /\ UNCHANGED faultVars
       \/ Fault("db", h) /\ Goto(h, "fail") /\ UNCHANGED status
    /\ UNCHANGED <<paused, tx, minted>>

(* logAudit: in confirmMint it is inside the try whose catch fails the row. *)
Audit(h) ==
    /\ pc[h] = "audit"
    /\ \/ Goto(h, "done") /\ UNCHANGED faultVars
       \/ Fault("audit", h) /\ Goto(h, IF h \in Deposits THEN "done" ELSE "fail")
    /\ UNCHANGED <<status, paused, tx, minted>>

(* acbuMintingService.markTransactionFailed; its error is swallowed. *)
ServiceFail(h) ==
    /\ pc[h] = "svcFail"
    /\ \/ SetStatus(h, "failed") /\ UNCHANGED faultVars
       \/ Fault("db", h) /\ UNCHANGED status
    /\ Goto(h, "fail")
    /\ UNCHANGED <<paused, tx, minted>>

(* The handler's own catch. *)
FailTx(h) ==
    /\ pc[h] = "fail"
    /\ \/ SetStatus(h, "failed") /\ UNCHANGED faultVars
       \/ Fault("db", h) /\ UNCHANGED status
    /\ Goto(h, "done")
    /\ UNCHANGED <<paused, tx, minted>>

(* The process dies: its requests end where they are. *)
Crash(h) ==
    /\ pc[h] \notin {"new", "done"}
    /\ Fault("process", h)
    /\ Goto(h, "done")
    /\ UNCHANGED <<status, paused, tx, minted>>

Handle(h) ==
    \/ CheckPaused(h) \/ Find(h) \/ CreateTx(h) \/ MarkProcessing(h) \/ Invoke(h)
    \/ Complete(h) \/ Audit(h) \/ ServiceFail(h) \/ FailTx(h)

Next ==
    \/ TogglePause
    \/ \E h \in Handler : Handle(h) \/ Crash(h) \/ \E t \in Tx : Arrive(h, t)

Spec == Init /\ [][Next]_vars

-----------------------------------------------------------------------------
Mints(t) == {h \in minted : tx[h] = t}

(* The deposit path alone mints at most once per idempotency key, whatever the *)
(* retries of the client, the P2002 race of two first requests and crashes; a  *)
(* row that says completed has ACBU on chain, under any overlap of a deposit   *)
(* and confirmations of the same row; and no row is left in "processing" by    *)
(* requests that have ended, unless one of them lost a database call or died.  *)
MintsAccounted ==
    TypeOK /\ \A t \in Tx :
        /\ Cardinality(Mints(t) \cap Deposits) <= 1
        /\ status[t] = "completed" => Mints(t) # {}
        /\ status[t] = "processing" /\ t \notin lost =>
              \E h \in Handler : tx[h] = t /\ pc[h] \in {"invoke", "complete", "audit", "svcFail", "fail"}

(* mintController.ts:877: "Mark as processing to prevent concurrent            *)
(* confirmations": of the confirmations of a row, one mints.                   *)
ConfirmedOnce == \A t \in Tx : Cardinality(Mints(t) \cap Confirms) <= 1
=============================================================================
