----------------------------- MODULE ChainCalls -----------------------------
(***************************************************************************)
(* services/stellar/contractClient.ts and client.ts: how one operation of  *)
(* the platform's account reaches the ledger, and services/fiat, whose     *)
(* Transaction rows follow it.  All calls are signed by one account: each  *)
(* loads its sequence number, signs with the next one and submits.  A      *)
(* contract call (mint_from_demo_fiat, admin_drip_demo_fiat) is simulated, *)
(* sent up to three times as the same signed transaction and polled until  *)
(* it is found or 120 s have passed; a classic one is built and submitted  *)
(* again when the answer says tx_bad_seq.  No transaction has a time       *)
(* bound, so one that was given up on may still be applied.  The ledger is *)
(* external: it applies a transaction once, with the next number only.     *)
(***************************************************************************)
EXTENDS Naturals

CONSTANTS
    Call,         \* operations asked for
    MaxSends,     \* 3, of sendTransaction in _invokeContractInner
    MaxRounds,    \* maxAttempts of buildAndSubmitTransaction
    MaxLosses     \* bound: failed reads and writes, lost calls and deaths

ASSUME ChainCallsAssumption == MaxSends \in Nat \ {0} /\ MaxRounds \in Nat \ {0} /\ MaxLosses \in Nat

VARIABLES
    callKind,   \* "mint" and "drip" call a contract, "classic" submits to Horizon
    cpc,        \* where each call is
    number,     \* the sequence number each call signed last, 0 for none
    sends, rounds,
    record,     \* the Transaction row of each call
    sequence,   \* the account's sequence number on the ledger
    mempool,    \* transactions <<call, number>> the network may still apply
    ledger,     \* transactions that were applied: <<call, number, succeeded>>
    losses,
    givenUp,    \* calls that ended without a result they could read of a transaction they had sent
    unwritten   \* calls whose row was not written when it should have been

network == <<sequence, mempool, ledger>>
marks   == <<givenUp, unwritten>>
chainVars == <<callKind, cpc, number, sends, rounds, record, network, losses, marks>>

Executed(c) == {t \in ledger : t[1] = c /\ t[3]}
Numbers == 0 .. sequence + 1
Places == {"new", "load", "simulate", "send", "poll", "await", "ok", "error", "done", "dead"}

ChainCallsTypeOK ==
    /\ callKind \in [Call -> {"mint", "drip", "classic"}] /\ cpc \in [Call -> Places]
    /\ number \in [Call -> Numbers] /\ sends \in [Call -> 0 .. MaxSends] /\ rounds \in [Call -> 0 .. MaxRounds]
    /\ record \in [Call -> {"none", "pending", "completed", "failed"}]
    /\ mempool \subseteq Call \X {sequence + 1} /\ ledger \subseteq Call \X (1 .. sequence) \X BOOLEAN
    /\ losses \in 0 .. MaxLosses /\ givenUp \subseteq Call /\ unwritten \subseteq Call

ChainCallsInit ==
    /\ callKind \in [Call -> {"mint", "drip", "classic"}] /\ cpc = [c \in Call |-> "new"]
    /\ number = [c \in Call |-> 0] /\ sends = [c \in Call |-> 0] /\ rounds = [c \in Call |-> 0]
    /\ record = [c \in Call |-> "none"]
    /\ sequence = 0 /\ mempool = {} /\ ledger = {}
    /\ losses = 0 /\ givenUp = {} /\ unwritten = {}

Moves(c, from, to) == cpc[c] = from /\ cpc' = [cpc EXCEPT ![c] = to]
Loses == losses < MaxLosses /\ losses' = losses + 1

(* simulateOnRamp creates its row before the call; the others have none yet. *)
BeginCall(c) ==
    /\ Moves(c, "new", "load")
    /\ record' = [record EXCEPT ![c] = IF callKind[c] = "mint" THEN "pending" ELSE "none"]
    /\ UNCHANGED <<callKind, number, sends, rounds, network, losses, marks>>

(* getAccount with its retries behind the circuit breaker; the transaction is *)
(* built with the next number.                                                *)
getAccount(c) ==
    /\ \/ /\ Moves(c, "load", IF callKind[c] = "classic" THEN "send" ELSE "simulate")
          /\ number' = [number EXCEPT ![c] = sequence + 1] /\ UNCHANGED losses
       \/ Moves(c, "load", "error") /\ Loses /\ UNCHANGED number
    /\ UNCHANGED <<callKind, sends, rounds, record, network, marks>>

(* simulateTransactionWithRetry, assembleTransaction, the fee cap and the signature. *)
simulateTransactionWithRetry(c) ==
    /\ Moves(c, "simulate", "send") \/ Moves(c, "simulate", "error")
    /\ UNCHANGED <<callKind, number, sends, rounds, record, network, losses, marks>>

(* The network takes a transaction that carries the next number. *)
Taken(c) == IF number[c] = sequence + 1 THEN mempool \cup {<<c, number[c]>>} ELSE mempool

(* sendTransaction: answered with a hash, whatever status comes with it; or an  *)
(* error of the connection, before or after the transaction arrived, after which *)
(* the same signed transaction is sent again.                                   *)
sendTransaction(c) ==
    /\ callKind[c] # "classic" /\ cpc[c] = "send"
    /\ \/ Moves(c, "send", "poll") /\ mempool' = Taken(c) /\ UNCHANGED <<sends, losses, givenUp>>
       \/ /\ Loses /\ mempool' \in {mempool, Taken(c)}
          /\ sends' = [sends EXCEPT ![c] = @ + 1]
          /\ \/ sends'[c] < MaxSends /\ UNCHANGED <<cpc, givenUp>>
             \/ sends'[c] = MaxSends /\ Moves(c, "send", "error") /\ givenUp' = givenUp \cup {c}
    /\ UNCHANGED <<callKind, number, rounds, record, sequence, ledger, unwritten>>

(* The poll: found; or not found for 120 s, or unreachable that long, or found    *)
(* with a result that parseTransactionResult cannot read, which says as little.   *)
getTransaction(c) ==
    /\ cpc[c] = "poll"
    /\ \/ \E t \in ledger : /\ t[1] = c /\ t[2] = number[c]
                            /\ Moves(c, "poll", IF t[3] THEN "ok" ELSE "error") /\ UNCHANGED givenUp
       \/ Moves(c, "poll", "error") /\ givenUp' = givenUp \cup {c}
    /\ UNCHANGED <<callKind, number, sends, rounds, record, network, losses, unwritten>>

-----------------------------------------------------------------------------
(* Horizon's submitTransaction holds the answer back until the result is known. *)
submitTransaction(c) ==
    /\ callKind[c] = "classic" /\ Moves(c, "send", "await")
    /\ mempool' = Taken(c)
    /\ UNCHANGED <<callKind, number, sends, rounds, record, sequence, ledger, losses, marks>>

(* tx_bad_seq: the transaction has a number that is used up. *)
BadSeq(c) == number[c] <= sequence /\ \A t \in ledger : ~(t[1] = c /\ t[2] = number[c])

(* Mutation: any error but a result is tried again. *)
RetriesUnanswered(c) == \A t \in ledger : ~(t[1] = c /\ t[2] = number[c])

Retriable(c) == BadSeq(c)

(* buildAndSubmitTransaction: a result, a tx_bad_seq that the error names where it *)
(* is looked for, or any other error (tx_bad_seq elsewhere, a timeout).            *)
buildAndSubmitTransaction(c) ==
    /\ cpc[c] = "await"
    /\ \/ \E t \in ledger : /\ t[1] = c /\ t[2] = number[c]
                            /\ Moves(c, "await", IF t[3] THEN "ok" ELSE "error") /\ UNCHANGED <<rounds, givenUp>>
       \/ /\ Retriable(c) /\ rounds[c] + 1 < MaxRounds
          /\ rounds' = [rounds EXCEPT ![c] = @ + 1] /\ Moves(c, "await", "load") /\ UNCHANGED givenUp
       \/ Moves(c, "await", "error") /\ givenUp' = givenUp \cup {c} /\ UNCHANGED rounds
    /\ UNCHANGED <<callKind, number, sends, record, network, losses, unwritten>>

-----------------------------------------------------------------------------
(* Mutation: a call that ended in an error completes its row too. *)
CompletesAny(c) == "completed"

RecordAfter(c) == IF cpc[c] = "ok" THEN "completed" ELSE "failed"

(* simulateOnRamp: the row is completed after the call, or failed in the catch;  *)
(* a completed write that fails runs the catch, a failed one leaves the row.     *)
simulateOnRamp(c) ==
    /\ callKind[c] = "mint" /\ cpc[c] \in {"ok", "error"}
    /\ \/ record' = [record EXCEPT ![c] = RecordAfter(c)] /\ Moves(c, cpc[c], "done") /\ UNCHANGED <<losses, unwritten>>
       \/ /\ Loses /\ unwritten' = unwritten \cup {c}
          /\ Moves(c, cpc[c], IF cpc[c] = "ok" THEN "error" ELSE "done")
          /\ record' \in {record, [record EXCEPT ![c] = RecordAfter(c)]}
    /\ UNCHANGED <<callKind, number, sends, rounds, network, givenUp>>

(* requestFaucet writes its row after the drip, and goes on when it cannot; a *)
(* classic operation has no row.                                              *)
requestFaucet(c) ==
    /\ callKind[c] # "mint" /\ cpc[c] \in {"ok", "error"}
    /\ Moves(c, cpc[c], "done")
    /\ \/ /\ record' = [record EXCEPT ![c] = IF callKind[c] = "drip" /\ cpc[c] = "ok" THEN "completed" ELSE "none"]
          /\ UNCHANGED <<losses, unwritten>>
       \/ callKind[c] = "drip" /\ cpc[c] = "ok" /\ Loses /\ unwritten' = unwritten \cup {c} /\ UNCHANGED record
    /\ UNCHANGED <<callKind, number, sends, rounds, network, givenUp>>

(* The process dies with the call in flight. *)
CallDies(c) ==
    /\ cpc[c] \notin {"new", "done", "dead"} /\ Loses
    /\ cpc' = [cpc EXCEPT ![c] = "dead"] /\ unwritten' = unwritten \cup {c}
    /\ UNCHANGED <<callKind, number, sends, rounds, record, network, givenUp>>

(* The ledger closes with a transaction, which succeeds or fails and uses up its *)
(* number; those with the same number can never be applied.                      *)
Apply(t) ==
    /\ t \in mempool
    /\ sequence' = sequence + 1 /\ mempool' = {}
    /\ \E succeeds \in BOOLEAN : ledger' = ledger \cup {<<t[1], t[2], succeeds>>}
    /\ UNCHANGED <<callKind, cpc, number, sends, rounds, record, losses, marks>>

(* The network forgets a transaction. *)
Evict(t) ==
    /\ t \in mempool /\ mempool' = mempool \ {t}
    /\ UNCHANGED <<callKind, cpc, number, sends, rounds, record, sequence, ledger, losses, marks>>

ChainCallsNext ==
    \/ \E c \in Call :
          \/ BeginCall(c) \/ getAccount(c) \/ simulateTransactionWithRetry(c) \/ sendTransaction(c)
          \/ getTransaction(c) \/ submitTransaction(c) \/ buildAndSubmitTransaction(c)
          \/ simulateOnRamp(c) \/ requestFaucet(c) \/ CallDies(c)
    \/ \E t \in mempool : Apply(t) \/ Evict(t)

ChainCallsSpec == ChainCallsInit /\ [][ChainCallsNext]_chainVars

-----------------------------------------------------------------------------
(* Whatever is sent, resent or built again, the operation of one call takes effect *)
(* at most once, also when the network applies it after the call has ended.  A     *)
(* completed row stands for an operation on the ledger; a failed one for none, now *)
(* and later, unless the call gave up on a transaction it had sent, could not read *)
(* its result, or a write of the row failed.                                       *)
CallsAccounted ==
    /\ ChainCallsTypeOK
    /\ \A c \in Call :
           /\ \A t, u \in Executed(c) : t = u
           /\ record[c] = "completed" => Executed(c) # {}
           /\ record[c] = "failed" /\ c \notin givenUp \cup unwritten =>
                 Executed(c) = {} /\ <<c, number[c]>> \notin mempool
=============================================================================
