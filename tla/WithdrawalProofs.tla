--------------------------- MODULE WithdrawalProofs ---------------------------
(***************************************************************************)
(* The payouts of burned ACBU, for any rows, providers, routes, workers,   *)
(* retries and faults.  Nothing claims a row: what keeps a payout single   *)
(* is that a row without a cloud has one worker, and the order in which    *)
(* that worker pays, completes and fails it.                               *)
(***************************************************************************)
EXTENDS Withdrawal, FiniteSetTheorems, TLAPS

WorkersTyped ==
    /\ pc \in [Worker -> Steps] /\ job \in [Worker -> Tx \cup {NoTx}]
    /\ retries \in [Worker -> 0..MaxRetries]
    /\ provider \in [Worker -> Provider \cup {NoProvider}]
    /\ attached \subseteq Worker
RowsTyped ==
    /\ status \in [Tx -> Statuses] /\ valid \subseteq Tx
    /\ recorded \in [Tx -> Provider \cup {NoProvider}]
    /\ paid \in [Tx -> [Provider -> Nat]]
    /\ notices \subseteq Tx \X {"completed", "failed"}
MessagesTyped ==
    /\ found \in [Tx -> Nat] /\ events \in [Tx -> Nat]
    /\ queued \in [Tx -> [0..MaxRetries -> Nat]]
FaultsTyped == clouded \subseteq Tx /\ faults \in 0..MaxFaults

Typed == WorkersTyped /\ RowsTyped /\ MessagesTyped /\ FaultsTyped

Unpaid(t)   == \A p \in Provider : paid[t][p] = 0
OncePaid(t) == \E p \in Provider : paid[t][p] = 1 /\ \A q \in Provider \ {p} : paid[t][q] = 0

(* The steps before a payout of this attempt. *)
Unsettled == {"reject", "disburse", "failover", "giveUp"}

(* What a worker has done with its row when it is at a step; the last part is *)
(* about a row that is its own: it paid, and will complete what it paid.      *)
Placed(w) ==
    /\ pc[w] = "idle" => job[w] = NoTx
    /\ pc[w] # "idle" => job[w] \in Tx
    /\ pc[w] = "complete" => provider[w] \in Provider /\ paid[job[w]][provider[w]] > 0
    /\ pc[w] = "notify" => Payouts(job[w]) # {}
    /\ job[w] \notin clouded =>
          /\ pc[w] \in Unsettled => status[job[w]] = "pending" /\ Unpaid(job[w])
          /\ pc[w] = "complete" => status[job[w]] = "pending" /\ OncePaid(job[w])

Completing(t) == \E w \in Worker : job[w] = t /\ pc[w] = "complete"

RowSound(t) ==
    /\ status[t] = "completed" => recorded[t] \in Provider /\ paid[t][recorded[t]] > 0
    /\ <<t, "completed">> \in notices => Payouts(t) # {}
    /\ t \notin clouded =>
          /\ <<t, "failed">> \in notices => status[t] = "failed"
          /\ status[t] = "failed" => Unpaid(t)
          /\ status[t] = "completed" => OncePaid(t)
          /\ status[t] = "pending" /\ ~Completing(t) => Unpaid(t)

(* Only a row in two hands has a cloud for it: the others have one worker. *)
Alone(v, w) == v # w /\ job[v] = job[w] /\ job[v] # NoTx => job[v] \in clouded

Inv ==
    /\ Typed
    /\ \A w \in Worker : Placed(w)
    /\ \A v, w \in Worker : Alone(v, w)
    /\ \A t \in Tx : RowSound(t)

-----------------------------------------------------------------------------
LEMMA WithdrawalFacts ==
  /\ Fallback \in Provider /\ NoProvider \notin Provider /\ NoTx \notin Tx
  /\ \A t \in Tx : Route[t] \in Seq(Provider) /\ Len(Route[t]) \in Nat \ {0}
  /\ MaxRetries \in Nat /\ MaxFaults \in Nat /\ MaxEvents \in [Tx -> Nat]
  BY WithdrawalAssumption DEF WithdrawalAssumption

LEMMA TypedIsTypeOK == Typed => TypeOK
  BY DEF Typed, WorkersTyped, RowsTyped, MessagesTyped, FaultsTyped, TypeOK

(* One more at s and r, and nothing else. *)
LEMMA Bump ==
  ASSUME NEW S, NEW R, NEW f \in [S -> [R -> Nat]], NEW s \in S, NEW r \in R
  PROVE  /\ [f EXCEPT ![s][r] = @ + 1] \in [S -> [R -> Nat]]
         /\ \A x \in S \ {s} : [f EXCEPT ![s][r] = @ + 1][x] = f[x]
         /\ \A y \in R : [f EXCEPT ![s][r] = @ + 1][s][y] = IF y = r THEN f[s][y] + 1 ELSE f[s][y]
  OBVIOUS

LEMMA LeastNat ==
  ASSUME NEW T \in SUBSET Nat, T # {} PROVE \E x \in T : \A y \in T : x <= y
  <1>1. PICK x \in T : \A y \in T : <<y, x>> \notin OpToRel(<, Nat)
    BY WFMin, NatLessThanWellFounded, Zenon
  <1>2. \A y \in T : ~(y < x)
    BY <1>1 DEF OpToRel
  <1> QED BY <1>2

(* router.getProvider returns a registered provider or throws. *)
LEMMA ProviderFacts ==
  ASSUME NEW t \in Tx, NEW skip, NEW up PROVE getProvider(t, skip, up) \in Provider \cup {NoProvider}
  <1> DEFINE healthy == {i \in DOMAIN Route[t] : Route[t][i] # skip /\ Route[t][i] \in up}
  <1>1. healthy \subseteq DOMAIN Route[t] /\ DOMAIN Route[t] \subseteq Nat
        /\ \A i \in DOMAIN Route[t] : Route[t][i] \in Provider
    BY WithdrawalFacts
  <1>2. healthy # {} => Min(healthy) \in healthy
    <2> SUFFICES ASSUME healthy # {} PROVE Min(healthy) \in healthy
      OBVIOUS
    <2>1. \E x \in healthy : \A y \in healthy : x <= y
      BY <1>1, LeastNat
    <2> HIDE DEF healthy
    <2> QED BY <2>1 DEF Min
  <1>3. getProvider(t, skip, up) =
          IF healthy # {} THEN Route[t][Min(healthy)]
          ELSE IF Fallback \notin Range(Route[t]) THEN Fallback ELSE NoProvider
    BY DEF getProvider
  <1> HIDE DEF healthy
  <1> QED BY <1>1, <1>2, <1>3, WithdrawalFacts

LEMMA InitInv == Init => Inv
  <1> SUFFICES ASSUME Init PROVE Inv
    OBVIOUS
  <1> USE WithdrawalFacts DEF Init
  <1>1. Typed
    BY DEF Typed, WorkersTyped, RowsTyped, MessagesTyped, FaultsTyped, Steps, Statuses
  <1>2. \A v, w \in Worker : Placed(w) /\ Alone(v, w)
    BY DEF Placed, Alone, Unsettled
  <1>3. \A t \in Tx : RowSound(t)
    BY DEF RowSound, Unpaid
  <1> QED BY <1>1, <1>2, <1>3 DEF Inv

-----------------------------------------------------------------------------
RowUntouched(t) ==
    /\ status'[t] = status[t] /\ recorded'[t] = recorded[t] /\ paid'[t] = paid[t]
    /\ \A k \in {"completed", "failed"} : <<t, k>> \in notices' <=> <<t, k>> \in notices

(* Only worker w moves, only its row t changes, and no payout is taken back. *)
Only(w, t) ==
    /\ \A v \in Worker \ {w} : pc'[v] = pc[v] /\ job'[v] = job[v] /\ provider'[v] = provider[v]
    /\ \A u \in Tx : u # t => RowUntouched(u)
    /\ \A p \in Provider : paid[t][p] > 0 => paid'[t][p] > 0
    /\ clouded \subseteq clouded'
    /\ job'[w] \in {t, NoTx}

(* A row that is not touched, while nobody starts or stops completing it. *)
LEMMA UntouchedRow ==
  ASSUME NEW t \in Tx, RowSound(t), RowUntouched(t), clouded \subseteq clouded',
         Completing(t)' <=> Completing(t)
  PROVE  RowSound(t)'
  BY DEF RowSound, RowUntouched, Payouts, Unpaid, OncePaid

(* A worker that does not move while the row of another is changed. *)
LEMMA OtherWorker ==
  ASSUME NEW w \in Worker, NEW t \in Tx, Only(w, t), NEW v \in Worker \ {w}, Typed, Placed(v),
         job[v] = t => t \in clouded
  PROVE  Placed(v)'
  <1>1. pc'[v] = pc[v] /\ job'[v] = job[v] /\ provider'[v] = provider[v]
    BY DEF Only
  <1>2. CASE pc[v] = "idle"
    BY <1>1, <1>2 DEF Placed, Unsettled
  <1>3. CASE pc[v] # "idle"
    <2>1. PICK u \in Tx : u = job[v]
      BY <1>3 DEF Placed
    <2>2. \A p \in Provider : paid[u][p] > 0 => paid'[u][p] > 0
      BY <2>1 DEF Only, RowUntouched
    <2>3. Payouts(u) # {} => Payouts(u)' # {}
      BY <2>2 DEF Payouts
    <2>4. u \notin clouded' => RowUntouched(u) /\ u \notin clouded
      BY <2>1 DEF Only
    <2>5. u \notin clouded' => (Unpaid(u)' <=> Unpaid(u)) /\ (OncePaid(u)' <=> OncePaid(u)) /\ status'[u] = status[u]
      BY <2>4 DEF RowUntouched, Unpaid, OncePaid
    <2>6. pc[v] = "complete" => provider'[v] \in Provider /\ paid'[u][provider'[v]] > 0
      BY <1>1, <2>1, <2>2 DEF Placed
    <2>7. pc[v] = "notify" => Payouts(u)' # {}
      BY <2>1, <2>3 DEF Placed
    <2>8. u \notin clouded' => /\ pc[v] \in Unsettled => status'[u] = "pending" /\ Unpaid(u)'
                               /\ pc[v] = "complete" => status'[u] = "pending" /\ OncePaid(u)'
      BY <2>1, <2>4, <2>5 DEF Placed
    <2>9. u = job'[v] /\ pc'[v] = pc[v]
      BY <1>1, <2>1
    <2> QED BY <1>1, <1>3, <2>6, <2>7, <2>8, <2>9 DEF Placed, Payouts, Unpaid, OncePaid
  <1> QED BY <1>2, <1>3

(* What remains to be shown of a step of worker w on its row t concerns those two. *)
LEMMA StepInv ==
  ASSUME Inv, NEW w \in Worker, NEW t \in Tx, t = job[w], Only(w, t), Typed', Placed(w)', RowSound(t)'
  PROVE  Inv'
  <1>1. \A v \in Worker \ {w} : job[v] = t => t \in clouded
    BY WithdrawalFacts DEF Inv, Alone
  <1>2. \A v \in Worker : Placed(v)'
    BY <1>1, OtherWorker DEF Inv
  <1>3. \A v, u \in Worker : Alone(v, u)'
    BY DEF Inv, Alone, Only
  <1>4. ASSUME NEW u \in Tx, u # t PROVE RowSound(u)'
    <2>1. Completing(u)' <=> Completing(u)
      BY <1>4, WithdrawalFacts DEF Completing, Only
    <2> QED BY <1>4, <2>1, UntouchedRow DEF Inv, Only
  <1> QED BY <1>2, <1>3, <1>4 DEF Inv

(* The database's answers. *)
LEMMA WriteFacts ==
  ASSUME Typed, NEW w \in Worker, NEW ok \in BOOLEAN, NEW applied \in BOOLEAN,
         Writes(w, ok, applied), job[w] \in Tx
  PROVE  /\ FaultsTyped' /\ clouded \subseteq clouded'
         /\ ok => applied
         /\ ~ok => job[w] \in clouded'
  BY WithdrawalFacts DEF Typed, FaultsTyped, Writes, Fault, faultVars

-----------------------------------------------------------------------------
(* The burn effects and their messages leave every worker and row alone. *)
LEMMA EventInv == ASSUME Inv, NEW t \in Tx, BurnEvent(t) \/ enqueueWithdrawalProcessing(t) PROVE Inv'
  <1>1. UNCHANGED <<status, valid, recorded, pc, job, retries, provider, attached, paid, notices, clouded, faults>>
    BY DEF BurnEvent, enqueueWithdrawalProcessing, rowVars, slotVars, faultVars
  <1>2. MessagesTyped'
    <2> USE WithdrawalFacts DEF Inv, Typed, MessagesTyped
    <2>1. CASE BurnEvent(t)
      BY <2>1 DEF BurnEvent
    <2>2. CASE enqueueWithdrawalProcessing(t)
      <3>1. queued' \in [Tx -> [0..MaxRetries -> Nat]]
        BY <2>2, Bump DEF enqueueWithdrawalProcessing, Put
      <3>2. found' \in [Tx -> Nat] /\ events' = events
        BY <2>2 DEF enqueueWithdrawalProcessing
      <3> QED BY <3>1, <3>2
    <2> QED BY <2>1, <2>2
  <1>3. Typed'
    BY <1>1, <1>2 DEF Inv, Typed, WorkersTyped, RowsTyped, FaultsTyped
  <1>4. \A v, w \in Worker : Placed(w)' /\ Alone(v, w)'
    BY <1>1 DEF Inv, Alone, Placed, Payouts, Unpaid, OncePaid
  <1>5. \A u \in Tx : RowSound(u)'
    <2>1. \A u \in Tx : RowUntouched(u) /\ (Completing(u)' <=> Completing(u))
      BY <1>1 DEF RowUntouched, Completing
    <2> QED BY <1>1, <2>1, UntouchedRow DEF Inv
  <1> QED BY <1>3, <1>4, <1>5 DEF Inv

(* A delivery puts a cloud on a row that somebody else is still at. *)
LEMMA DeliverInv ==
  ASSUME Inv, NEW w \in Worker, NEW t \in Tx, NEW r \in 0..MaxRetries, Deliver(w, t, r) PROVE Inv'
  <1> USE WithdrawalFacts
  <1>a. Typed /\ pc[w] = "idle" /\ job[w] = NoTx
    BY DEF Inv, Deliver, Placed
  <1>b. /\ UNCHANGED <<status, valid, recorded, found, events, provider, attached, paid, notices, faults>>
        /\ pc' = [pc EXCEPT ![w] = "find"] /\ job' = [job EXCEPT ![w] = t]
        /\ retries' = [retries EXCEPT ![w] = r]
        /\ queued[t][r] > 0 /\ queued' = [queued EXCEPT ![t][r] = @ - 1]
        /\ clouded' = IF \E v \in Worker : job[v] = t THEN clouded \cup {t} ELSE clouded
    BY DEF Deliver, Goto, rowVars, eventVars
  <1>c. /\ pc'[w] = "find" /\ job'[w] = t
        /\ \A v \in Worker \ {w} : pc'[v] = pc[v] /\ job'[v] = job[v] /\ provider'[v] = provider[v]
    BY <1>a, <1>b DEF Typed, WorkersTyped
  <1>1. Typed'
    <2>1. queued' \in [Tx -> [0..MaxRetries -> Nat]]
      BY <1>a, <1>b DEF Typed, MessagesTyped
    <2>2. WorkersTyped'
      BY <1>a, <1>b DEF Typed, WorkersTyped, Steps
    <2>3. FaultsTyped'
      BY <1>a, <1>b DEF Typed, FaultsTyped
    <2> QED BY <1>a, <1>b, <2>1, <2>2, <2>3 DEF Typed, RowsTyped, MessagesTyped
  <1>2. clouded \subseteq clouded' /\ \A u \in Tx : RowUntouched(u)
    BY <1>b DEF RowUntouched
  <1>3. \A v \in Worker : Placed(v)'
    <2>1. Placed(w)'
      BY <1>c DEF Placed, Unsettled
    <2>2. ASSUME NEW v \in Worker \ {w} PROVE Placed(v)'
      <3>1. Placed(v)
        BY DEF Inv
      <3> QED BY <1>b, <1>c, <1>2, <3>1 DEF Placed, Payouts, Unpaid, OncePaid
    <2> QED BY <2>1, <2>2
  <1>4. \A v, u \in Worker : Alone(v, u)'
    <2>1. \A v \in Worker \ {w} : job'[v] = t => t \in clouded'
      BY <1>b, <1>c
    <2>2. \A v, u \in Worker \ {w} : Alone(v, u)'
      BY <1>b, <1>c DEF Inv, Alone
    <2> QED BY <1>c, <2>1, <2>2 DEF Alone
  <1>5. \A u \in Tx : RowSound(u)'
    <2>1. \A u \in Tx : Completing(u)' <=> Completing(u)
      BY <1>a, <1>c DEF Completing
    <2> QED BY <1>2, <2>1, UntouchedRow DEF Inv
  <1> QED BY <1>1, <1>3, <1>4, <1>5 DEF Inv

(* A step that leaves the rows alone and does not go to or come from a payout. *)
LEMMA MoveInv ==
  ASSUME Inv, NEW w \in Worker, NEW t \in Tx, t = job[w], NEW step \in Steps,
         Goto(w, step), FaultsTyped', clouded \subseteq clouded',
         UNCHANGED <<status, valid, recorded, found, events, queued, job, retries, provider, attached, paid, notices>>,
         pc[w] # "complete", step \notin {"idle", "complete", "notify"},
         t \notin clouded' /\ step \in Unsettled => status[t] = "pending" /\ Unpaid(t)
  PROVE  Inv'
  <1> USE WithdrawalFacts
  <1>1. pc' \in [Worker -> Steps] /\ pc'[w] = step /\ \A v \in Worker \ {w} : pc'[v] = pc[v]
    BY DEF Inv, Typed, WorkersTyped, Goto
  <1>2. Typed'
    BY <1>1 DEF Inv, Typed, WorkersTyped, RowsTyped, MessagesTyped
  <1>3. \A u \in Tx : RowUntouched(u)
    BY DEF RowUntouched
  <1>4. Only(w, t)
    BY <1>1, <1>3 DEF Only
  <1>5. Placed(w)'
    BY <1>1 DEF Placed, Unpaid
  <1>6. RowSound(t)'
    <2>1. Completing(t)' <=> Completing(t)
      BY <1>1 DEF Completing
    <2> QED BY <1>3, <2>1, UntouchedRow DEF Inv
  <1> QED BY <1>2, <1>4, <1>5, <1>6, StepInv

(* A row of one worker that is pending has no payout, but at "complete". *)
LEMMA PendingUnpaid ==
  ASSUME Inv, NEW w \in Worker, NEW t \in Tx, t = job[w], t \notin clouded, pc[w] # "complete",
         status[t] = "pending"
  PROVE  Unpaid(t)
  <1>1. \A v \in Worker \ {w} : job[v] # t
    BY WithdrawalFacts DEF Inv, Alone
  <1>2. ~Completing(t)
    BY <1>1 DEF Completing
  <1> QED BY <1>2 DEF Inv, RowSound

LEMMA FindInv == ASSUME Inv, NEW w \in Worker, Find(w) PROVE Inv'
  <1> USE WithdrawalFacts
  <1>t. PICK t \in Tx : t = job[w]
    BY DEF Inv, Find, Placed
  <1>a. /\ Typed /\ pc[w] = "find"
        /\ UNCHANGED <<status, valid, recorded, found, events, queued, job, retries, provider, attached, paid, notices>>
    BY DEF Inv, Find, rowVars, eventVars, slotVars
  <1>b. PICK step \in {"ack", "disburse", "reject", "settle"} :
          /\ Goto(w, step)
          /\ FaultsTyped' /\ clouded \subseteq clouded'
          /\ step \in Unsettled => status[t] = "pending"
    <2>1. CASE Goto(w, IF ~Open(status[job[w]]) THEN "ack" ELSE IF job[w] \in valid THEN "disburse" ELSE "reject")
               /\ UNCHANGED faultVars
      BY <1>t, <1>a, <2>1 DEF faultVars, Open, Typed, FaultsTyped, Unsettled
    <2>2. CASE Fault("db", w) /\ Goto(w, "settle")
      BY <1>t, <1>a, <2>2 DEF Fault, Typed, FaultsTyped, Unsettled
    <2> QED BY <2>1, <2>2 DEF Find
  <1>1. t \notin clouded' /\ step \in Unsettled => status[t] = "pending" /\ Unpaid(t)
    BY <1>t, <1>a, <1>b, PendingUnpaid
  <1>2. step \in Steps /\ step \notin {"idle", "complete", "notify"}
    BY DEF Steps
  <1> QED BY <1>t, <1>a, <1>b, <1>1, <1>2, MoveInv

(* transaction.update to failed of a row that is pending and unpaid, if it is its worker's own. *)
LEMMA FailInv ==
  ASSUME Inv, NEW w \in Worker, NEW t \in Tx, t = job[w], pc[w] \in {"reject", "giveUp"},
         NEW step \in {"ack", "settle"}, Goto(w, step),
         NEW ok \in BOOLEAN, NEW applied \in BOOLEAN, Writes(w, ok, applied), SetStatus(t, "failed", applied),
         notices' = notices \/ (ok /\ notices' = notices \cup {<<t, "failed">>}),
         UNCHANGED <<valid, recorded, found, events, queued, job, retries, provider, attached, paid>>
  PROVE  Inv'
  <1> USE WithdrawalFacts
  <1>a. Typed /\ Placed(w) /\ RowSound(t) /\ pc[w] \in Unsettled
    BY DEF Inv, Unsettled
  <1>d. FaultsTyped' /\ clouded \subseteq clouded' /\ (ok => applied) /\ (~ok => t \in clouded')
    BY <1>a, WriteFacts
  <1>b. /\ pc' \in [Worker -> Steps] /\ pc'[w] \in {"ack", "settle"} /\ \A v \in Worker \ {w} : pc'[v] = pc[v]
    BY <1>a DEF Typed, WorkersTyped, Goto, Steps
  <1>e. /\ status' \in [Tx -> Statuses] /\ \A u \in Tx \ {t} : status'[u] = status[u]
        /\ status'[t] = IF applied THEN "failed" ELSE status[t]
    BY <1>a DEF Typed, RowsTyped, SetStatus, Statuses
  <1>f. /\ notices' \subseteq Tx \X {"completed", "failed"}
        /\ \A u \in Tx : <<u, "completed">> \in notices' <=> <<u, "completed">> \in notices
        /\ \A u \in Tx \ {t} : <<u, "failed">> \in notices' <=> <<u, "failed">> \in notices
    BY <1>a DEF Typed, RowsTyped
  <1>1. Typed'
    BY <1>a, <1>b, <1>d, <1>e, <1>f DEF Typed, WorkersTyped, RowsTyped, MessagesTyped
  <1>2. \A u \in Tx : u # t => RowUntouched(u)
    BY <1>e, <1>f DEF RowUntouched
  <1>3. Only(w, t)
    BY <1>b, <1>d, <1>2 DEF Only
  <1>4. Placed(w)'
    BY <1>b DEF Placed, Unsettled
  <1>5. RowSound(t)'
    <2>1. t \notin clouded' => Unpaid(t) /\ status'[t] = "failed"
      BY <1>a, <1>d, <1>e DEF Placed
    <2>2. (Unpaid(t)' <=> Unpaid(t)) /\ (Payouts(t)' = Payouts(t))
      BY DEF Unpaid, Payouts
    <2>3. status'[t] = "completed" => status[t] = "completed"
      BY <1>e
    <2> QED BY <1>a, <1>f, <2>1, <2>2, <2>3 DEF RowSound
  <1> QED BY <1>1, <1>3, <1>4, <1>5, StepInv

LEMMA RejectInv == ASSUME Inv, NEW w \in Worker, Reject(w) PROVE Inv'
  <1>t. PICK t \in Tx : t = job[w]
    BY DEF Inv, Reject, Placed
  <1>a. /\ UNCHANGED <<valid, recorded, found, events, queued, job, retries, provider, attached, paid, notices>>
        /\ pc[w] = "reject"
    BY DEF Reject, eventVars, slotVars
  <1>b. PICK ok \in BOOLEAN, applied \in BOOLEAN :
          Writes(w, ok, applied) /\ SetStatus(t, "failed", applied) /\ Goto(w, IF ok THEN "ack" ELSE "settle")
    BY <1>t DEF Reject
  <1>c. PICK step \in {"ack", "settle"} : Goto(w, step)
    BY <1>b
  <1> QED BY <1>t, <1>a, <1>b, <1>c, FailInv

LEMMA GiveUpInv == ASSUME Inv, NEW w \in Worker, GiveUp(w) PROVE Inv'
  <1>t. PICK t \in Tx : t = job[w]
    BY DEF Inv, GiveUp, Placed
  <1>a. /\ UNCHANGED <<valid, recorded, found, events, queued, job, retries, provider, attached, paid>>
        /\ pc[w] = "giveUp" /\ Goto(w, "settle")
    BY DEF GiveUp, eventVars, slotVars
  <1>b. PICK ok \in BOOLEAN, applied \in BOOLEAN :
          /\ Writes(w, ok, applied) /\ SetStatus(t, "failed", applied)
          /\ notices' = notices \/ (ok /\ notices' = notices \cup {<<t, "failed">>})
    BY <1>t DEF GiveUp
  <1> QED BY <1>t, <1>a, <1>b, FailInv

(* An attempt at a payout: it was paid and is next completed, or it got an error, *)
(* and only a cloud hides that it was paid in spite of it.                        *)
LEMMA DisbursedInv ==
  ASSUME Inv, NEW w \in Worker, NEW t \in Tx, t = job[w], pc[w] \in {"disburse", "failover"},
         NEW skip, NEW next \in {"failover", "giveUp", "settle"}, Disbursed(w, skip, next)
  PROVE  Inv'
  <1> USE WithdrawalFacts
  <1>a. Typed /\ Placed(w) /\ RowSound(t) /\ pc[w] \in Unsettled
    BY DEF Inv, Unsettled
  <1>b. UNCHANGED <<status, valid, recorded, found, events, queued, job, retries, attached, notices>>
    BY DEF Disbursed, rowVars, eventVars, slotVars
  <1>u. t \notin clouded => status[t] = "pending" /\ Unpaid(t)
    BY <1>a DEF Placed
  <1>c. /\ FaultsTyped' /\ clouded \subseteq clouded'
        /\ \/ UNCHANGED <<provider, paid>> /\ Goto(w, next)
           \/ \E p \in Provider : Pay(w, p) /\ Goto(w, "complete") /\ provider' = [provider EXCEPT ![w] = p]
           \/ t \in clouded' /\ UNCHANGED provider /\ Goto(w, next) /\ \E p \in Provider : Pay(w, p)
    <2>1. CASE UNCHANGED faultVars
      BY <1>a, <2>1, ProviderFacts DEF Disbursed, faultVars, Typed, FaultsTyped, Fault
    <2>2. CASE Fault("provider", w)
      <3>1. FaultsTyped' /\ clouded \subseteq clouded'
        BY <1>a, <2>2 DEF Fault, Typed, FaultsTyped
      <3>2. faults' # faults
        BY <1>a, <2>2 DEF Fault, Typed, FaultsTyped
      <3> QED BY <2>2, <3>1, <3>2, ProviderFacts DEF Disbursed, faultVars, Fault
    <2>3. CASE Fault("late", w)
      <3>1. FaultsTyped' /\ clouded \subseteq clouded' /\ t \in clouded'
        BY <1>a, <2>3 DEF Fault, Typed, FaultsTyped
      <3> QED BY <3>1, ProviderFacts DEF Disbursed, faultVars, Fault
    <2> QED BY <2>1, <2>2, <2>3 DEF Disbursed
  <1>p. ASSUME NEW p \in Provider, Pay(w, p)
        PROVE  /\ paid' \in [Tx -> [Provider -> Nat]] /\ \A u \in Tx \ {t} : paid'[u] = paid[u]
               /\ \A q \in Provider : paid'[t][q] = IF q = p THEN paid[t][q] + 1 ELSE paid[t][q]
               /\ \A q \in Provider : paid[t][q] > 0 => paid'[t][q] > 0
               /\ paid'[t][p] > 0
               /\ Unpaid(t) => OncePaid(t)'
    <2>1. /\ paid' \in [Tx -> [Provider -> Nat]] /\ \A u \in Tx \ {t} : paid'[u] = paid[u]
          /\ \A q \in Provider : paid'[t][q] = IF q = p THEN paid[t][q] + 1 ELSE paid[t][q]
      BY <1>a, <1>p, Bump DEF Typed, RowsTyped, Pay
    <2>2. \A q \in Provider : paid[t][q] \in Nat
      BY <1>a DEF Typed, RowsTyped
    <2>3. \A q \in Provider : paid[t][q] > 0 => paid'[t][q] > 0
      <3> SUFFICES ASSUME NEW q \in Provider, paid[t][q] > 0 PROVE paid'[t][q] > 0
        OBVIOUS
      <3>1. paid'[t][q] \in {paid[t][q], paid[t][q] + 1} /\ paid[t][q] \in Nat
        BY <2>1, <2>2
      <3> QED BY <3>1
    <2>4. paid'[t][p] = paid[t][p] + 1
      BY <2>1
    <2>5. ASSUME Unpaid(t) PROVE OncePaid(t)'
      <3>1. \A q \in Provider : paid[t][q] = 0
        BY <2>5 DEF Unpaid
      <3>2. paid'[t][p] = 1
        BY <2>4, <3>1
      <3>3. \A q \in Provider \ {p} : paid'[t][q] = 0
        BY <2>1, <3>1
      <3> QED BY <3>2, <3>3 DEF OncePaid
    <2> QED BY <2>1, <2>2, <2>3, <2>4, <2>5
  <1>1. CASE UNCHANGED <<provider, paid>> /\ Goto(w, next)
    <2>1. t \notin clouded' => status[t] = "pending" /\ Unpaid(t)
      BY <1>c, <1>u
    <2>2. next \in Steps /\ next \notin {"idle", "complete", "notify"}
      BY DEF Steps
    <2>3. pc[w] # "complete"
      OBVIOUS
    <2> QED BY <1>b, <1>c, <1>1, <2>1, <2>2, <2>3, MoveInv
  <1>2. ASSUME NEW p \in Provider, Pay(w, p), Goto(w, "complete"), provider' = [provider EXCEPT ![w] = p]
        PROVE  Inv'
    <2>1. /\ pc' \in [Worker -> Steps] /\ provider' \in [Worker -> Provider \cup {NoProvider}]
          /\ pc'[w] = "complete" /\ provider'[w] = p
          /\ \A v \in Worker \ {w} : pc'[v] = pc[v] /\ provider'[v] = provider[v]
      BY <1>2, <1>a DEF Typed, WorkersTyped, Goto, Steps
    <2>2. /\ paid' \in [Tx -> [Provider -> Nat]] /\ \A u \in Tx \ {t} : paid'[u] = paid[u]
          /\ \A q \in Provider : paid[t][q] > 0 => paid'[t][q] > 0
          /\ paid'[t][p] > 0 /\ (Unpaid(t) => OncePaid(t)')
      BY <1>2, <1>p
    <2>3. Typed'
      BY <1>a, <1>b, <1>c, <2>1, <2>2 DEF Typed, WorkersTyped, RowsTyped, MessagesTyped
    <2>4. Only(w, t)
      BY <1>b, <1>c, <2>1, <2>2 DEF Only, RowUntouched
    <2>5. t \notin clouded' => status'[t] = "pending" /\ OncePaid(t)'
      BY <1>b, <1>c, <1>u, <2>2
    <2>6. Placed(w)'
      BY <1>b, <2>1, <2>2, <2>5 DEF Placed, OncePaid, Unsettled
    <2>7. RowSound(t)'
      <3>1. Completing(t)'
        BY <1>b, <2>1 DEF Completing
      <3>2. Payouts(t) # {} => Payouts(t)' # {}
        BY <2>2 DEF Payouts
      <3>3. status[t] = "completed" => recorded[t] \in Provider /\ paid'[t][recorded[t]] > 0
        BY <1>a, <2>2 DEF RowSound
      <3> QED BY <1>a, <1>b, <1>c, <2>5, <3>1, <3>2, <3>3 DEF RowSound
    <2> QED BY <2>3, <2>4, <2>6, <2>7, StepInv
  <1>3. ASSUME NEW p \in Provider, Pay(w, p), t \in clouded', UNCHANGED provider, Goto(w, next)
        PROVE  Inv'
    <2>1. /\ pc' \in [Worker -> Steps] /\ pc'[w] = next /\ \A v \in Worker \ {w} : pc'[v] = pc[v]
      BY <1>3, <1>a DEF Typed, WorkersTyped, Goto, Steps
    <2>2. /\ paid' \in [Tx -> [Provider -> Nat]] /\ \A u \in Tx \ {t} : paid'[u] = paid[u]
          /\ \A q \in Provider : paid[t][q] > 0 => paid'[t][q] > 0
      BY <1>3, <1>p
    <2>3. Typed'
      BY <1>3, <1>a, <1>b, <1>c, <2>1, <2>2 DEF Typed, WorkersTyped, RowsTyped, MessagesTyped
    <2>4. Only(w, t)
      BY <1>3, <1>b, <1>c, <2>1, <2>2 DEF Only, RowUntouched
    <2>6. Placed(w)'
      BY <1>3, <1>b, <2>1 DEF Placed
    <2>7. RowSound(t)'
      <3>2. Payouts(t) # {} => Payouts(t)' # {}
        BY <2>2 DEF Payouts
      <3>3. status[t] = "completed" => recorded[t] \in Provider /\ paid'[t][recorded[t]] > 0
        BY <1>a, <2>2 DEF RowSound
      <3> QED BY <1>3, <1>a, <1>b, <3>2, <3>3 DEF RowSound
    <2> QED BY <2>3, <2>4, <2>6, <2>7, StepInv
  <1> QED BY <1>c, <1>1, <1>2, <1>3

(* Only what was paid is completed, and the row names who paid it. *)
LEMMA CompleteInv == ASSUME Inv, NEW w \in Worker, Complete(w) PROVE Inv'
  <1> USE WithdrawalFacts
  <1>t. PICK t \in Tx : t = job[w]
    BY DEF Inv, Complete, Placed
  <1>a. /\ Typed /\ Placed(w) /\ RowSound(t) /\ pc[w] = "complete"
        /\ UNCHANGED <<valid, found, events, queued, job, retries, provider, attached, paid, notices>>
    BY <1>t DEF Inv, Complete, eventVars, slotVars
  <1>p. PICK p \in Provider : p = provider[w] /\ paid[t][p] > 0
    BY <1>t, <1>a DEF Placed
  <1>c. PICK ok \in BOOLEAN, applied \in BOOLEAN :
          /\ Writes(w, ok, applied)
          /\ status' = IF applied THEN [status EXCEPT ![t] = "completed"] ELSE status
          /\ recorded' = IF applied THEN [recorded EXCEPT ![t] = p] ELSE recorded
          /\ pc' = [pc EXCEPT ![w] = IF ok THEN "notify" ELSE AfterError(w)]
    BY <1>t, <1>p DEF Complete, SetStatus, Goto
  <1>d. FaultsTyped' /\ clouded \subseteq clouded' /\ (ok => applied) /\ (~ok => t \in clouded')
    BY <1>t, <1>a, <1>c, WriteFacts
  <1>e. /\ status' \in [Tx -> Statuses] /\ recorded' \in [Tx -> Provider \cup {NoProvider}]
        /\ \A u \in Tx \ {t} : status'[u] = status[u] /\ recorded'[u] = recorded[u]
        /\ status'[t] = IF applied THEN "completed" ELSE status[t]
        /\ recorded'[t] = IF applied THEN p ELSE recorded[t]
    BY <1>a, <1>c DEF Typed, RowsTyped, Statuses
  <1>f. /\ pc' \in [Worker -> Steps] /\ \A v \in Worker \ {w} : pc'[v] = pc[v]
        /\ pc'[w] \in {"notify", "giveUp", "settle"} /\ (pc'[w] # "notify" => ~ok) /\ (ok => pc'[w] = "notify")
    BY <1>a, <1>c DEF Typed, WorkersTyped, Steps, AfterError
  <1>1. Typed'
    BY <1>a, <1>d, <1>e, <1>f DEF Typed, WorkersTyped, RowsTyped, MessagesTyped
  <1>2. Only(w, t)
    BY <1>t, <1>a, <1>d, <1>e, <1>f DEF Only, RowUntouched
  <1>3. Payouts(t)' # {}
    BY <1>a, <1>p DEF Payouts
  <1>4. Placed(w)'
    <2>1. t \notin clouded' => pc'[w] = "notify"
      BY <1>d, <1>f
    <2>2. job'[w] = t /\ pc'[w] \notin {"idle", "complete"}
      BY <1>t, <1>a, <1>f
    <2> QED BY <1>3, <2>1, <2>2 DEF Placed, Payouts, Unsettled
  <1>5. RowSound(t)'
    <2>1. t \notin clouded' => status'[t] = "completed" /\ OncePaid(t)' /\ <<t, "failed">> \notin notices'
      <3>1. t \notin clouded' => applied /\ t \notin clouded
        BY <1>d
      <3>2. t \notin clouded => status[t] = "pending" /\ OncePaid(t)
        BY <1>t, <1>a DEF Placed
      <3>3. OncePaid(t)' <=> OncePaid(t)
        BY <1>a DEF OncePaid
      <3> QED BY <1>a, <1>e, <3>1, <3>2, <3>3 DEF RowSound
    <2>2. status'[t] = "completed" => recorded'[t] \in Provider /\ paid'[t][recorded'[t]] > 0
      BY <1>a, <1>e, <1>p DEF RowSound
    <2> QED BY <1>3, <2>1, <2>2 DEF RowSound
  <1> QED BY <1>t, <1>1, <1>2, <1>4, <1>5, StepInv

(* A user is told "completed" of a withdrawal that was paid. *)
LEMMA NotifyInv == ASSUME Inv, NEW w \in Worker, Notify(w) PROVE Inv'
  <1> USE WithdrawalFacts
  <1>t. PICK t \in Tx : t = job[w]
    BY DEF Inv, Notify, Placed
  <1>a. /\ Typed /\ Placed(w) /\ RowSound(t) /\ pc[w] = "notify" /\ Payouts(t) # {}
        /\ UNCHANGED <<status, valid, recorded, found, events, queued, job, retries, provider, attached, paid,
                       clouded, faults>>
        /\ notices' = notices \cup {<<t, "completed">>}
    BY <1>t DEF Inv, Notify, Placed, rowVars, eventVars, slotVars, faultVars
  <1>b. /\ pc' \in [Worker -> Steps] /\ pc'[w] = "ack" /\ \A v \in Worker \ {w} : pc'[v] = pc[v]
    BY <1>a DEF Typed, WorkersTyped, Notify, Goto, Steps
  <1>c. /\ notices' \subseteq Tx \X {"completed", "failed"}
        /\ \A u \in Tx \ {t} : <<u, "completed">> \in notices' <=> <<u, "completed">> \in notices
        /\ \A u \in Tx : <<u, "failed">> \in notices' <=> <<u, "failed">> \in notices
    BY <1>a DEF Typed, RowsTyped
  <1>1. Typed'
    BY <1>a, <1>b, <1>c DEF Typed, WorkersTyped, RowsTyped, MessagesTyped, FaultsTyped
  <1>2. Only(w, t)
    BY <1>t, <1>a, <1>b, <1>c DEF Only, RowUntouched
  <1>3. Placed(w)'
    BY <1>t, <1>a, <1>b DEF Placed, Unsettled
  <1>4. RowSound(t)'
    <2>1. Payouts(t)' = Payouts(t) /\ (Unpaid(t)' <=> Unpaid(t)) /\ (OncePaid(t)' <=> OncePaid(t))
      BY <1>a DEF Payouts, Unpaid, OncePaid
    <2>2. Completing(t)' <=> Completing(t)
      BY <1>a, <1>b DEF Completing
    <2> QED BY <1>a, <1>c, <2>1, <2>2 DEF RowSound
  <1> QED BY <1>t, <1>1, <1>2, <1>3, <1>4, StepInv

-----------------------------------------------------------------------------
LEMMA PutTyped ==
  ASSUME Typed, NEW t \in Tx, NEW r \in 0..MaxRetries PROVE Put(t, r) \in [Tx -> [0..MaxRetries -> Nat]]
  <1>1. queued \in [Tx -> [0..MaxRetries -> Nat]]
    BY DEF Typed, MessagesTyped
  <1> QED BY <1>1, Bump DEF Put

LEMMA RequeuedTyped == ASSUME Inv, NEW w \in Worker PROVE Requeued(w) \in [Tx -> [0..MaxRetries -> Nat]]
  <1>1. Typed /\ (pc[w] # "idle" => job[w] \in Tx) /\ retries[w] \in 0..MaxRetries
    BY DEF Inv, Placed, Typed, WorkersTyped
  <1> QED BY <1>1, PutTyped DEF Requeued, Typed, MessagesTyped

(* A worker that lets go of its row leaves it behind unpaid, completed or clouded. *)
LEMMA EndsInv ==
  ASSUME Inv, NEW w \in Worker, Free(w), attached' \subseteq Worker, FaultsTyped', clouded \subseteq clouded',
         pc[w] = "complete" => job[w] \in clouded',
         queued' \in [Tx -> [0..MaxRetries -> Nat]],
         UNCHANGED <<status, valid, recorded, found, events, paid, notices>>
  PROVE  Inv'
  <1> USE WithdrawalFacts
  <1>1. /\ pc' \in [Worker -> Steps] /\ job' \in [Worker -> Tx \cup {NoTx}]
        /\ retries' \in [Worker -> 0..MaxRetries] /\ provider' \in [Worker -> Provider \cup {NoProvider}]
        /\ pc'[w] = "idle" /\ job'[w] = NoTx
        /\ \A v \in Worker \ {w} : pc'[v] = pc[v] /\ job'[v] = job[v] /\ provider'[v] = provider[v]
    BY DEF Inv, Typed, WorkersTyped, Free, Goto, Steps
  <1>2. Typed'
    BY <1>1 DEF Inv, Typed, WorkersTyped, RowsTyped, MessagesTyped
  <1>3. \A u \in Tx : RowUntouched(u)
    BY DEF RowUntouched
  <1>4. Placed(w)'
    BY <1>1 DEF Placed, Unsettled
  <1>5. ASSUME NEW u \in Tx PROVE RowSound(u)'
    <2>1. RowSound(u)
      BY DEF Inv
    <2>2. CASE job[w] = u /\ pc[w] = "complete"
      <3>1. u \in clouded'
        BY <2>2
      <3>2. Payouts(u)' = Payouts(u)
        BY DEF Payouts
      <3> QED BY <2>1, <3>1, <3>2 DEF RowSound
    <2>3. CASE ~(job[w] = u /\ pc[w] = "complete")
      <3>1. Completing(u)' <=> Completing(u)
        BY <1>1, <2>3 DEF Completing
      <3> QED BY <1>3, <2>1, <3>1, UntouchedRow
    <2> QED BY <2>2, <2>3
  <1>6. CASE job[w] \in Tx
    <2>1. PICK t \in Tx : t = job[w]
      BY <1>6
    <2>2. Only(w, t)
      BY <1>1, <1>3 DEF Only
    <2> QED BY <1>2, <1>4, <1>5, <2>1, <2>2, StepInv
  <1>7. CASE job[w] \notin Tx
    <2>1. \A v \in Worker : Placed(v)'
      <3> SUFFICES ASSUME NEW v \in Worker \ {w} PROVE Placed(v)'
        BY <1>4
      <3>1. Placed(v)
        BY DEF Inv
      <3> QED BY <1>1, <3>1 DEF Placed, Payouts, Unpaid, OncePaid
    <2>2. \A v, u \in Worker : Alone(v, u)'
      BY <1>1 DEF Inv, Alone
    <2> QED BY <1>2, <1>5, <2>1, <2>2 DEF Inv
  <1> QED BY <1>6, <1>7

LEMMA SettleInv == ASSUME Inv, NEW w \in Worker, Ack(w) \/ Settle(w) PROVE Inv'
  <1> USE WithdrawalFacts
  <1>a. /\ Typed /\ Free(w) /\ pc[w] \in {"ack", "settle"} /\ job[w] \in Tx /\ retries[w] \in 0..MaxRetries
        /\ UNCHANGED <<status, valid, recorded, found, events, attached, paid, notices, clouded, faults>>
    BY DEF Inv, Placed, Typed, WorkersTyped, Ack, Settle, rowVars, eventVars, faultVars
  <1>1. queued' \in [Tx -> [0..MaxRetries -> Nat]]
    <2>1. CASE Ack(w)
      BY <1>a, <2>1 DEF Ack, Typed, MessagesTyped
    <2>2. CASE Settle(w)
      <3>2. retries[w] < MaxRetries => retries[w] + 1 \in 0..MaxRetries
        BY <1>a
      <3> QED BY <1>a, <2>2, <3>2, PutTyped DEF Settle, Typed, MessagesTyped
    <2> QED BY <2>1, <2>2
  <1>2. attached' \subseteq Worker /\ FaultsTyped' /\ clouded \subseteq clouded'
    BY <1>a DEF Typed, WorkersTyped, FaultsTyped
  <1> QED BY <1>a, <1>1, <1>2, EndsInv

LEMMA CrashInv == ASSUME Inv, NEW w \in Worker, Crash(w) PROVE Inv'
  <1> USE WithdrawalFacts
  <1>a. Typed /\ Free(w) /\ UNCHANGED <<status, valid, recorded, found, events, paid, notices>>
    BY DEF Inv, Crash, rowVars, eventVars
  <1>1. queued' \in [Tx -> [0..MaxRetries -> Nat]]
    BY RequeuedTyped DEF Crash
  <1>2. attached' \subseteq Worker
    BY <1>a DEF Crash, Typed, WorkersTyped
  <1>3. FaultsTyped' /\ clouded \subseteq clouded' /\ (pc[w] = "complete" => job[w] \in clouded')
    <2>1. pc[w] = "complete" => job[w] \in Tx
      BY DEF Inv, Placed
    <2> QED BY <1>a, <2>1 DEF Crash, Fault, Typed, FaultsTyped, WorkersTyped
  <1> QED BY <1>a, <1>1, <1>2, <1>3, EndsInv

(* A handler whose channel is gone goes on as before. *)
LEMMA DetachInv == ASSUME Inv, NEW w \in Worker, Detach(w) PROVE Inv'
  <1> USE WithdrawalFacts
  <1>a. /\ Typed
        /\ UNCHANGED <<status, valid, recorded, found, events, pc, job, retries, provider, paid, notices>>
    BY DEF Inv, Detach, rowVars, eventVars
  <1>1. queued' \in [Tx -> [0..MaxRetries -> Nat]]
    BY RequeuedTyped DEF Detach
  <1>2. FaultsTyped' /\ clouded \subseteq clouded' /\ attached' \subseteq Worker
    BY <1>a DEF Detach, Fault, Typed, FaultsTyped, WorkersTyped
  <1>3. Typed'
    BY <1>a, <1>1, <1>2 DEF Typed, WorkersTyped, RowsTyped, MessagesTyped
  <1>4. \A t \in Tx : RowUntouched(t) /\ (Completing(t)' <=> Completing(t))
    BY <1>a DEF RowUntouched, Completing
  <1>5. \A t \in Tx : RowSound(t)'
    BY <1>2, <1>4, UntouchedRow DEF Inv
  <1>6. \A v \in Worker : Placed(v)'
    BY <1>a, <1>2 DEF Inv, Placed, Payouts, Unpaid, OncePaid
  <1>7. \A v, u \in Worker : Alone(v, u)'
    BY <1>a, <1>2 DEF Inv, Alone
  <1> QED BY <1>3, <1>5, <1>6, <1>7 DEF Inv

LEMMA NextInv == Inv /\ [Next]_vars => Inv'
  <1> SUFFICES ASSUME Inv, [Next]_vars PROVE Inv'
    OBVIOUS
  <1>1. CASE UNCHANGED vars
    <2>1. UNCHANGED <<status, valid, recorded, found, events, queued, pc, job, retries, provider, attached, paid,
                      notices, clouded, faults>>
      BY <1>1 DEF vars, rowVars, eventVars, slotVars, faultVars
    <2>2. Typed'
      BY <2>1 DEF Inv, Typed, WorkersTyped, RowsTyped, MessagesTyped, FaultsTyped
    <2>3. \A v, w \in Worker : Placed(w)' /\ Alone(v, w)'
      BY <2>1 DEF Inv, Placed, Alone, Payouts, Unpaid, OncePaid
    <2>4. \A t \in Tx : RowUntouched(t) /\ (Completing(t)' <=> Completing(t))
      BY <2>1 DEF RowUntouched, Completing
    <2>5. \A t \in Tx : RowSound(t)'
      BY <2>1, <2>4, UntouchedRow DEF Inv
    <2> QED BY <2>2, <2>3, <2>5 DEF Inv
  <1>2. ASSUME NEW w \in Worker, Disburse(w) \/ Failover(w) PROVE Inv'
    <2>1. PICK t \in Tx : t = job[w]
      BY <1>2 DEF Inv, Placed, Disburse, Failover
    <2>2. AfterError(w) \in {"giveUp", "settle"}
      BY DEF AfterError
    <2>3. PICK skip \in {NoProvider, getPreferredProviderId(t)}, next \in {"failover", "giveUp", "settle"} :
            Disbursed(w, skip, next)
      BY <1>2, <2>1, <2>2 DEF Disburse, Failover
    <2>4. pc[w] \in {"disburse", "failover"}
      BY <1>2 DEF Disburse, Failover
    <2> QED BY <2>1, <2>3, <2>4, DisbursedInv
  <1>3. ASSUME NEW w \in Worker, Consume(w) \/ Handle(w) \/ Detach(w) \/ Crash(w) PROVE Inv'
    BY <1>2, <1>3, DeliverInv, FindInv, RejectInv, CompleteInv, NotifyInv, GiveUpInv, SettleInv, DetachInv,
       CrashInv DEF Consume, Handle
  <1> QED BY <1>1, <1>3, EventInv DEF Next

LEMMA SpecInv == Spec => []Inv
  BY InitInv, NextInv, PTL DEF Spec

(* withdrawalProcessor: for any routes, retries and faults a completed withdrawal *)
(* was paid by the provider its row names, and a user who was told "completed"    *)
(* was paid.                                                                      *)
THEOREM CompletedWasPaid == Spec => []CompletedIsPaid
  <1>1. Inv => CompletedIsPaid
    BY TypedIsTypeOK DEF Inv, RowSound, CompletedIsPaid, Payouts
  <1> QED BY <1>1, SpecInv, PTL

(* Retries and the failover pay a withdrawal once, and never one that failed or *)
(* whose user was told so, unless two consumers had it at once or an answer     *)
(* about it was lost.                                                           *)
THEOREM PaidOnce == Spec => []PaidOnceInSequence
  <1>1. ASSUME Inv, NEW t \in Tx \ clouded
        PROVE  /\ Cardinality(Payouts(t)) <= 1
               /\ \A p \in Provider : paid[t][p] <= 1
               /\ status[t] = "failed" \/ <<t, "failed">> \in notices => Payouts(t) = {}
    <2>1. RowSound(t) /\ status[t] \in Statuses
      BY <1>1 DEF Inv, Typed, RowsTyped
    <2>2. Unpaid(t) \/ OncePaid(t)
      <3>1. CASE Completing(t)
        BY <1>1, <3>1 DEF Inv, Completing, Placed
      <3>2. CASE ~Completing(t)
        BY <2>1, <3>2 DEF RowSound, Statuses
      <3> QED BY <3>1, <3>2
    <2>3. CASE Unpaid(t)
      <3>1. Payouts(t) = {}
        BY <2>3 DEF Unpaid, Payouts
      <3>2. Cardinality(Payouts(t)) = 0
        BY <3>1, FS_EmptySet
      <3> QED BY <2>3, <3>1, <3>2 DEF Unpaid
    <2>4. CASE OncePaid(t)
      <3>1. PICK p \in Provider : paid[t][p] = 1 /\ \A q \in Provider \ {p} : paid[t][q] = 0
        BY <2>4 DEF OncePaid
      <3>2. Payouts(t) = {p}
        BY <3>1 DEF Payouts
      <3>3. Cardinality(Payouts(t)) = 1
        BY <3>2, FS_Singleton
      <3>4. \A q \in Provider : paid[t][q] <= 1
        BY <3>1
      <3>5. status[t] = "failed" \/ <<t, "failed">> \in notices => Payouts(t) = {}
        BY <2>1 DEF RowSound, Unpaid, Payouts
      <3> QED BY <3>3, <3>4, <3>5
    <2> QED BY <2>2, <2>3, <2>4
  <1>2. Inv => PaidOnceInSequence
    BY <1>1 DEF PaidOnceInSequence
  <1> QED BY <1>2, SpecInv, PTL

-----------------------------------------------------------------------------
(* Where an open withdrawal is: what keeps WithdrawalsEnd within reach of a fair *)
(* scheduler.                                                                    *)

(* What a worker that lets go of a row of its own has seen to. *)
Follows(w) ==
    /\ w \in attached
    /\ pc[w] = "settle" /\ status[job[w]] = "pending" => retries[w] < MaxRetries
    /\ pc[w] \in {"ack", "notify"} => status[job[w]] # "pending"

InHand(t) ==
    \/ found[t] > 0
    \/ \E r \in 0..MaxRetries : queued[t][r] > 0
    \/ \E w \in Worker : job[w] = t

Kept(t) ==
    t \notin clouded =>
        /\ \A w \in Worker : job[w] = t => Follows(w)
        /\ status[t] = "pending" /\ events[t] > 0 => InHand(t)

(* A pending row whose burn was seen has a handler that will publish it, a message *)
(* in the queue, or a connected consumer that will not let go of it without        *)
(* publishing it again.                                                            *)
NothingStranded ==
    \A t \in Tx \ clouded : status[t] = "pending" /\ events[t] > 0 =>
        \/ found[t] > 0
        \/ \E r \in 0..MaxRetries : queued[t][r] > 0
        \/ \E w \in attached : /\ job[w] = t /\ pc[w] \notin {"ack", "notify"}
                               /\ pc[w] = "settle" => retries[w] < MaxRetries

LEMMA PutHere ==
  ASSUME Inv, NEW t \in Tx, NEW r \in 0..MaxRetries
  PROVE  Put(t, r)[t][r] > 0 /\ \A u \in Tx : u # t => Put(t, r)[u] = queued[u]
  <1>1. queued \in [Tx -> [0..MaxRetries -> Nat]]
    BY DEF Inv, Typed, MessagesTyped
  <1>2. queued[t][r] \in Nat
    BY <1>1
  <1>3. /\ \A u \in Tx \ {t} : Put(t, r)[u] = queued[u]
        /\ Put(t, r)[t][r] = queued[t][r] + 1
    <2> DEFINE f == [queued EXCEPT ![t][r] = @ + 1]
    <2>1. \A x \in Tx \ {t} : f[x] = queued[x]
      BY <1>1
    <2>2. f[t][r] = queued[t][r] + 1
      BY <1>1
    <2>3. f = Put(t, r)
      BY DEF Put
    <2> HIDE DEF f
    <2> QED BY <2>1, <2>2, <2>3
  <1> QED BY <1>2, <1>3

(* A step of worker w keeps the rows that are not its own. *)
LEMMA OtherRowKept ==
  ASSUME NEW w \in Worker, NEW u \in Tx, Kept(u), job[w] # u, job'[w] # u,
         \A v \in Worker \ {w} : /\ pc'[v] = pc[v] /\ job'[v] = job[v] /\ retries'[v] = retries[v]
                                 /\ v \in attached => v \in attached',
         status'[u] = status[u], events'[u] = events[u], found'[u] = found[u], queued'[u] = queued[u],
         clouded \subseteq clouded'
  PROVE  Kept(u)'
  <1> SUFFICES ASSUME u \notin clouded'
               PROVE  /\ \A v \in Worker : job'[v] = u => Follows(v)'
                      /\ status'[u] = "pending" /\ events'[u] > 0 => InHand(u)'
    BY DEF Kept
  <1>1. u \notin clouded
    OBVIOUS
  <1>2. ASSUME NEW v \in Worker, job'[v] = u PROVE Follows(v)'
    <2>1. v # w /\ job[v] = u
      BY <1>2
    <2>2. Follows(v)
      BY <1>1, <2>1 DEF Kept
    <2> QED BY <1>2, <2>1, <2>2 DEF Follows
  <1>3. ASSUME status'[u] = "pending", events'[u] > 0 PROVE InHand(u)'
    <2>1. InHand(u)
      BY <1>1, <1>3 DEF Kept
    <2> QED BY <2>1 DEF InHand
  <1> QED BY <1>2, <1>3

(* A step of worker w that keeps its delivery. *)
LEMMA HandledKept ==
  ASSUME Inv, \A t \in Tx : Kept(t), NEW w \in Worker, job[w] \in Tx,
         \A v \in Worker \ {w} : pc'[v] = pc[v],
         UNCHANGED <<job, retries, attached, queued, found, events>>,
         \A u \in Tx : u # job[w] => status'[u] = status[u],
         clouded \subseteq clouded',
         job[w] \in clouded' \/ Follows(w)'
  PROVE  \A t \in Tx : Kept(t)'
  <1>1. ASSUME NEW u \in Tx, u # job[w] PROVE Kept(u)'
    BY <1>1, OtherRowKept
  <1>2. Kept(job[w])'
    <2> SUFFICES ASSUME job[w] \notin clouded' PROVE Kept(job[w])'
      BY DEF Kept
    <2>1. \A v \in Worker : job[v] = job[w] => v = w
      BY WithdrawalFacts DEF Inv, Alone
    <2>2. \A v \in Worker : job'[v] = job[w] => Follows(v)'
      BY <2>1
    <2>3. InHand(job[w])'
      BY DEF InHand
    <2> QED BY <2>2, <2>3 DEF Kept
  <1> QED BY <1>1, <1>2

LEMMA EventKept ==
  ASSUME Inv, \A t \in Tx : Kept(t), NEW t \in Tx, BurnEvent(t) \/ enqueueWithdrawalProcessing(t)
  PROVE  \A u \in Tx : Kept(u)'
  <1>1. UNCHANGED <<status, pc, job, retries, attached, clouded>>
    BY DEF BurnEvent, enqueueWithdrawalProcessing, rowVars, slotVars, faultVars
  <1>2. \A u \in Tx \ {t} : found'[u] = found[u] /\ events'[u] = events[u] /\ queued'[u] = queued[u]
    BY DEF BurnEvent, enqueueWithdrawalProcessing, Put, Inv, Typed, MessagesTyped
  <1>3. InHand(t)'
    <2> USE DEF Inv, Typed, MessagesTyped
    <2>1. CASE BurnEvent(t)
      <3>1. found'[t] > 0
        BY <2>1 DEF BurnEvent
      <3> QED BY <3>1 DEF InHand
    <2>2. CASE enqueueWithdrawalProcessing(t)
      <3>1. 0 \in 0..MaxRetries
        BY WithdrawalFacts
      <3>2. queued'[t][0] > 0
        BY <2>2, <3>1, PutHere DEF enqueueWithdrawalProcessing
      <3> QED BY <3>1, <3>2 DEF InHand
    <2> QED BY <2>1, <2>2
  <1>4. ASSUME NEW w \in Worker, Follows(w) PROVE Follows(w)'
    BY <1>1, <1>4 DEF Follows
  <1>5. ASSUME NEW u \in Tx \ {t}, InHand(u) PROVE InHand(u)'
    BY <1>1, <1>2, <1>5 DEF InHand
  <1> QED BY <1>1, <1>2, <1>3, <1>4, <1>5 DEF Kept

LEMMA DeliverKept ==
  ASSUME Inv, \A t \in Tx : Kept(t), NEW w \in Worker, NEW t \in Tx, NEW r \in 0..MaxRetries, Deliver(w, t, r)
  PROVE  \A u \in Tx : Kept(u)'
  <1>1. pc[w] = "idle" /\ job[w] = NoTx /\ w \in attached /\ NoTx \notin Tx
    BY WithdrawalFacts DEF Inv, Deliver, Placed
  <1>2. /\ UNCHANGED <<status, found, events, attached>>
        /\ clouded' = IF \E v \in Worker : job[v] = t THEN clouded \cup {t} ELSE clouded
    BY DEF Deliver, rowVars, eventVars
  <1>3. /\ pc'[w] = "find" /\ job'[w] = t
        /\ \A v \in Worker \ {w} : pc'[v] = pc[v] /\ job'[v] = job[v] /\ retries'[v] = retries[v]
        /\ \A u \in Tx : u # t => queued'[u] = queued[u]
    BY DEF Deliver, Goto, Inv, Typed, WorkersTyped, MessagesTyped
  <1>4. ASSUME NEW u \in Tx, u # t PROVE Kept(u)'
    BY <1>1, <1>2, <1>3, <1>4, OtherRowKept
  <1>5. Kept(t)'
    <2> SUFFICES ASSUME t \notin clouded' PROVE Kept(t)'
      BY DEF Kept
    <2>1. \A v \in Worker : job'[v] = t => v = w
      BY <1>2, <1>3
    <2>2. Follows(w)'
      BY <1>1, <1>2, <1>3 DEF Follows
    <2>3. InHand(t)'
      BY <1>3 DEF InHand
    <2> QED BY <2>1, <2>2, <2>3 DEF Kept
  <1> QED BY <1>4, <1>5

(* A fault on worker w's own row, unless a provider only refused, clouds it. *)
LEMMA FaultClouds ==
  ASSUME NEW w \in Worker, NEW kind, Fault(kind, w)
  PROVE  /\ clouded \subseteq clouded'
         /\ job[w] \in Tx /\ kind # "provider" => job[w] \in clouded'
  BY WithdrawalFacts DEF Fault

(* What every step of a handler but the last leaves alone. *)
LEMMA HandleFrame ==
  ASSUME Inv, NEW w \in Worker,
         Find(w) \/ Reject(w) \/ Disburse(w) \/ Failover(w) \/ Complete(w) \/ Notify(w) \/ GiveUp(w)
  PROVE  /\ job[w] \in Tx /\ UNCHANGED <<job, retries, attached, queued, found, events>>
         /\ \A v \in Worker \ {w} : pc'[v] = pc[v]
         /\ \A u \in Tx : u # job[w] => status'[u] = status[u]
  <1> USE DEF rowVars, eventVars, slotVars
  <1>1. job[w] \in Tx
    BY DEF Inv, Placed, Find, Reject, Disburse, Failover, Complete, Notify, GiveUp
  <1>2. UNCHANGED <<job, retries, attached, queued, found, events>>
    BY DEF Find, Reject, Disburse, Failover, Disbursed, Complete, Notify, GiveUp
  <1>3. \E step : Goto(w, step)
    BY DEF Find, Reject, Disburse, Failover, Disbursed, Complete, Notify, GiveUp
  <1>4. \A v \in Worker \ {w} : pc'[v] = pc[v]
    BY <1>3 DEF Goto, Inv, Typed, WorkersTyped
  <1>5. \A u \in Tx : u # job[w] => status'[u] = status[u]
    <2>1. CASE Find(w) \/ Disburse(w) \/ Failover(w) \/ Notify(w)
      BY <2>1 DEF Find, Disburse, Failover, Disbursed, Notify
    <2>2. CASE Reject(w) \/ Complete(w) \/ GiveUp(w)
      <3>1. \E st : \E applied \in BOOLEAN : SetStatus(job[w], st, applied)
        BY <2>2 DEF Reject, Complete, GiveUp
      <3> QED BY <1>1, <3>1 DEF SetStatus, Inv, Typed, RowsTyped
    <2> QED BY <2>1, <2>2
  <1> QED BY <1>1, <1>2, <1>4, <1>5

(* A write to the worker's row: without a cloud it is answered and has its status. *)
LEMMA WrittenStatus ==
  ASSUME Inv, NEW w \in Worker, job[w] \in Tx, NEW ok \in BOOLEAN, NEW applied \in BOOLEAN, NEW st,
         Writes(w, ok, applied), SetStatus(job[w], st, applied)
  PROVE  clouded \subseteq clouded' /\ (job[w] \in clouded' \/ (ok /\ status'[job[w]] = st))
  <1>1. clouded \subseteq clouded' /\ (ok => applied) /\ (~ok => job[w] \in clouded')
    BY WriteFacts DEF Inv
  <1>2. applied => status'[job[w]] = st
    BY DEF SetStatus, Inv, Typed, RowsTyped
  <1> QED BY <1>1, <1>2

LEMMA GoneTo ==
  ASSUME Inv, NEW w \in Worker, NEW step, Goto(w, step) PROVE pc'[w] = step
  BY DEF Goto, Inv, Typed, WorkersTyped

LEMMA StepKept ==
  ASSUME Inv, \A t \in Tx : Kept(t), NEW w \in Worker,
         Find(w) \/ Reject(w) \/ Disburse(w) \/ Failover(w) \/ Complete(w) \/ Notify(w) \/ GiveUp(w)
  PROVE  \A u \in Tx : Kept(u)'
  <1> DEFINE t == job[w]
  <1>a. /\ t \in Tx /\ UNCHANGED <<job, retries, attached, queued, found, events>>
        /\ \A v \in Worker \ {w} : pc'[v] = pc[v]
        /\ \A u \in Tx : u # t => status'[u] = status[u]
    BY HandleFrame
  <1>b. t \notin clouded => Follows(w)
    BY <1>a DEF Kept
  <1>c. ASSUME clouded \subseteq clouded',
               t \in clouded' \/ /\ pc'[w] = "settle" /\ status'[t] = "pending" => retries[w] < MaxRetries
                                 /\ pc'[w] \in {"ack", "notify"} => status'[t] # "pending"
        PROVE  \A u \in Tx : Kept(u)'
    <2>1. t \in clouded' \/ Follows(w)'
      BY <1>a, <1>b, <1>c DEF Follows
    <2> QED BY <1>a, <1>c, <2>1, HandledKept
  <1>1. CASE Find(w)
    <2>1. CASE Goto(w, IF ~Open(status[t]) THEN "ack" ELSE IF t \in valid THEN "disburse" ELSE "reject")
               /\ UNCHANGED faultVars
      <3>1. pc'[w] = IF status[t] # "pending" THEN "ack" ELSE IF t \in valid THEN "disburse" ELSE "reject"
        BY <2>1, GoneTo DEF Open
      <3>2. UNCHANGED <<status, clouded>>
        BY <1>1, <2>1 DEF Find, rowVars, faultVars
      <3> QED BY <1>c, <3>1, <3>2
    <2>2. CASE Fault("db", w)
      BY <1>a, <1>c, <2>2, FaultClouds
    <2> QED BY <1>1, <2>1, <2>2 DEF Find
  <1>2. CASE Reject(w)
    <2>1. PICK ok \in BOOLEAN, applied \in BOOLEAN :
             /\ Writes(w, ok, applied) /\ SetStatus(t, "failed", applied)
             /\ Goto(w, IF ok THEN "ack" ELSE "settle")
      BY <1>2 DEF Reject
    <2>2. clouded \subseteq clouded' /\ (t \in clouded' \/ (ok /\ status'[t] = "failed"))
      BY <1>a, <2>1, WrittenStatus
    <2> QED BY <1>c, <2>2
  <1>3. ASSUME NEW skip, NEW nxt, Disbursed(w, skip, nxt), nxt # "ack", nxt # "notify",
               nxt = "settle" => retries[w] < MaxRetries
        PROVE  \A u \in Tx : Kept(u)'
    <2>1. \/ (Goto(w, nxt) \/ Goto(w, "complete")) /\ (UNCHANGED faultVars \/ Fault("provider", w))
          \/ Fault("late", w)
      BY <1>3 DEF Disbursed
    <2>2. clouded \subseteq clouded'
          /\ (t \in clouded' \/ pc'[w] = nxt \/ pc'[w] = "complete")
      BY <1>a, <2>1, GoneTo, FaultClouds DEF faultVars
    <2> QED BY <1>3, <1>c, <2>2
  <1>4. CASE Disburse(w)
    BY <1>3, <1>4 DEF Disburse
  <1>5. AfterError(w) # "ack" /\ AfterError(w) # "notify"
        /\ (AfterError(w) = "settle" => retries[w] < MaxRetries)
    <2>1. retries[w] \in Nat /\ MaxRetries \in Nat
      BY WithdrawalFacts DEF Inv, Typed, WorkersTyped
    <2> QED BY <2>1 DEF AfterError
  <1>6. CASE Failover(w)
    BY <1>3, <1>5, <1>6 DEF Failover
  <1>7. CASE Complete(w)
    <2>1. PICK ok \in BOOLEAN, applied \in BOOLEAN :
             /\ Writes(w, ok, applied) /\ SetStatus(t, "completed", applied)
      BY <1>7 DEF Complete
    <2>2. clouded \subseteq clouded' /\ (t \in clouded' \/ status'[t] = "completed")
      BY <1>a, <2>1, WrittenStatus
    <2> QED BY <1>c, <2>2
  <1>8. CASE Notify(w)
    <2>1. pc[w] = "notify" /\ pc'[w] = "ack" /\ UNCHANGED <<status, clouded>>
      BY <1>8, GoneTo DEF Notify, rowVars, faultVars
    <2>2. t \notin clouded => status'[t] # "pending"
      BY <1>b, <2>1 DEF Follows
    <2> QED BY <1>c, <2>1, <2>2
  <1>9. CASE GiveUp(w)
    <2>1. PICK ok \in BOOLEAN, applied \in BOOLEAN :
             /\ Writes(w, ok, applied) /\ SetStatus(t, "failed", applied)
      BY <1>9 DEF GiveUp
    <2>2. clouded \subseteq clouded' /\ (t \in clouded' \/ status'[t] = "failed")
      BY <1>a, <2>1, WrittenStatus
    <2> QED BY <1>c, <2>2
  <1> QED BY <1>1, <1>2, <1>4, <1>6, <1>7, <1>8, <1>9

(* A worker is free again: its row, if it is its own and pending, is published. *)
LEMMA EndKept ==
  ASSUME Inv, \A t \in Tx : Kept(t), NEW w \in Worker, Ack(w) \/ Settle(w)
  PROVE  \A u \in Tx : Kept(u)'
  <1>t. PICK t : t = job[w]
    OBVIOUS
  <1>1. t \in Tx /\ NoTx \notin Tx /\ pc[w] \in {"ack", "settle"}
    BY <1>t, WithdrawalFacts DEF Inv, Placed, Ack, Settle
  <1>2. UNCHANGED <<status, found, events, attached, clouded>>
    BY DEF Ack, Settle, rowVars, eventVars, faultVars
  <1>3. /\ job'[w] = NoTx
        /\ \A v \in Worker \ {w} : pc'[v] = pc[v] /\ job'[v] = job[v] /\ retries'[v] = retries[v]
    BY DEF Ack, Settle, Free, Goto, Inv, Typed, WorkersTyped
  <1>4. \/ UNCHANGED queued
        \/ w \in attached /\ retries[w] < MaxRetries /\ queued' = Put(t, retries[w] + 1)
    BY <1>t DEF Ack, Settle
  <1>5. queued \in [Tx -> [0..MaxRetries -> Nat]] /\ retries[w] \in 0..MaxRetries
    BY DEF Inv, Typed, WorkersTyped, MessagesTyped
  <1>6. \A u \in Tx : u # t => queued'[u] = queued[u]
    <2>1. retries[w] < MaxRetries => retries[w] + 1 \in 0..MaxRetries
      BY <1>5, WithdrawalFacts
    <2> QED BY <1>1, <1>4, <2>1, PutHere
  <1>7. ASSUME NEW u \in Tx, u # t PROVE Kept(u)'
    BY <1>t, <1>1, <1>2, <1>3, <1>6, <1>7, OtherRowKept
  <1>8. Kept(t)'
    <2> SUFFICES ASSUME t \notin clouded' PROVE Kept(t)'
      BY DEF Kept
    <2>1. t \notin clouded /\ Follows(w)
      BY <1>t, <1>1, <1>2 DEF Kept
    <2>2. \A v \in Worker : job'[v] # t
      BY <1>t, <1>1, <1>2, <1>3, <2>1 DEF Inv, Alone
    <2>3. ASSUME status[t] = "pending" PROVE InHand(t)'
      <3>1. pc[w] = "settle" /\ retries[w] < MaxRetries /\ w \in attached
        BY <1>t, <1>1, <2>1, <2>3 DEF Follows
      <3>2. queued' = Put(t, retries[w] + 1)
        BY <1>t, <3>1 DEF Settle, Ack
      <3>3. retries[w] + 1 \in 0..MaxRetries
        BY <1>5, <3>1, WithdrawalFacts
      <3>4. queued'[t][retries[w] + 1] > 0
        BY <1>1, <3>2, <3>3, PutHere
      <3> QED BY <3>3, <3>4 DEF InHand
    <2> QED BY <1>2, <2>2, <2>3 DEF Kept
  <1> QED BY <1>7, <1>8

(* A connection that closes and a process that dies cloud the row they had. *)
LEMMA LossKept ==
  ASSUME Inv, \A t \in Tx : Kept(t), NEW w \in Worker, Detach(w) \/ Crash(w)
  PROVE  \A u \in Tx : Kept(u)'
  <1>1. /\ clouded \subseteq clouded' /\ (job[w] \in Tx => job[w] \in clouded')
        /\ NoTx \notin Tx /\ job[w] \in Tx \cup {NoTx}
    BY FaultClouds, WithdrawalFacts DEF Detach, Crash, Inv, Typed, WorkersTyped
  <1>2. UNCHANGED <<status, found, events>>
    BY DEF Detach, Crash, rowVars, eventVars
  <1>3. /\ job'[w] \in {job[w], NoTx}
        /\ \A v \in Worker \ {w} : /\ pc'[v] = pc[v] /\ job'[v] = job[v] /\ retries'[v] = retries[v]
                                   /\ v \in attached => v \in attached'
    BY DEF Detach, Crash, Free, Goto, Inv, Typed, WorkersTyped
  <1>4. \A u \in Tx : u # job[w] => queued'[u] = queued[u]
    BY DEF Detach, Crash, Requeued, Put, Inv, Typed, MessagesTyped
  <1>5. ASSUME NEW u \in Tx PROVE Kept(u)'
    <2>1. CASE u = job[w]
      BY <1>1, <2>1 DEF Kept
    <2>2. CASE u # job[w]
      <3>1. job'[w] # u
        BY <1>1, <1>3, <2>2
      <3> QED BY <1>1, <1>2, <1>3, <1>4, <2>2, <3>1, OtherRowKept
    <2> QED BY <2>1, <2>2
  <1> QED BY <1>5

AllKept == \A t \in Tx : Kept(t)

LEMMA KeptStep == Inv /\ AllKept /\ [Next]_vars => AllKept'
  <1> SUFFICES ASSUME Inv, \A t \in Tx : Kept(t), [Next]_vars PROVE \A t \in Tx : Kept(t)'
    BY DEF AllKept
  <1>1. CASE UNCHANGED vars
    BY <1>1 DEF vars, rowVars, eventVars, slotVars, faultVars, Kept, Follows, InHand
  <1>2. ASSUME NEW t \in Tx, BurnEvent(t) \/ enqueueWithdrawalProcessing(t) PROVE \A u \in Tx : Kept(u)'
    BY <1>2, EventKept
  <1>3. ASSUME NEW w \in Worker, Consume(w) PROVE \A u \in Tx : Kept(u)'
    BY <1>3, DeliverKept DEF Consume
  <1>4. ASSUME NEW w \in Worker, Handle(w) PROVE \A u \in Tx : Kept(u)'
    BY <1>4, StepKept, EndKept DEF Handle
  <1>5. ASSUME NEW w \in Worker, Detach(w) \/ Crash(w) PROVE \A u \in Tx : Kept(u)'
    BY <1>5, LossKept
  <1> QED BY <1>1, <1>2, <1>3, <1>4, <1>5 DEF Next

(* No withdrawal is stranded: however often providers refuse, events repeat and    *)
(* other rows lose their answers or workers, a pending row whose burn was seen is  *)
(* on its way to a payout or to "failed", unless its own hands lost an answer, the *)
(* connection or the process.                                                      *)
THEOREM WithdrawalsInHand == Spec => []NothingStranded
  <1>1. Init => AllKept
    BY WithdrawalFacts DEF Init, AllKept, Kept
  <1>2. Inv /\ AllKept => NothingStranded
    <2> SUFFICES ASSUME Inv, NEW t \in Tx \ clouded, Kept(t), status[t] = "pending", events[t] > 0
                 PROVE  \/ found[t] > 0
                        \/ \E r \in 0..MaxRetries : queued[t][r] > 0
                        \/ \E w \in attached : /\ job[w] = t /\ pc[w] \notin {"ack", "notify"}
                                               /\ pc[w] = "settle" => retries[w] < MaxRetries
      BY DEF NothingStranded, AllKept
    <2>1. CASE \E w \in Worker : job[w] = t
      <3>1. PICK w \in Worker : job[w] = t
        BY <2>1
      <3>2. Follows(w)
        BY <3>1 DEF Kept
      <3> QED BY <3>1, <3>2 DEF Follows
    <2>2. InHand(t)
      BY DEF Kept
    <2> QED BY <2>1, <2>2 DEF InHand
  <1> QED BY <1>1, <1>2, SpecInv, KeptStep, PTL DEF Spec
=============================================================================
