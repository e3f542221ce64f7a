------------------------ MODULE UsdcConversionProofs ------------------------
(***************************************************************************)
(* The conversion of mints into basket reserves, for any rows, currencies, *)
(* workers, retries and faults: who holds a row, what an attempt has done  *)
(* when it is at a currency, and what follows for the ledger.              *)
(***************************************************************************)
EXTENDS UsdcConversion, TLAPS

WorkersTyped ==
    /\ pc \in [Worker -> Steps] /\ job \in [Worker -> Tx \cup {NoTx}]
    /\ retries \in [Worker -> 0..MaxRetries] /\ next \in [Worker -> 1..(Len(Basket) + 1)]
    /\ attached \subseteq Worker
RowsTyped ==
    /\ status \in [Tx -> {"pending", "processing", "completed"}]
    /\ bought \in [Tx -> [Currency -> Nat]] /\ entries \in [Tx -> [Currency -> Nat]]
    /\ skipped \in [Tx -> SUBSET Currency]
MessagesTyped ==
    /\ found \in [Tx -> 0..MaxEvents] /\ events \in [Tx -> 0..MaxEvents]
    /\ queued \in [Tx -> [0..MaxRetries -> Nat]]
    /\ \A t \in Tx : found[t] <= events[t]
FaultsTyped == clouded \subseteq Tx /\ faults \in 0..MaxFaults

Typed == WorkersTyped /\ RowsTyped /\ MessagesTyped /\ FaultsTyped

(* A claimed row is in processing, or was completed by a write that seemed to   *)
(* fail; behind next, what was not given up is booked; a purchase is booked once. *)
Placed(w) ==
    /\ pc[w] \in {"idle", "claim", "basket"} => next[w] = 1
    /\ pc[w] \in {"buy", "record"} => next[w] <= Len(Basket)
    /\ pc[w] = "complete" => next[w] = Len(Basket) + 1
    /\ pc[w] # "idle" => job[w] \in Tx
    /\ pc[w] \in Claimed => \/ status[job[w]] = "processing"
                            \/ pc[w] = "release" /\ status[job[w]] = "completed"
    /\ pc[w] \in {"buy", "record", "complete"} =>
          \A i \in DOMAIN Basket : i < next[w] => Basket[i] \in skipped[job[w]] \/ entries[job[w]][Basket[i]] > 0
    /\ pc[w] = "record" => entries[job[w]][Due(w)] < bought[job[w]][Due(w)]

(* An attempt at a row without a cloud finds the currencies ahead of it unbought. *)
Fresh(w) ==
    pc[w] \in Claimed /\ job[w] \notin clouded =>
        /\ pc[w] \in {"basket", "release"} => \A c \in Currency : bought[job[w]][c] = 0
        /\ pc[w] = "buy"    => \A i \in DOMAIN Basket : i >= next[w] => bought[job[w]][Basket[i]] = 0
        /\ pc[w] = "record" => \A i \in DOMAIN Basket : i > next[w] => bought[job[w]][Basket[i]] = 0

RowSound(t) ==
    /\ \A c \in Currency : entries[t][c] <= bought[t][c]
    /\ status[t] = "completed" => \A c \in Currency \ skipped[t] : entries[t][c] > 0
    /\ t \notin clouded => \A c \in Currency : bought[t][c] <= 1
    /\ t \notin clouded /\ status[t] = "pending" => \A c \in Currency : bought[t][c] = 0

Exclusive == \A v, w \in Worker : v # w /\ pc[v] \in Claimed /\ pc[w] \in Claimed => job[v] # job[w]

Inv ==
    /\ Typed /\ Exclusive
    /\ \A w \in Worker : Placed(w) /\ Fresh(w)
    /\ \A t \in Tx : RowSound(t)

-----------------------------------------------------------------------------
LEMMA BasketFacts ==
  /\ DOMAIN Basket = 1..Len(Basket) /\ Len(Basket) \in Nat \ {0}
  /\ \A i \in DOMAIN Basket : Basket[i] \in Currency
  /\ \A c \in Currency : \E i \in DOMAIN Basket : c = Basket[i]
  /\ \A i, j \in DOMAIN Basket : Basket[i] = Basket[j] => i = j
  /\ NoTx \notin Tx /\ MaxRetries \in Nat /\ MaxEvents \in Nat /\ MaxFaults \in Nat
  <1>1. DOMAIN Basket = 1..Len(Basket) /\ Len(Basket) \in Nat \ {0}
    BY ConversionAssumption DEF ConversionAssumption
  <1>2. /\ \A i \in DOMAIN Basket : Basket[i] \in Currency
        /\ \A c \in Currency : \E i \in DOMAIN Basket : c = Basket[i]
    BY DEF Currency
  <1> QED BY <1>1, <1>2, ConversionAssumption DEF ConversionAssumption

LEMMA TypedIsTypeOK == Typed => TypeOK
  BY DEF Typed, WorkersTyped, RowsTyped, MessagesTyped, FaultsTyped, TypeOK

(* One more at s and r, and nothing else. *)
LEMMA Bump ==
  ASSUME NEW S, NEW R, NEW f \in [S -> [R -> Nat]], NEW s \in S, NEW r \in R
  PROVE  /\ [f EXCEPT ![s][r] = @ + 1] \in [S -> [R -> Nat]]
         /\ \A x \in S \ {s} : [f EXCEPT ![s][r] = @ + 1][x] = f[x]
         /\ \A y \in R : [f EXCEPT ![s][r] = @ + 1][s][y] = IF y = r THEN f[s][y] + 1 ELSE f[s][y]
  OBVIOUS

LEMMA InitInv == Init => Inv
  <1> SUFFICES ASSUME Init PROVE Inv
    OBVIOUS
  <1> USE BasketFacts DEF Init
  <1>1. Typed
    BY DEF Typed, WorkersTyped, RowsTyped, MessagesTyped, FaultsTyped, Steps
  <1>2. Exclusive /\ \A w \in Worker : Placed(w) /\ Fresh(w)
    BY DEF Exclusive, Placed, Fresh, Claimed
  <1>3. \A t \in Tx : RowSound(t)
    BY DEF RowSound
  <1> QED BY <1>1, <1>2, <1>3 DEF Inv

-----------------------------------------------------------------------------
RowUntouched(t) ==
    /\ status'[t] = status[t] /\ bought'[t] = bought[t] /\ entries'[t] = entries[t]
    /\ skipped'[t] = skipped[t]

(* Only worker w moves, and only its row changes. *)
Only(w) ==
    /\ \A v \in Worker \ {w} : pc'[v] = pc[v] /\ job'[v] = job[v] /\ next'[v] = next[v]
    /\ \A t \in Tx : t # job[w] => RowUntouched(t)
    /\ clouded \subseteq clouded'

(* It may: it holds the row, or claims one nobody holds, or changes none. *)
MayChange(w) ==
    \/ pc[w] \in Claimed \/ \A t \in Tx : RowUntouched(t)
    \/ job[w] \in Tx /\ status[job[w]] = "pending"

(* It holds afterwards what it held before or claimed. *)
KeepsClaim(w) ==
    pc'[w] \in Claimed => job'[w] = job[w] /\ (pc[w] \in Claimed \/ status[job[w]] = "pending")

LEMMA UntouchedRow ==
  ASSUME NEW t \in Tx, RowSound(t), RowUntouched(t), clouded \subseteq clouded' PROVE RowSound(t)'
  BY DEF RowSound, RowUntouched

LEMMA OtherWorker ==
  ASSUME NEW v \in Worker, Placed(v), Fresh(v), pc'[v] = pc[v], job'[v] = job[v], next'[v] = next[v],
         pc[v] \in Claimed => RowUntouched(job[v]), clouded \subseteq clouded'
  PROVE  Placed(v)' /\ Fresh(v)'
  <1>1. Placed(v)'
    BY DEF Placed, Due, RowUntouched, Claimed
  <1>2. Fresh(v)'
    BY DEF Fresh, RowUntouched
  <1> QED BY <1>1, <1>2

(* What remains to be shown of a step of worker w concerns w and its row. *)
LEMMA StepInv ==
  ASSUME Inv, NEW w \in Worker, Only(w), MayChange(w), KeepsClaim(w),
         Typed', Placed(w)', Fresh(w)', \A t \in Tx : t = job[w] => RowSound(t)'
  PROVE  Inv'
  <1>1. ASSUME NEW v \in Worker \ {w}, pc[v] \in Claimed
        PROVE  RowUntouched(job[v]) /\ (pc'[w] \in Claimed => job[v] # job[w])
    <2>1. job[v] \in Tx /\ status[job[v]] # "pending"
      BY <1>1 DEF Inv, Placed, Claimed
    <2>2. pc[w] \in Claimed => job[v] # job[w]
      BY <1>1 DEF Inv, Exclusive
    <2> QED BY <2>1, <2>2 DEF Only, MayChange, KeepsClaim
  <1>2. \A v \in Worker : Placed(v)' /\ Fresh(v)'
    <2> SUFFICES ASSUME NEW v \in Worker \ {w} PROVE Placed(v)' /\ Fresh(v)'
      OBVIOUS
    <2> QED BY <1>1, OtherWorker DEF Inv, Only
  <1>3. Exclusive'
    <2>1. \A v \in Worker \ {w} : pc'[v] \in Claimed /\ pc'[w] \in Claimed => job'[v] # job'[w]
      BY <1>1 DEF Only, KeepsClaim
    <2>2. \A u, v \in Worker \ {w} : u # v /\ pc'[u] \in Claimed /\ pc'[v] \in Claimed => job'[u] # job'[v]
      BY DEF Only, Inv, Exclusive
    <2> QED BY <2>1, <2>2 DEF Exclusive
  <1>4. \A t \in Tx : RowSound(t)'
    BY UntouchedRow DEF Inv, Only
  <1> QED BY <1>2, <1>3, <1>4 DEF Inv

LEMMA CallFacts ==
  ASSUME Typed, NEW w \in Worker, NEW kind \in {"db", "fx"}, NEW ok \in BOOLEAN, NEW applied \in BOOLEAN,
         Call(kind, w, ok, applied), job[w] \in Tx
  PROVE  /\ FaultsTyped' /\ clouded \subseteq clouded'
         /\ ok => applied
         /\ ~ok /\ (kind = "db" \/ applied) => job[w] \in clouded'
  BY BasketFacts DEF Typed, FaultsTyped, Call, Fault, faultVars

-----------------------------------------------------------------------------
(* The mint effects and their messages leave every worker and row alone. *)
LEMMA EventInv == ASSUME Inv, NEW t \in Tx, MintEvent(t) \/ enqueueUsdcConversion(t) PROVE Inv'
  <1>1. UNCHANGED <<status, pc, job, retries, attached, next, bought, entries, skipped, clouded, faults>>
    BY DEF MintEvent, enqueueUsdcConversion, slotVars, bookVars, faultVars
  <1>2. MessagesTyped'
    <2> USE BasketFacts DEF Inv, Typed, MessagesTyped
    <2>1. CASE MintEvent(t)
      BY <2>1 DEF MintEvent
    <2>2. CASE enqueueUsdcConversion(t)
      <3>1. queued' \in [Tx -> [0..MaxRetries -> Nat]]
        BY <2>2, Bump DEF enqueueUsdcConversion, Put
      <3>2. found' \in [Tx -> 0..MaxEvents] /\ events' = events /\ \A u \in Tx : found'[u] <= events[u]
        BY <2>2 DEF enqueueUsdcConversion
      <3> QED BY <3>1, <3>2
    <2> QED BY <2>1, <2>2
  <1>3. Typed'
    BY <1>1, <1>2 DEF Inv, Typed, WorkersTyped, RowsTyped, FaultsTyped
  <1>4. Exclusive' /\ \A w \in Worker : Placed(w)' /\ Fresh(w)'
    BY <1>1 DEF Inv, Exclusive, Placed, Fresh, Due
  <1>5. \A u \in Tx : RowSound(u)'
    BY <1>1 DEF Inv, RowSound
  <1> QED BY <1>3, <1>4, <1>5 DEF Inv

LEMMA DeliverInv ==
  ASSUME Inv, NEW w \in Worker, NEW t \in Tx, NEW r \in 0..MaxRetries, Deliver(w, t, r) PROVE Inv'
  <1> USE BasketFacts
  <1>a. Typed /\ Placed(w) /\ pc[w] = "idle" /\ next[w] = 1
    BY DEF Inv, Deliver, Placed
  <1>b. /\ UNCHANGED <<status, found, events, attached, next, bought, entries, skipped, clouded, faults>>
        /\ pc' = [pc EXCEPT ![w] = "claim"] /\ job' = [job EXCEPT ![w] = t]
        /\ retries' = [retries EXCEPT ![w] = r]
        /\ queued[t][r] > 0 /\ queued' = [queued EXCEPT ![t][r] = @ - 1]
    BY DEF Deliver, Goto, eventVars, bookVars, faultVars
  <1>c. pc'[w] = "claim" /\ job'[w] = t /\ next'[w] = 1
    BY <1>a, <1>b DEF Typed, WorkersTyped
  <1>1. Typed'
    <2>1. queued' \in [Tx -> [0..MaxRetries -> Nat]]
      BY <1>a, <1>b DEF Typed, MessagesTyped
    <2>2. WorkersTyped'
      BY <1>a, <1>b DEF Typed, WorkersTyped, Steps
    <2> QED BY <1>a, <1>b, <2>1, <2>2 DEF Typed, RowsTyped, MessagesTyped, FaultsTyped
  <1>2. \A u \in Tx : RowUntouched(u)
    BY <1>b DEF RowUntouched
  <1>3. Only(w) /\ MayChange(w) /\ KeepsClaim(w)
    BY <1>a, <1>b, <1>c, <1>2 DEF Only, MayChange, KeepsClaim, Typed, WorkersTyped, Claimed
  <1>4. Placed(w)' /\ Fresh(w)'
    BY <1>c DEF Placed, Fresh, Claimed
  <1>5. \A u \in Tx : RowSound(u)'
    BY <1>b, <1>2, UntouchedRow DEF Inv
  <1> QED BY <1>1, <1>3, <1>4, <1>5, StepInv

LEMMA ClaimInv == ASSUME Inv, NEW w \in Worker, claimTransaction(w) PROVE Inv'
  <1> USE BasketFacts
  <1>t. PICK t \in Tx : t = job[w]
    BY DEF Inv, claimTransaction, Placed
  <1>a. Typed /\ Placed(w) /\ pc[w] = "claim" /\ next[w] = 1 /\ RowSound(t)
    BY <1>t DEF Inv, claimTransaction, Placed
  <1>b. UNCHANGED <<found, events, queued, job, retries, attached, next, bought, entries, skipped>>
    BY DEF claimTransaction, eventVars, slotVars, bookVars
  <1>c. PICK ok \in BOOLEAN, applied \in BOOLEAN :
          /\ Call("db", w, ok, applied)
          /\ status' = IF applied /\ Claimable(t) THEN [status EXCEPT ![t] = "processing"] ELSE status
          /\ pc' = [pc EXCEPT ![w] = IF ~ok THEN "nack" ELSE IF Claimable(t) THEN "basket" ELSE "ack"]
    BY <1>t DEF claimTransaction, Goto
  <1>d. FaultsTyped' /\ clouded \subseteq clouded' /\ (ok => applied)
    BY <1>t, <1>a, <1>c, CallFacts
  <1>e. /\ status' = [status EXCEPT ![t] = "processing"] \/ UNCHANGED status
        /\ status[t] # "pending" => UNCHANGED status
        /\ pc'[w] \in {"nack", "ack", "basket"}
        /\ pc'[w] = "basket" => status[t] = "pending" /\ status'[t] = "processing"
    BY <1>t, <1>a, <1>c, <1>d DEF Claimable, Typed, WorkersTyped, RowsTyped
  <1>f. pc' \in [Worker -> Steps] /\ \A v \in Worker \ {w} : pc'[v] = pc[v]
    BY <1>t, <1>a, <1>c, <1>e DEF Typed, WorkersTyped, Steps
  <1>g. status' \in [Tx -> {"pending", "processing", "completed"}] /\ \A u \in Tx \ {t} : status'[u] = status[u]
    BY <1>t, <1>a, <1>e DEF Typed, RowsTyped
  <1>1. Typed'
    BY <1>t, <1>a, <1>b, <1>d, <1>f, <1>g DEF Typed, WorkersTyped, RowsTyped, MessagesTyped
  <1>2. \A u \in Tx : u # t => RowUntouched(u)
    BY <1>t, <1>b, <1>g DEF RowUntouched
  <1>3. status[t] # "pending" => \A u \in Tx : RowUntouched(u)
    BY <1>t, <1>b, <1>e DEF RowUntouched
  <1>4. Only(w) /\ MayChange(w) /\ KeepsClaim(w)
    BY <1>t, <1>a, <1>b, <1>d, <1>e, <1>f, <1>2, <1>3 DEF Only, MayChange, KeepsClaim, Claimed
  <1>5. Placed(w)' /\ Fresh(w)'
    BY <1>t, <1>a, <1>b, <1>d, <1>e DEF Placed, Fresh, Claimed, RowSound
  <1>6. RowSound(t)'
    BY <1>t, <1>a, <1>b, <1>d, <1>e, <1>g DEF RowSound, Typed, RowsTyped
  <1> QED BY <1>t, <1>1, <1>4, <1>5, <1>6, StepInv

LEMMA BasketInv == ASSUME Inv, NEW w \in Worker, GetCurrentBasket(w) PROVE Inv'
  <1> USE BasketFacts
  <1>t. PICK t \in Tx : t = job[w]
    BY DEF Inv, GetCurrentBasket, Placed
  <1>a. /\ Typed /\ Placed(w) /\ Fresh(w) /\ pc[w] = "basket" /\ next[w] = 1 /\ RowSound(t)
        /\ status[t] = "processing" /\ pc[w] \in Claimed
    BY <1>t DEF Inv, GetCurrentBasket, Placed, Claimed
  <1>b. UNCHANGED <<status, found, events, queued, job, retries, attached, next, bought, entries>>
    BY DEF GetCurrentBasket, eventVars, slotVars
  <1>c. /\ \/ pc' = [pc EXCEPT ![w] = "buy"]
           \/ pc' = [pc EXCEPT ![w] = "ack"]
           \/ pc' = [pc EXCEPT ![w] = "release"]
        /\ skipped' = [skipped EXCEPT ![t] = {}] \/ UNCHANGED skipped
        /\ FaultsTyped' /\ clouded \subseteq clouded'
    BY <1>t, <1>a DEF GetCurrentBasket, Goto, Fault, faultVars, Typed, FaultsTyped
  <1>d. pc' \in [Worker -> Steps] /\ pc'[w] \in {"buy", "ack", "release"} /\ \A v \in Worker \ {w} : pc'[v] = pc[v]
    <2>1. pc \in [Worker -> Steps] /\ \E s \in {"buy", "ack", "release"} : pc' = [pc EXCEPT ![w] = s]
      BY <1>a, <1>c DEF Typed, WorkersTyped
    <2> QED BY <2>1 DEF Steps
  <1>e. skipped' \in [Tx -> SUBSET Currency] /\ \A u \in Tx \ {t} : skipped'[u] = skipped[u]
    BY <1>t, <1>a, <1>c DEF Typed, RowsTyped
  <1>1. Typed'
    BY <1>t, <1>a, <1>b, <1>c, <1>d, <1>e DEF Typed, WorkersTyped, RowsTyped, MessagesTyped
  <1>2. Only(w) /\ MayChange(w) /\ KeepsClaim(w)
    BY <1>t, <1>a, <1>b, <1>c, <1>d, <1>e DEF Only, MayChange, KeepsClaim, RowUntouched
  <1>3. Placed(w)'
    BY <1>t, <1>a, <1>b, <1>d DEF Placed, Claimed
  <1>4. Fresh(w)'
    <2>1. t \notin clouded' => \A c \in Currency : bought'[t][c] = 0
      BY <1>t, <1>a, <1>b, <1>c DEF Fresh
    <2> QED BY <1>t, <1>b, <1>d, <2>1 DEF Fresh
  <1>5. RowSound(t)'
    BY <1>t, <1>a, <1>b, <1>c DEF RowSound
  <1> QED BY <1>t, <1>1, <1>2, <1>3, <1>4, <1>5, StepInv

(* The loop goes on: an attempt that has dealt with the currency at next is past it. *)
LEMMA NextCurrencyFacts ==
  ASSUME Typed, NEW w \in Worker, NextCurrency(w), next[w] <= Len(Basket)
  PROVE  /\ next'[w] = next[w] + 1 /\ next' \in [Worker -> 1..(Len(Basket) + 1)]
         /\ pc' \in [Worker -> Steps] /\ pc'[w] \in {"buy", "complete"}
         /\ pc'[w] = "buy" => next'[w] <= Len(Basket)
         /\ pc'[w] = "complete" => next'[w] = Len(Basket) + 1
         /\ \A v \in Worker \ {w} : pc'[v] = pc[v] /\ next'[v] = next[v]
  <1> USE BasketFacts DEF NextCurrency, Goto, Typed, WorkersTyped
  <1>1. next[w] \in 1..Len(Basket)
    OBVIOUS
  <1>2. next'[w] = next[w] + 1 /\ next' \in [Worker -> 1..(Len(Basket) + 1)]
    BY <1>1
  <1>3. pc' \in [Worker -> Steps] /\ pc'[w] = IF next[w] < Len(Basket) THEN "buy" ELSE "complete"
    BY DEF Steps
  <1> QED BY <1>1, <1>2, <1>3

LEMMA ConvertInv == ASSUME Inv, NEW w \in Worker, ConvertCurrency(w) PROVE Inv'
  <1> USE BasketFacts
  <1>t. PICK t \in Tx : t = job[w]
    BY DEF Inv, ConvertCurrency, Placed
  <1>a. /\ Typed /\ Placed(w) /\ Fresh(w) /\ pc[w] = "buy" /\ RowSound(t)
        /\ status[t] = "processing" /\ pc[w] \in Claimed
    BY <1>t DEF Inv, ConvertCurrency, Placed, Claimed
  <1>n. PICK n \in 1..Len(Basket) : n = next[w]
    BY <1>a DEF Placed, Typed, WorkersTyped
  <1>m. n \in DOMAIN Basket /\ n \in Nat /\ n >= n /\ \A i \in DOMAIN Basket : i \in Nat
    OBVIOUS
  <1>i. PICK c \in Currency : c = Basket[n] /\ c = Due(w)
    BY <1>n DEF Due
  <1>b. UNCHANGED <<status, found, events, queued, job, retries, attached, entries>>
    BY DEF ConvertCurrency, eventVars, slotVars
  <1>c. PICK ok \in BOOLEAN, applied \in BOOLEAN :
          /\ Call("fx", w, ok, applied)
          /\ bought' = IF applied THEN [bought EXCEPT ![t][c] = @ + 1] ELSE bought
          /\ IF ok THEN Goto(w, "record") /\ UNCHANGED <<next, skipped>>
             ELSE NextCurrency(w) /\ skipped' = [skipped EXCEPT ![t] = @ \cup {c}]
    BY <1>t, <1>i DEF ConvertCurrency, AfterPurchase
  <1>d. FaultsTyped' /\ clouded \subseteq clouded' /\ (ok => applied) /\ (~ok /\ applied => t \in clouded')
    BY <1>t, <1>a, <1>c, CallFacts
  <1>e. /\ bought' \in [Tx -> [Currency -> Nat]] /\ \A u \in Tx \ {t} : bought'[u] = bought[u]
        /\ \A x \in Currency \ {c} : bought'[t][x] = bought[t][x]
        /\ bought'[t][c] = IF applied THEN bought[t][c] + 1 ELSE bought[t][c]
    BY <1>a, <1>c, Bump DEF Typed, RowsTyped
  <1>f. /\ entries \in [Tx -> [Currency -> Nat]] /\ bought \in [Tx -> [Currency -> Nat]]
        /\ \A x \in Currency : entries[t][x] <= bought[t][x]
    BY <1>a DEF Typed, RowsTyped, RowSound
  <1>g. \A x \in Currency : entries[t][x] \in Nat /\ bought[t][x] \in Nat /\ bought'[t][x] \in Nat
    BY <1>e, <1>f
  <1>h. t \notin clouded' => /\ \A i \in DOMAIN Basket : i >= n => bought[t][Basket[i]] = 0
                            /\ \A x \in Currency : bought[t][x] <= 1
                            /\ bought'[t][c] <= 1 /\ (~ok => bought'[t][c] = 0)
    <2> SUFFICES ASSUME t \notin clouded'
                 PROVE  /\ \A i \in DOMAIN Basket : i >= n => bought[t][Basket[i]] = 0
                        /\ \A x \in Currency : bought[t][x] <= 1
                        /\ bought'[t][c] <= 1 /\ (~ok => bought'[t][c] = 0)
      OBVIOUS
    <2>1. \A i \in DOMAIN Basket : i >= n => bought[t][Basket[i]] = 0
      BY <1>t, <1>a, <1>d, <1>n DEF Fresh
    <2>2. bought[t][Basket[n]] = 0
      BY <2>1, <1>m
    <2>3. bought[t][c] = 0
      BY <2>2, <1>i
    <2> QED BY <2>1, <2>3, <1>a, <1>d, <1>e DEF RowSound
  <1>1. RowSound(t)'
    <2>0. \A x \in Currency : bought[t][x] <= bought'[t][x]
      BY <1>e, <1>g
    <2>1. \A x \in Currency : entries[t][x] <= bought'[t][x]
      BY <2>0, <1>f, <1>g
    <2>2. t \notin clouded' => \A x \in Currency : bought'[t][x] <= 1
      BY <1>e, <1>h
    <2> QED BY <1>a, <1>b, <2>1, <2>2 DEF RowSound
  <1>2. \A u \in Tx : u # t => bought'[u] = bought[u]
    BY <1>e
  <1>3. CASE ok
    <2>1. /\ pc' = [pc EXCEPT ![w] = "record"] /\ UNCHANGED <<next, skipped>>
          /\ bought'[t][c] = bought[t][c] + 1
      BY <1>3, <1>c, <1>d, <1>e DEF Goto
    <2>2. pc' \in [Worker -> Steps] /\ pc'[w] = "record" /\ \A v \in Worker \ {w} : pc'[v] = pc[v]
      BY <1>a, <2>1 DEF Typed, WorkersTyped, Steps
    <2>3. Typed'
      BY <1>a, <1>b, <1>d, <1>e, <2>1, <2>2 DEF Typed, WorkersTyped, RowsTyped, MessagesTyped
    <2>4. Only(w) /\ MayChange(w) /\ KeepsClaim(w)
      BY <1>t, <1>a, <1>b, <1>d, <1>2, <2>1, <2>2 DEF Only, MayChange, KeepsClaim, RowUntouched
    <2>5. entries'[t][c] < bought'[t][c]
      BY <1>b, <1>f, <1>g, <2>1
    <2>6. Placed(w)'
      <3>1. Due(w)' = c
        BY <1>i, <1>n, <2>1 DEF Due
      <3> QED BY <1>t, <1>a, <1>b, <2>1, <2>2, <2>5, <3>1 DEF Placed, Claimed
    <2>7. Fresh(w)'
      <3>1. t \notin clouded' => \A i \in DOMAIN Basket : i > n => bought'[t][Basket[i]] = 0
        <4> SUFFICES ASSUME t \notin clouded', NEW i \in DOMAIN Basket, i > n PROVE bought'[t][Basket[i]] = 0
          OBVIOUS
        <4>1. i \in Nat /\ i # n /\ i >= n
          BY <1>m
        <4>2. Basket[i] # c /\ Basket[i] \in Currency
          BY <4>1, <1>i, <1>m
        <4> QED BY <4>1, <4>2, <1>e, <1>h
      <3> QED BY <3>1, <1>t, <1>b, <1>n, <2>1, <2>2 DEF Fresh
    <2> QED BY <1>t, <1>1, <2>3, <2>4, <2>6, <2>7, StepInv
  <1>4. CASE ~ok
    <2>1. NextCurrency(w) /\ skipped' = [skipped EXCEPT ![t] = @ \cup {c}]
      BY <1>4, <1>c
    <2>2. /\ next'[w] = n + 1 /\ next' \in [Worker -> 1..(Len(Basket) + 1)]
          /\ pc' \in [Worker -> Steps] /\ pc'[w] \in {"buy", "complete"}
          /\ pc'[w] = "buy" => next'[w] <= Len(Basket)
          /\ pc'[w] = "complete" => next'[w] = Len(Basket) + 1
          /\ \A v \in Worker \ {w} : pc'[v] = pc[v] /\ next'[v] = next[v]
      BY <1>a, <1>n, <2>1, NextCurrencyFacts
    <2>3. /\ skipped' \in [Tx -> SUBSET Currency] /\ \A u \in Tx \ {t} : skipped'[u] = skipped[u]
          /\ skipped[t] \subseteq skipped'[t] /\ c \in skipped'[t]
      BY <1>a, <2>1 DEF Typed, RowsTyped
    <2>4. Typed'
      BY <1>a, <1>b, <1>d, <1>e, <2>2, <2>3 DEF Typed, WorkersTyped, RowsTyped, MessagesTyped
    <2>5. Only(w) /\ MayChange(w) /\ KeepsClaim(w)
      BY <1>t, <1>a, <1>b, <1>d, <1>2, <2>2, <2>3 DEF Only, MayChange, KeepsClaim, RowUntouched
    <2>6. Placed(w)'
      <3>1. \A i \in DOMAIN Basket : i < n + 1 => Basket[i] \in skipped'[t] \/ entries'[t][Basket[i]] > 0
        <4> SUFFICES ASSUME NEW i \in DOMAIN Basket, i < n + 1
                     PROVE  Basket[i] \in skipped'[t] \/ entries'[t][Basket[i]] > 0
          OBVIOUS
        <4>1. i < n \/ i = n
          BY <1>m
        <4>2. CASE i = n
          BY <4>2, <1>i, <2>3
        <4>3. CASE i < n
          <5>1. Basket[i] \in skipped[t] \/ entries[t][Basket[i]] > 0
            BY <4>3, <1>t, <1>a, <1>n DEF Placed
          <5> QED BY <5>1, <1>b, <2>3
        <4> QED BY <4>1, <4>2, <4>3
      <3> QED BY <3>1, <1>t, <1>a, <1>b, <2>2 DEF Placed, Claimed
    <2>7. Fresh(w)'
      <3>1. t \notin clouded' => \A i \in DOMAIN Basket : i >= n + 1 => bought'[t][Basket[i]] = 0
        <4> SUFFICES ASSUME t \notin clouded', NEW i \in DOMAIN Basket, i >= n + 1 PROVE bought'[t][Basket[i]] = 0
          OBVIOUS
        <4>1. i \in Nat /\ i # n /\ i >= n
          BY <1>m
        <4>2. Basket[i] # c /\ Basket[i] \in Currency
          BY <4>1, <1>i, <1>m
        <4> QED BY <4>1, <4>2, <1>e, <1>h
      <3> QED BY <3>1, <1>t, <1>b, <2>2 DEF Fresh
    <2> QED BY <1>t, <1>1, <2>4, <2>5, <2>6, <2>7, StepInv
  <1> QED BY <1>3, <1>4

LEMMA RecordInv == ASSUME Inv, NEW w \in Worker, Record(w) PROVE Inv'
  <1> USE BasketFacts
  <1>t. PICK t \in Tx : t = job[w]
    BY DEF Inv, Record, Placed
  <1>a. /\ Typed /\ Placed(w) /\ Fresh(w) /\ pc[w] = "record" /\ RowSound(t)
        /\ status[t] = "processing" /\ pc[w] \in Claimed
    BY <1>t DEF Inv, Record, Placed, Claimed
  <1>n. PICK n \in 1..Len(Basket) : n = next[w]
    BY <1>a DEF Placed, Typed, WorkersTyped
  <1>m. n \in DOMAIN Basket /\ n \in Nat /\ \A i \in DOMAIN Basket : i \in Nat
    OBVIOUS
  <1>i. PICK c \in Currency : c = Basket[n] /\ c = Due(w)
    BY <1>n DEF Due
  <1>b. UNCHANGED <<status, found, events, queued, job, retries, attached, bought, skipped>>
    BY DEF Record, eventVars, slotVars
  <1>c. PICK ok \in BOOLEAN, applied \in BOOLEAN :
          /\ Call("db", w, ok, applied)
          /\ entries' = IF applied THEN [entries EXCEPT ![t][c] = @ + 1] ELSE entries
          /\ IF ok THEN NextCurrency(w) ELSE Goto(w, "release") /\ UNCHANGED next
    BY <1>t, <1>i DEF Record
  <1>d. FaultsTyped' /\ clouded \subseteq clouded' /\ (ok => applied) /\ (~ok => t \in clouded')
    BY <1>t, <1>a, <1>c, CallFacts
  <1>e. /\ entries' \in [Tx -> [Currency -> Nat]] /\ \A u \in Tx \ {t} : entries'[u] = entries[u]
        /\ \A x \in Currency \ {c} : entries'[t][x] = entries[t][x]
        /\ entries'[t][c] = IF applied THEN entries[t][c] + 1 ELSE entries[t][c]
    BY <1>a, <1>c, Bump DEF Typed, RowsTyped
  <1>f. \A x \in Currency : /\ entries[t][x] \in Nat /\ bought[t][x] \in Nat /\ entries'[t][x] \in Nat
                            /\ entries[t][x] <= entries'[t][x] /\ entries[t][x] <= bought[t][x]
    <2>1. \A x \in Currency : entries[t][x] \in Nat /\ bought[t][x] \in Nat /\ entries'[t][x] \in Nat
      BY <1>a, <1>e DEF Typed, RowsTyped
    <2>2. \A x \in Currency : entries[t][x] <= bought[t][x]
      BY <1>a DEF RowSound
    <2>3. \A x \in Currency : entries[t][x] <= entries'[t][x]
      BY <2>1, <1>e
    <2> QED BY <2>1, <2>2, <2>3
  <1>g. entries[t][c] < bought[t][c]
    BY <1>t, <1>a, <1>i DEF Placed
  <1>1. RowSound(t)'
    <2>1. \A x \in Currency : entries'[t][x] <= bought[t][x]
      BY <1>e, <1>f, <1>g
    <2> QED BY <1>a, <1>b, <1>d, <2>1 DEF RowSound
  <1>3. CASE ok
    <2>2. /\ next'[w] = n + 1 /\ next' \in [Worker -> 1..(Len(Basket) + 1)]
          /\ pc' \in [Worker -> Steps] /\ pc'[w] \in {"buy", "complete"}
          /\ pc'[w] = "buy" => next'[w] <= Len(Basket)
          /\ pc'[w] = "complete" => next'[w] = Len(Basket) + 1
          /\ \A v \in Worker \ {w} : pc'[v] = pc[v] /\ next'[v] = next[v]
      BY <1>3, <1>a, <1>c, <1>n, NextCurrencyFacts
    <2>3. entries'[t][c] > 0
      BY <1>3, <1>d, <1>e, <1>f
    <2>4. Typed'
      BY <1>a, <1>b, <1>d, <1>e, <2>2 DEF Typed, WorkersTyped, RowsTyped, MessagesTyped
    <2>5. Only(w) /\ MayChange(w) /\ KeepsClaim(w)
      BY <1>t, <1>a, <1>b, <1>d, <1>e, <2>2 DEF Only, MayChange, KeepsClaim, RowUntouched
    <2>6. Placed(w)'
      <3>1. \A i \in DOMAIN Basket : i < n + 1 => Basket[i] \in skipped'[t] \/ entries'[t][Basket[i]] > 0
        <4> SUFFICES ASSUME NEW i \in DOMAIN Basket, i < n + 1
                     PROVE  Basket[i] \in skipped'[t] \/ entries'[t][Basket[i]] > 0
          OBVIOUS
        <4>1. i < n \/ i = n
          BY <1>m
        <4>2. CASE i = n
          BY <4>2, <1>i, <2>3
        <4>3. CASE i < n
          <5>1. Basket[i] \in skipped[t] \/ entries[t][Basket[i]] > 0
            BY <4>3, <1>t, <1>a, <1>n DEF Placed
          <5>2. Basket[i] \in Currency
            OBVIOUS
          <5> QED BY <5>1, <5>2, <1>b, <1>f
        <4> QED BY <4>1, <4>2, <4>3
      <3> QED BY <3>1, <1>t, <1>a, <1>b, <2>2 DEF Placed, Claimed
    <2>7. Fresh(w)'
      <3>1. t \notin clouded' => \A i \in DOMAIN Basket : i >= n + 1 => bought[t][Basket[i]] = 0
        <4> SUFFICES ASSUME t \notin clouded', NEW i \in DOMAIN Basket, i >= n + 1 PROVE bought[t][Basket[i]] = 0
          OBVIOUS
        <4>1. i > n
          BY <1>m
        <4> QED BY <4>1, <1>t, <1>a, <1>d, <1>n DEF Fresh
      <3> QED BY <3>1, <1>t, <1>b, <2>2 DEF Fresh
    <2> QED BY <1>t, <1>1, <2>4, <2>5, <2>6, <2>7, StepInv
  <1>4. CASE ~ok
    <2>1. pc' = [pc EXCEPT ![w] = "release"] /\ UNCHANGED next
      BY <1>4, <1>c DEF Goto
    <2>2. pc' \in [Worker -> Steps] /\ pc'[w] = "release" /\ \A v \in Worker \ {w} : pc'[v] = pc[v]
      BY <1>a, <2>1 DEF Typed, WorkersTyped, Steps
    <2>3. Typed'
      BY <1>a, <1>b, <1>d, <1>e, <2>1, <2>2 DEF Typed, WorkersTyped, RowsTyped, MessagesTyped
    <2>4. Only(w) /\ MayChange(w) /\ KeepsClaim(w)
      BY <1>t, <1>a, <1>b, <1>d, <1>e, <2>1, <2>2 DEF Only, MayChange, KeepsClaim, RowUntouched
    <2>5. Placed(w)'
      BY <1>t, <1>a, <1>b, <2>2 DEF Placed, Claimed
    <2>6. Fresh(w)'
      BY <1>4, <1>t, <1>b, <1>d DEF Fresh
    <2> QED BY <1>t, <1>1, <2>3, <2>4, <2>5, <2>6, StepInv
  <1> QED BY <1>3, <1>4

LEMMA CompleteInv == ASSUME Inv, NEW w \in Worker, Complete(w) PROVE Inv'
  <1> USE BasketFacts
  <1>t. PICK t \in Tx : t = job[w]
    BY DEF Inv, Complete, Placed
  <1>a. /\ Typed /\ Placed(w) /\ pc[w] = "complete" /\ RowSound(t) /\ next[w] = Len(Basket) + 1
        /\ status[t] = "processing" /\ pc[w] \in Claimed
    BY <1>t DEF Inv, Complete, Placed, Claimed
  <1>b. UNCHANGED <<found, events, queued, job, retries, attached, next, bought, entries, skipped>>
    BY DEF Complete, eventVars, slotVars, bookVars
  <1>c. PICK ok \in BOOLEAN, applied \in BOOLEAN :
          /\ Call("db", w, ok, applied)
          /\ status' = IF applied THEN [status EXCEPT ![t] = "completed"] ELSE status
          /\ pc' = [pc EXCEPT ![w] = IF ok THEN "ack" ELSE "release"]
    BY <1>t DEF Complete, Goto, Converted
  <1>d. FaultsTyped' /\ clouded \subseteq clouded' /\ (ok => applied) /\ (~ok => t \in clouded')
    BY <1>t, <1>a, <1>c, CallFacts
  <1>e. /\ status' \in [Tx -> {"pending", "processing", "completed"}]
        /\ \A u \in Tx \ {t} : status'[u] = status[u]
        /\ status'[t] \in {"processing", "completed"}
    BY <1>a, <1>c DEF Typed, RowsTyped
  <1>f. /\ pc' \in [Worker -> Steps] /\ \A v \in Worker \ {w} : pc'[v] = pc[v]
        /\ pc'[w] = IF ok THEN "ack" ELSE "release"
    BY <1>a, <1>c DEF Typed, WorkersTyped, Steps
  <1>1. Typed'
    BY <1>a, <1>b, <1>d, <1>e, <1>f DEF Typed, WorkersTyped, RowsTyped, MessagesTyped
  <1>2. Only(w) /\ MayChange(w) /\ KeepsClaim(w)
    BY <1>t, <1>a, <1>b, <1>d, <1>e, <1>f DEF Only, MayChange, KeepsClaim, RowUntouched
  <1>3. Placed(w)'
    BY <1>t, <1>a, <1>b, <1>e, <1>f DEF Placed, Claimed
  <1>4. Fresh(w)'
    BY <1>t, <1>b, <1>d, <1>f DEF Fresh, Claimed
  <1>5. RowSound(t)'
    <2>1. ASSUME NEW c \in Currency \ skipped[t] PROVE entries[t][c] > 0
      <3>1. PICK i \in DOMAIN Basket : c = Basket[i]
        OBVIOUS
      <3>2. i < next[w]
        BY <1>a
      <3> QED BY <3>1, <3>2, <1>t, <1>a DEF Placed
    <2> QED BY <1>a, <1>b, <1>d, <1>e, <2>1 DEF RowSound
  <1> QED BY <1>t, <1>1, <1>2, <1>3, <1>4, <1>5, StepInv

LEMMA ReleaseInv == ASSUME Inv, NEW w \in Worker, releaseClaim(w) PROVE Inv'
  <1> USE BasketFacts
  <1>t. PICK t \in Tx : t = job[w]
    BY DEF Inv, releaseClaim, Placed
  <1>a. Typed /\ Placed(w) /\ Fresh(w) /\ pc[w] = "release" /\ RowSound(t) /\ pc[w] \in Claimed
    BY <1>t DEF Inv, releaseClaim, Claimed
  <1>b. /\ UNCHANGED <<found, events, queued, job, retries, attached, next, bought, entries, skipped>>
        /\ pc' = [pc EXCEPT ![w] = "nack"]
    BY DEF releaseClaim, eventVars, slotVars, bookVars, Goto
  <1>c. PICK ok \in BOOLEAN, applied \in BOOLEAN :
          /\ Call("db", w, ok, applied)
          /\ status' = IF applied /\ Releasable(t) THEN [status EXCEPT ![t] = "pending"] ELSE status
    BY <1>t DEF releaseClaim
  <1>d. FaultsTyped' /\ clouded \subseteq clouded'
    BY <1>t, <1>a, <1>c, CallFacts
  <1>e. /\ status' \in [Tx -> {"pending", "processing", "completed"}]
        /\ \A u \in Tx \ {t} : status'[u] = status[u]
        /\ status'[t] \in {status[t], "pending"}
    BY <1>a, <1>c DEF Typed, RowsTyped
  <1>f. pc' \in [Worker -> Steps] /\ pc'[w] = "nack" /\ \A v \in Worker \ {w} : pc'[v] = pc[v]
    BY <1>a, <1>b DEF Typed, WorkersTyped, Steps
  <1>1. Typed'
    BY <1>a, <1>b, <1>d, <1>e, <1>f DEF Typed, WorkersTyped, RowsTyped, MessagesTyped
  <1>2. Only(w) /\ MayChange(w) /\ KeepsClaim(w)
    BY <1>t, <1>a, <1>b, <1>d, <1>e, <1>f DEF Only, MayChange, KeepsClaim, RowUntouched, Claimed
  <1>3. Placed(w)' /\ Fresh(w)'
    BY <1>t, <1>b, <1>f DEF Placed, Fresh, Claimed
  <1>4. RowSound(t)'
    <2>1. t \notin clouded => \A c \in Currency : bought[t][c] = 0
      BY <1>t, <1>a DEF Fresh
    <2> QED BY <1>a, <1>b, <1>d, <1>e, <2>1 DEF RowSound
  <1> QED BY <1>t, <1>1, <1>2, <1>3, <1>4, StepInv

-----------------------------------------------------------------------------
LEMMA FreeFacts ==
  ASSUME Typed, NEW w \in Worker, Free(w)
  PROVE  /\ pc' \in [Worker -> Steps] /\ job' \in [Worker -> Tx \cup {NoTx}]
         /\ retries' \in [Worker -> 0..MaxRetries] /\ next' \in [Worker -> 1..(Len(Basket) + 1)]
         /\ pc'[w] = "idle" /\ next'[w] = 1
         /\ \A v \in Worker \ {w} : pc'[v] = pc[v] /\ job'[v] = job[v] /\ next'[v] = next[v]
  BY BasketFacts DEF Typed, WorkersTyped, Free, Goto, Steps

(* The message goes back, with as many or one more retries, or it does not. *)
LEMMA PutTyped ==
  ASSUME Typed, NEW t \in Tx, NEW r \in 0..MaxRetries PROVE Put(t, r) \in [Tx -> [0..MaxRetries -> Nat]]
  BY Bump DEF Typed, MessagesTyped, Put

(* A worker that ends, however, leaves the rows as they are. *)
LEMMA EndsInv ==
  ASSUME Inv, NEW w \in Worker, Free(w), attached' \subseteq Worker, FaultsTyped', clouded \subseteq clouded',
         queued' \in [Tx -> [0..MaxRetries -> Nat]],
         UNCHANGED <<status, found, events, bought, entries, skipped>>
  PROVE  Inv'
  <1> USE BasketFacts
  <1>1. /\ pc' \in [Worker -> Steps] /\ job' \in [Worker -> Tx \cup {NoTx}]
        /\ retries' \in [Worker -> 0..MaxRetries] /\ next' \in [Worker -> 1..(Len(Basket) + 1)]
        /\ pc'[w] = "idle" /\ next'[w] = 1
        /\ \A v \in Worker \ {w} : pc'[v] = pc[v] /\ job'[v] = job[v] /\ next'[v] = next[v]
    BY FreeFacts DEF Inv
  <1>2. Typed'
    BY <1>1 DEF Inv, Typed, WorkersTyped, RowsTyped, MessagesTyped
  <1>3. \A u \in Tx : RowUntouched(u)
    BY DEF RowUntouched
  <1>4. Only(w) /\ MayChange(w) /\ KeepsClaim(w)
    BY <1>1, <1>3 DEF Only, MayChange, KeepsClaim, Claimed
  <1>5. Placed(w)' /\ Fresh(w)'
    BY <1>1 DEF Placed, Fresh, Claimed
  <1>6. \A u \in Tx : RowSound(u)'
    BY <1>3, UntouchedRow DEF Inv
  <1> QED BY <1>2, <1>4, <1>5, <1>6, StepInv

LEMMA RequeuedTyped == ASSUME Inv, NEW w \in Worker PROVE Requeued(w) \in [Tx -> [0..MaxRetries -> Nat]]
  <1>1. Typed /\ (pc[w] # "idle" => job[w] \in Tx) /\ retries[w] \in 0..MaxRetries
    BY DEF Inv, Placed, Typed, WorkersTyped
  <1> QED BY <1>1, PutTyped DEF Requeued, Typed, MessagesTyped

LEMMA SettleInv == ASSUME Inv, NEW w \in Worker, Ack(w) \/ Nack(w) PROVE Inv'
  <1> USE BasketFacts
  <1>a. /\ Typed /\ Free(w) /\ UNCHANGED <<status, found, events, attached, bought, entries, skipped, clouded, faults>>
    BY DEF Inv, Ack, Nack, eventVars, bookVars, faultVars
  <1>1. queued' \in [Tx -> [0..MaxRetries -> Nat]]
    <2>1. CASE Ack(w)
      BY <1>a, <2>1 DEF Ack, Typed, MessagesTyped
    <2>2. CASE Nack(w)
      <3>1. job[w] \in Tx /\ retries[w] \in 0..MaxRetries
        BY <2>2 DEF Inv, Placed, Nack, Typed, WorkersTyped
      <3>2. retries[w] < MaxRetries => retries[w] + 1 \in 0..MaxRetries
        BY <3>1
      <3> QED BY <1>a, <2>2, <3>1, <3>2, PutTyped DEF Nack, Republished, Typed, MessagesTyped
    <2> QED BY <2>1, <2>2
  <1>2. attached' \subseteq Worker /\ FaultsTyped' /\ clouded \subseteq clouded'
    BY <1>a DEF Typed, WorkersTyped, FaultsTyped
  <1> QED BY <1>a, <1>1, <1>2, EndsInv

LEMMA CrashInv == ASSUME Inv, NEW w \in Worker, Crash(w) PROVE Inv'
  <1> USE BasketFacts
  <1>a. Typed /\ Free(w) /\ UNCHANGED <<status, found, events, bought, entries, skipped>>
    BY DEF Inv, Crash, eventVars, bookVars
  <1>1. queued' \in [Tx -> [0..MaxRetries -> Nat]]
    BY RequeuedTyped DEF Crash
  <1>2. attached' \subseteq Worker
    BY <1>a DEF Crash, Typed, WorkersTyped
  <1>3. FaultsTyped' /\ clouded \subseteq clouded'
    BY <1>a DEF Crash, Fault, Typed, FaultsTyped, WorkersTyped
  <1> QED BY <1>a, <1>1, <1>2, <1>3, EndsInv

(* A handler whose channel is gone goes on as before. *)
LEMMA DetachInv == ASSUME Inv, NEW w \in Worker, Detach(w) PROVE Inv'
  <1> USE BasketFacts
  <1>a. Typed /\ UNCHANGED <<status, found, events, pc, job, retries, next, bought, entries, skipped>>
    BY DEF Inv, Detach, eventVars, bookVars
  <1>1. queued' \in [Tx -> [0..MaxRetries -> Nat]]
    BY RequeuedTyped DEF Detach
  <1>2. FaultsTyped' /\ clouded \subseteq clouded' /\ attached' \subseteq Worker
    BY <1>a DEF Detach, Fault, Typed, FaultsTyped, WorkersTyped
  <1>3. Typed'
    BY <1>a, <1>1, <1>2 DEF Typed, WorkersTyped, RowsTyped, MessagesTyped
  <1>4. \A t \in Tx : RowUntouched(t)
    BY <1>a DEF RowUntouched
  <1>5. \A t \in Tx : RowSound(t)'
    BY <1>2, <1>4, UntouchedRow DEF Inv
  <1>6. \A v \in Worker : Placed(v)' /\ Fresh(v)'
    <2> SUFFICES ASSUME NEW v \in Worker PROVE Placed(v)' /\ Fresh(v)'
      OBVIOUS
    <2>1. pc[v] \in Claimed => RowUntouched(job[v])
      BY <1>4 DEF Inv, Placed, Claimed
    <2> QED BY <1>a, <1>2, <2>1, OtherWorker DEF Inv
  <1>7. Exclusive'
    BY <1>a DEF Inv, Exclusive
  <1> QED BY <1>3, <1>5, <1>6, <1>7 DEF Inv

LEMMA NextInv == Inv /\ [Next]_vars => Inv'
  <1> SUFFICES ASSUME Inv, [Next]_vars PROVE Inv'
    OBVIOUS
  <1>1. CASE UNCHANGED vars
    <2>1. UNCHANGED <<status, found, events, queued, pc, job, retries, attached, next, bought, entries, skipped,
                      clouded, faults>>
      BY <1>1 DEF vars, eventVars, slotVars, bookVars, faultVars
    <2>2. Typed' /\ Exclusive'
      BY <2>1 DEF Inv, Typed, WorkersTyped, RowsTyped, MessagesTyped, FaultsTyped, Exclusive
    <2>3. \A w \in Worker : Placed(w)' /\ Fresh(w)'
      BY <2>1 DEF Inv, Placed, Fresh, Due
    <2>4. \A t \in Tx : RowSound(t)'
      BY <2>1 DEF Inv, RowSound
    <2> QED BY <2>2, <2>3, <2>4 DEF Inv
  <1>2. ASSUME NEW w \in Worker, Consume(w) \/ Handle(w) \/ Detach(w) \/ Crash(w) PROVE Inv'
    BY <1>2, DeliverInv, ClaimInv, BasketInv, ConvertInv, RecordInv, CompleteInv, ReleaseInv, SettleInv,
       DetachInv, CrashInv DEF Consume, Handle
  <1> QED BY <1>1, <1>2, EventInv DEF Next

LEMMA SpecInv == Spec => []Inv
  BY InitInv, NextInv, PTL DEF Spec

(* usdcConversionJob.ts:282-284: "the reserve ledger must not move" for a purchase *)
(* that did not happen: for any basket, workers, retries and faults there is a     *)
(* purchase for each history row, and a completed conversion bought and booked     *)
(* every currency but those its attempt gave up.                                   *)
THEOREM LedgerIsSound == Spec => []LedgerSound
  <1>1. Inv => LedgerSound
    BY TypedIsTypeOK DEF Inv, RowSound, LedgerSound
  <1> QED BY <1>1, SpecInv, PTL

(* claimTransaction and releaseClaim: no two handlers hold a row, and a currency is *)
(* bought and booked at most once for a row that lost no call, answer or handler.   *)
THEOREM EachConvertedOnce == Spec => []ConvertedOnce
  <1>1. Inv => ConvertedOnce
    <2> SUFFICES ASSUME Inv, NEW t \in Tx \ clouded, NEW c \in Currency
                 PROVE  bought[t][c] <= 1 /\ entries[t][c] <= 1
      BY DEF Inv, Exclusive, ConvertedOnce
    <2>1. entries[t][c] \in Nat /\ bought[t][c] \in Nat
      BY DEF Inv, Typed, RowsTyped
    <2> QED BY <2>1 DEF Inv, RowSound
  <1> QED BY <1>1, SpecInv, PTL

(* A completed row stays completed: releaseClaim takes back none that a write, or *)
(* its own whose answer was lost, has completed.                                  *)
THEOREM CompletedStays == Spec => [][\A t \in Tx : status[t] = "completed" => status'[t] = "completed"]_vars
  <1>1. ASSUME Inv, [Next]_vars PROVE [\A t \in Tx : status[t] = "completed" => status'[t] = "completed"]_vars
    <2> SUFFICES ASSUME Next, NEW t \in Tx, status[t] = "completed" PROVE status'[t] = "completed"
      BY <1>1
    <2>1. status \in [Tx -> {"pending", "processing", "completed"}]
      BY <1>1 DEF Inv, Typed, RowsTyped
    <2>2. ASSUME NEW w \in Worker, Handle(w) PROVE status'[t] = "completed"
      <3>1. CASE claimTransaction(w)
        BY <3>1, <2>1 DEF claimTransaction, Claimable
      <3>2. CASE Complete(w)
        BY <3>2, <2>1 DEF Complete, Converted
      <3>3. CASE releaseClaim(w)
        BY <3>3, <2>1 DEF releaseClaim, Releasable
      <3>4. CASE GetCurrentBasket(w) \/ ConvertCurrency(w) \/ Record(w) \/ Ack(w) \/ Nack(w)
        BY <3>4 DEF GetCurrentBasket, ConvertCurrency, Record, Ack, Nack
      <3> QED BY <2>2, <3>1, <3>2, <3>3, <3>4 DEF Handle
    <2> QED BY <2>2 DEF Next, MintEvent, enqueueUsdcConversion, Consume, Deliver, Detach, Crash
  <1> QED BY <1>1, SpecInv, PTL DEF Spec

-----------------------------------------------------------------------------
(* Where an open conversion is: what keeps ConversionsEnd within reach of a fair *)
(* scheduler while the consumers stay connected.                                 *)

At(t, steps) == \E w \in Worker : job[w] = t /\ pc[w] \in steps

(* The row is about to be published, in the queue, with a consumer about to claim *)
(* it, or with one that publishes it again.                                       *)
Waiting(t) ==
    \/ found[t] > 0
    \/ \E r \in 0..MaxRetries : queued[t][r] > 0
    \/ At(t, {"claim", "nack"})

(* Every retry of a row without a cloud was paid for by a basket that refused. *)
RetriesPaid(t) ==
    /\ \A r \in 0..MaxRetries : queued[t][r] > 0 => r <= faults
    /\ \A w \in Worker : job[w] = t => /\ retries[w] <= faults
                                       /\ pc[w] \in {"release", "nack"} => retries[w] < faults

OpenInHand(t) ==
    /\ status[t] = "pending" /\ events[t] > 0 => Waiting(t)
    /\ status[t] = "processing" => At(t, Claimed)

Kept(t) == t \notin clouded => RetriesPaid(t) /\ (t \in Valid /\ faults <= MaxRetries => OpenInHand(t))

AllKept == attached = Worker /\ \A t \in Tx : Kept(t)

(* A valid mint whose effect was seen has a handler that will publish it, a message *)
(* in the queue, or a consumer; a claimed one has the consumer that claimed it.     *)
NothingStranded ==
    faults <= MaxRetries => \A t \in Valid \ clouded : OpenInHand(t)

LEMMA PutHere ==
  ASSUME Inv, NEW t \in Tx, NEW r \in 0..MaxRetries
  PROVE  /\ Put(t, r)[t][r] > 0
         /\ \A u \in Tx : u # t => Put(t, r)[u] = queued[u]
         /\ \A q \in 0..MaxRetries : /\ queued[t][q] > 0 => Put(t, r)[t][q] > 0
                                     /\ q # r => Put(t, r)[t][q] = queued[t][q]
  <1>1. queued \in [Tx -> [0..MaxRetries -> Nat]]
    BY DEF Inv, Typed, MessagesTyped
  <1>2. \A q \in 0..MaxRetries : queued[t][q] \in Nat
    BY <1>1
  <1>3. /\ \A u \in Tx \ {t} : Put(t, r)[u] = queued[u]
        /\ \A q \in 0..MaxRetries : Put(t, r)[t][q] = IF q = r THEN queued[t][q] + 1 ELSE queued[t][q]
    <2> DEFINE f == [queued EXCEPT ![t][r] = @ + 1]
    <2>1. \A x \in Tx \ {t} : f[x] = queued[x]
      BY <1>1
    <2>2. \A q \in 0..MaxRetries : f[t][q] = IF q = r THEN queued[t][q] + 1 ELSE queued[t][q]
      BY <1>1
    <2>3. f = Put(t, r)
      BY DEF Put
    <2> HIDE DEF f
    <2> QED BY <2>1, <2>2, <2>3
  <1> QED BY <1>2, <1>3

(* A step of worker w that has nothing in hand for row u. *)
LEMMA OtherRowKept ==
  ASSUME Inv, Inv', NEW w \in Worker, NEW u \in Tx, Kept(u), job'[w] # u, job[w] # u \/ pc[w] \in {"idle", "ack"},
         \A v \in Worker \ {w} : pc'[v] = pc[v] /\ job'[v] = job[v] /\ retries'[v] = retries[v],
         status'[u] = status[u], events'[u] = events[u], found'[u] = found[u], queued'[u] = queued[u],
         clouded \subseteq clouded', faults <= faults'
  PROVE  Kept(u)'
  <1> SUFFICES ASSUME u \notin clouded'
               PROVE  RetriesPaid(u)' /\ (u \in Valid /\ faults' <= MaxRetries => OpenInHand(u)')
    BY DEF Kept
  <1>1. u \notin clouded /\ RetriesPaid(u) /\ (u \in Valid /\ faults <= MaxRetries => OpenInHand(u))
    BY DEF Kept
  <1>2. /\ faults \in Nat /\ faults' \in Nat /\ MaxRetries \in Nat
        /\ \A v \in Worker : retries[v] \in Nat
    BY BasketFacts DEF Inv, Typed, WorkersTyped, FaultsTyped
  <1>3. RetriesPaid(u)'
    <2>1. \A r \in 0..MaxRetries : queued'[u][r] > 0 => r <= faults'
      BY <1>1, <1>2 DEF RetriesPaid
    <2>2. ASSUME NEW v \in Worker, job'[v] = u
          PROVE  /\ retries'[v] <= faults'
                 /\ pc'[v] \in {"release", "nack"} => retries'[v] < faults'
      <3>1. v # w
        BY <2>2
      <3> QED BY <1>1, <1>2, <2>2, <3>1 DEF RetriesPaid
    <2> QED BY <2>1, <2>2 DEF RetriesPaid
  <1>4. ASSUME NEW steps, "idle" \notin steps, "ack" \notin steps, At(u, steps) PROVE At(u, steps)'
    BY <1>4 DEF At
  <1>5. "idle" \notin Claimed /\ "ack" \notin Claimed
    BY DEF Claimed
  <1>6. (At(u, {"claim", "nack"}) => At(u, {"claim", "nack"})') /\ (At(u, Claimed) => At(u, Claimed)')
    BY <1>4, <1>5
  <1>7. ASSUME u \in Valid, faults' <= MaxRetries PROVE OpenInHand(u)'
    <2>1. OpenInHand(u)
      BY <1>1, <1>2, <1>7
    <2> QED BY <1>6, <2>1 DEF OpenInHand, Waiting
  <1> QED BY <1>3, <1>7

(* A step of worker w that keeps its delivery. *)
LEMMA HandledKept ==
  ASSUME Inv, Inv', AllKept, NEW w \in Worker, job[w] \in Tx,
         \A v \in Worker \ {w} : pc'[v] = pc[v],
         UNCHANGED <<job, retries, attached, queued, found, events>>,
         \A u \in Tx : u # job[w] => status'[u] = status[u],
         clouded \subseteq clouded', faults <= faults',
         job[w] \notin clouded' =>
            /\ pc'[w] \in {"release", "nack"} => retries[w] < faults'
            /\ job[w] \in Valid /\ status'[job[w]] = "pending" => pc'[w] \in {"claim", "nack"}
            /\ job[w] \in Valid /\ status'[job[w]] = "processing" =>
                  pc'[w] \in Claimed \/ (status[job[w]] = "processing" /\ pc[w] = "claim")
  PROVE  AllKept'
  <1>1. attached' = Worker
    BY DEF AllKept
  <1>2. ASSUME NEW u \in Tx, u # job[w] PROVE Kept(u)'
    BY <1>2, OtherRowKept DEF AllKept
  <1>3. Kept(job[w])'
    <2> DEFINE t == job[w]
    <2> SUFFICES ASSUME t \notin clouded'
                 PROVE  RetriesPaid(t)' /\ (t \in Valid /\ faults' <= MaxRetries => OpenInHand(t)')
      BY DEF Kept
    <2>1. t \notin clouded /\ RetriesPaid(t) /\ (t \in Valid /\ faults <= MaxRetries => OpenInHand(t))
      BY DEF AllKept, Kept
    <2>2. /\ faults \in Nat /\ faults' \in Nat /\ MaxRetries \in Nat
          /\ \A v \in Worker : retries[v] \in Nat
      BY BasketFacts DEF Inv, Typed, WorkersTyped, FaultsTyped
    <2>3. RetriesPaid(t)'
      <3>1. \A r \in 0..MaxRetries : queued'[t][r] > 0 => r <= faults'
        BY <2>1, <2>2 DEF RetriesPaid
      <3>2. ASSUME NEW v \in Worker, job'[v] = t
            PROVE  /\ retries'[v] <= faults'
                   /\ pc'[v] \in {"release", "nack"} => retries'[v] < faults'
        <4>1. retries[v] <= faults /\ (pc[v] \in {"release", "nack"} => retries[v] < faults)
          BY <2>1, <3>2 DEF RetriesPaid
        <4>2. CASE v = w
          BY <2>2, <4>1, <4>2
        <4>3. CASE v # w
          BY <2>2, <4>1, <4>3
        <4> QED BY <4>2, <4>3
      <3> QED BY <3>1, <3>2 DEF RetriesPaid
    <2>4. ASSUME t \in Valid, faults' <= MaxRetries PROVE OpenInHand(t)'
      <3>1. OpenInHand(t)
        BY <2>1, <2>2, <2>4
      <3>2. status'[t] = "pending" => Waiting(t)'
        BY <2>4 DEF Waiting, At
      <3>3. ASSUME status'[t] = "processing" PROVE At(t, Claimed)'
        <4>1. CASE pc'[w] \in Claimed
          BY <4>1 DEF At
        <4>2. CASE status[t] = "processing" /\ pc[w] = "claim"
          <5>1. PICK v \in Worker : job[v] = t /\ pc[v] \in Claimed
            BY <3>1, <4>2 DEF OpenInHand, At
          <5>2. v # w
            BY <4>2, <5>1 DEF Claimed
          <5> QED BY <5>1, <5>2 DEF At
        <4> QED BY <2>4, <3>3, <4>1, <4>2
      <3> QED BY <3>2, <3>3 DEF OpenInHand
    <2> QED BY <2>3, <2>4
  <1> QED BY <1>1, <1>2, <1>3 DEF AllKept

LEMMA EventKept ==
  ASSUME Inv, AllKept, NEW t \in Tx, MintEvent(t) \/ enqueueUsdcConversion(t) PROVE AllKept'
  <1>1. UNCHANGED <<status, pc, job, retries, attached, clouded, faults>>
    BY DEF MintEvent, enqueueUsdcConversion, slotVars, faultVars
  <1>2. 0 \in 0..MaxRetries /\ faults \in Nat
    BY BasketFacts DEF Inv, Typed, FaultsTyped
  <1>3. \A u \in Tx \ {t} : found'[u] = found[u] /\ events'[u] = events[u] /\ queued'[u] = queued[u]
    BY <1>2, PutHere DEF MintEvent, enqueueUsdcConversion, Inv, Typed, MessagesTyped
  <1>4. Waiting(t)' /\ \A r \in 0..MaxRetries : queued'[t][r] > 0 => queued[t][r] > 0 \/ r = 0
    <2>1. CASE MintEvent(t)
      <3>1. found'[t] > 0 /\ queued' = queued
        BY <2>1 DEF MintEvent, Inv, Typed, MessagesTyped
      <3> QED BY <3>1 DEF Waiting
    <2>2. CASE enqueueUsdcConversion(t)
      <3>1. queued' = Put(t, 0)
        BY <2>2 DEF enqueueUsdcConversion
      <3>2. queued'[t][0] > 0 /\ \A r \in 0..MaxRetries : r # 0 => queued'[t][r] = queued[t][r]
        BY <1>2, <3>1, PutHere
      <3>3. Waiting(t)'
        BY <1>2, <3>2 DEF Waiting
      <3> QED BY <3>2, <3>3
    <2> QED BY <2>1, <2>2
  <1>5. ASSUME NEW u \in Tx PROVE Kept(u)'
    <2>1. RetriesPaid(u) => RetriesPaid(u)'
      <3>1. \A r \in 0..MaxRetries : queued'[u][r] > 0 => queued[u][r] > 0 \/ r = 0
        BY <1>3, <1>4
      <3> QED BY <1>1, <1>2, <3>1 DEF RetriesPaid
    <2>2. OpenInHand(u) => OpenInHand(u)'
      <3>1. \A steps : At(u, steps)' <=> At(u, steps)
        BY <1>1 DEF At
      <3>2. CASE u = t
        BY <1>1, <1>4, <3>1, <3>2 DEF OpenInHand
      <3>3. CASE u # t
        <4>1. Waiting(u)' <=> Waiting(u)
          BY <1>3, <3>1, <3>3 DEF Waiting
        <4> QED BY <1>1, <1>3, <3>1, <3>3, <4>1 DEF OpenInHand
      <3> QED BY <3>2, <3>3
    <2> QED BY <1>1, <2>1, <2>2 DEF AllKept, Kept
  <1> QED BY <1>1, <1>5 DEF AllKept

LEMMA DeliverKept ==
  ASSUME Inv, Inv', AllKept, NEW w \in Worker, NEW t \in Tx, NEW r \in 0..MaxRetries, Deliver(w, t, r)
  PROVE  AllKept'
  <1>1. /\ pc[w] = "idle" /\ queued[t][r] > 0
        /\ UNCHANGED <<status, found, events, attached, clouded, faults>>
    BY DEF Deliver, eventVars, faultVars
  <1>2. /\ pc'[w] = "claim" /\ job'[w] = t /\ retries'[w] = r
        /\ \A v \in Worker \ {w} : pc'[v] = pc[v] /\ job'[v] = job[v] /\ retries'[v] = retries[v]
        /\ \A u \in Tx : u # t => queued'[u] = queued[u]
        /\ \A q \in 0..MaxRetries : queued'[t][q] > 0 => queued[t][q] > 0
    BY DEF Deliver, Goto, Inv, Typed, WorkersTyped, MessagesTyped
  <1>3. faults \in Nat
    BY BasketFacts DEF Inv, Typed, FaultsTyped
  <1>4. ASSUME NEW u \in Tx, u # t PROVE Kept(u)'
    BY <1>1, <1>2, <1>3, <1>4, OtherRowKept DEF AllKept
  <1>5. Kept(t)'
    <2> SUFFICES ASSUME t \notin clouded'
                 PROVE  RetriesPaid(t)' /\ (t \in Valid /\ faults' <= MaxRetries => OpenInHand(t)')
      BY DEF Kept
    <2>1. RetriesPaid(t) /\ (t \in Valid /\ faults <= MaxRetries => OpenInHand(t))
      BY <1>1 DEF AllKept, Kept
    <2>2. RetriesPaid(t)'
      <3>1. r <= faults
        BY <1>1, <2>1 DEF RetriesPaid
      <3> QED BY <1>1, <1>2, <2>1, <3>1 DEF RetriesPaid
    <2>3. Waiting(t)'
      BY <1>2 DEF Waiting, At
    <2>4. At(t, Claimed) => At(t, Claimed)'
      BY <1>1, <1>2 DEF At, Claimed
    <2> QED BY <1>1, <2>1, <2>2, <2>3, <2>4 DEF OpenInHand
  <1> QED BY <1>1, <1>4, <1>5 DEF AllKept

(* A call that was not answered clouds the row, unless a provider only refused. *)
LEMMA CallClouds ==
  ASSUME Inv, NEW w \in Worker, NEW kind \in {"db", "fx"}, NEW ok \in BOOLEAN, NEW applied \in BOOLEAN,
         Call(kind, w, ok, applied), job[w] \in Tx
  PROVE  /\ clouded \subseteq clouded' /\ faults <= faults'
         /\ ok => applied
         /\ ~ok /\ kind = "db" => job[w] \in clouded'
  <1>1. faults \in Nat
    BY BasketFacts DEF Inv, Typed, FaultsTyped
  <1>2. faults <= faults'
    BY <1>1 DEF Call, Fault, faultVars
  <1> QED BY <1>2, CallFacts DEF Inv

LEMMA GoneTo ==
  ASSUME Inv, NEW w \in Worker, NEW step, Goto(w, step)
  PROVE  pc'[w] = step /\ \A v \in Worker \ {w} : pc'[v] = pc[v]
  BY DEF Goto, Inv, Typed, WorkersTyped

LEMMA StatusOf ==
  ASSUME Inv, NEW t \in Tx, NEW st, status' \in {status, [status EXCEPT ![t] = st]}
  PROVE  status'[t] \in {status[t], st} /\ \A u \in Tx : u # t => status'[u] = status[u]
  BY DEF Inv, Typed, RowsTyped

LEMMA ClaimKept == ASSUME Inv, Inv', AllKept, NEW w \in Worker, claimTransaction(w) PROVE AllKept'
  <1> DEFINE t == job[w]
  <1>1. t \in Tx /\ pc[w] = "claim" /\ UNCHANGED <<job, retries, attached, queued, found, events>>
    BY DEF Inv, Placed, claimTransaction, eventVars, slotVars
  <1>2. PICK ok \in BOOLEAN, applied \in BOOLEAN :
          /\ Call("db", w, ok, applied)
          /\ status' = IF applied /\ Claimable(t) THEN [status EXCEPT ![t] = "processing"] ELSE status
          /\ Goto(w, IF ~ok THEN "nack" ELSE IF Claimable(t) THEN "basket" ELSE "ack")
    BY DEF claimTransaction
  <1>3. /\ clouded \subseteq clouded' /\ faults <= faults' /\ (ok => applied) /\ (~ok => t \in clouded')
    BY <1>1, <1>2, CallClouds
  <1>4. /\ \A v \in Worker \ {w} : pc'[v] = pc[v]
        /\ pc'[w] = IF ~ok THEN "nack" ELSE IF Claimable(t) THEN "basket" ELSE "ack"
    BY <1>2, GoneTo
  <1>5. \A u \in Tx : u # t => status'[u] = status[u]
    BY <1>1, <1>2, StatusOf
  <1>6. t \notin clouded' =>
            /\ pc'[w] \in {"release", "nack"} => retries[w] < faults'
            /\ t \in Valid /\ status'[t] = "pending" => pc'[w] \in {"claim", "nack"}
            /\ t \in Valid /\ status'[t] = "processing" =>
                  pc'[w] \in Claimed \/ (status[t] = "processing" /\ pc[w] = "claim")
    <2> SUFFICES ASSUME t \notin clouded'
                 PROVE  /\ pc'[w] \in {"release", "nack"} => retries[w] < faults'
                        /\ t \in Valid /\ status'[t] = "pending" => pc'[w] \in {"claim", "nack"}
                        /\ t \in Valid /\ status'[t] = "processing" =>
                              pc'[w] \in Claimed \/ (status[t] = "processing" /\ pc[w] = "claim")
      OBVIOUS
    <2>1. ok /\ applied
      BY <1>3
    <2>2. CASE Claimable(t)
      <3>1. status'[t] = "processing" /\ pc'[w] = "basket"
        BY <1>1, <1>2, <1>4, <2>1, <2>2 DEF Inv, Typed, RowsTyped
      <3>2. pc'[w] \in Claimed /\ pc'[w] \notin {"release", "nack"}
        BY <3>1 DEF Claimed
      <3> QED BY <3>1, <3>2
    <2>3. CASE ~Claimable(t)
      <3>1. status' = status /\ pc'[w] = "ack" /\ status[t] # "pending"
        BY <1>2, <1>4, <2>1, <2>3 DEF Claimable
      <3> QED BY <1>1, <3>1
    <2> QED BY <2>2, <2>3
  <1> QED BY <1>1, <1>3, <1>4, <1>5, <1>6, HandledKept

LEMMA BasketKept == ASSUME Inv, Inv', AllKept, NEW w \in Worker, GetCurrentBasket(w) PROVE AllKept'
  <1> DEFINE t == job[w]
  <1>1. /\ t \in Tx /\ pc[w] = "basket" /\ status[t] = "processing"
        /\ UNCHANGED <<status, job, retries, attached, queued, found, events>>
    BY DEF Inv, Placed, GetCurrentBasket, Claimed, eventVars, slotVars
  <1>2. faults \in Nat /\ retries[w] \in Nat
    BY BasketFacts DEF Inv, Typed, FaultsTyped, WorkersTyped
  <1>3. t \notin clouded => retries[w] <= faults
    BY <1>1 DEF AllKept, Kept, RetriesPaid
  <1>4. CASE Goto(w, IF t \in Valid THEN "buy" ELSE "ack") /\ UNCHANGED faultVars
    <2>1. /\ pc'[w] = IF t \in Valid THEN "buy" ELSE "ack"
          /\ \A v \in Worker \ {w} : pc'[v] = pc[v]
      BY <1>4, GoneTo
    <2>2. UNCHANGED <<clouded, faults>>
      BY <1>4 DEF faultVars
    <2>3. t \in Valid => pc'[w] \in Claimed
      BY <2>1 DEF Claimed
    <2>4. pc'[w] \notin {"release", "nack"}
      BY <2>1
    <2>5. t \notin clouded' =>
          /\ pc'[w] \in {"release", "nack"} => retries[w] < faults'
          /\ t \in Valid /\ status'[t] = "pending" => pc'[w] \in {"claim", "nack"}
          /\ t \in Valid /\ status'[t] = "processing" =>
                pc'[w] \in Claimed \/ (status[t] = "processing" /\ pc[w] = "claim")
      BY <1>1, <2>3, <2>4
    <2>6. faults <= faults' /\ clouded \subseteq clouded'
      BY <1>2, <2>2
    <2> QED BY <1>1, <2>1, <2>5, <2>6, HandledKept
  <1>5. CASE Fault("basket", w) /\ Goto(w, "release")
    <2>1. pc'[w] = "release" /\ \A v \in Worker \ {w} : pc'[v] = pc[v]
      BY <1>5, GoneTo
    <2>2. clouded' = clouded /\ faults' = faults + 1
      BY <1>5 DEF Fault
    <2>3. pc'[w] \in Claimed /\ faults <= faults' /\ (t \notin clouded => retries[w] < faults')
      BY <1>2, <1>3, <2>1, <2>2 DEF Claimed
    <2>4. t \notin clouded' =>
          /\ pc'[w] \in {"release", "nack"} => retries[w] < faults'
          /\ t \in Valid /\ status'[t] = "pending" => pc'[w] \in {"claim", "nack"}
          /\ t \in Valid /\ status'[t] = "processing" =>
                pc'[w] \in Claimed \/ (status[t] = "processing" /\ pc[w] = "claim")
      BY <1>1, <2>2, <2>3
    <2>5. clouded \subseteq clouded'
      BY <2>2
    <2> QED BY <1>1, <2>1, <2>3, <2>4, <2>5, HandledKept
  <1> QED BY <1>4, <1>5 DEF GetCurrentBasket

(* A purchase and its history row leave the claim where it is. *)
LEMMA BuyKept ==
  ASSUME Inv, Inv', AllKept, NEW w \in Worker, ConvertCurrency(w) \/ Record(w) PROVE AllKept'
  <1> DEFINE t == job[w]
  <1>1. /\ t \in Tx /\ pc[w] \in {"buy", "record"} /\ status[t] = "processing"
        /\ UNCHANGED <<status, job, retries, attached, queued, found, events>>
    BY DEF Inv, Placed, ConvertCurrency, Record, Claimed, eventVars, slotVars
  <1>2. PICK step \in {"buy", "record", "complete", "release"} :
          Goto(w, step) /\ clouded \subseteq clouded' /\ faults <= faults' /\ (step = "release" => t \in clouded')
    <2>1. CASE ConvertCurrency(w)
      <3>1. PICK ok \in BOOLEAN, applied \in BOOLEAN :
               /\ Call("fx", w, ok, applied)
               /\ IF AfterPurchase(ok) = "record" THEN Goto(w, "record") ELSE NextCurrency(w)
        BY <2>1 DEF ConvertCurrency
      <3>2. Goto(w, "record") \/ Goto(w, "buy") \/ Goto(w, "complete")
        BY <3>1 DEF NextCurrency
      <3>3. clouded \subseteq clouded' /\ faults <= faults'
        BY <1>1, <3>1, CallClouds
      <3> QED BY <3>2, <3>3
    <2>2. CASE Record(w)
      <3>1. PICK ok \in BOOLEAN, applied \in BOOLEAN :
               /\ Call("db", w, ok, applied)
               /\ IF ok THEN NextCurrency(w) ELSE Goto(w, "release")
        BY <2>2 DEF Record
      <3>2. Goto(w, "buy") \/ Goto(w, "complete") \/ (~ok /\ Goto(w, "release"))
        BY <3>1 DEF NextCurrency
      <3>3. clouded \subseteq clouded' /\ faults <= faults' /\ (~ok => t \in clouded')
        BY <1>1, <3>1, CallClouds
      <3> QED BY <3>2, <3>3
    <2> QED BY <2>1, <2>2
  <1>3. pc'[w] = step /\ \A v \in Worker \ {w} : pc'[v] = pc[v]
    BY <1>2, GoneTo
  <1>4. pc'[w] \in Claimed
    BY <1>3 DEF Claimed
  <1>5. t \notin clouded' =>
        /\ pc'[w] \in {"release", "nack"} => retries[w] < faults'
        /\ t \in Valid /\ status'[t] = "pending" => pc'[w] \in {"claim", "nack"}
        /\ t \in Valid /\ status'[t] = "processing" =>
              pc'[w] \in Claimed \/ (status[t] = "processing" /\ pc[w] = "claim")
    BY <1>1, <1>2, <1>3, <1>4
  <1>6. clouded \subseteq clouded' /\ faults <= faults'
    BY <1>2
  <1> QED BY <1>1, <1>3, <1>5, <1>6, HandledKept

LEMMA CompleteKept == ASSUME Inv, Inv', AllKept, NEW w \in Worker, Complete(w) PROVE AllKept'
  <1> DEFINE t == job[w]
  <1>1. t \in Tx /\ UNCHANGED <<job, retries, attached, queued, found, events>>
    BY DEF Inv, Placed, Complete, eventVars, slotVars
  <1>2. PICK ok \in BOOLEAN, applied \in BOOLEAN :
          /\ Call("db", w, ok, applied)
          /\ status' = IF applied THEN [status EXCEPT ![t] = Converted] ELSE status
          /\ Goto(w, IF ok THEN "ack" ELSE "release")
    BY DEF Complete
  <1>3. /\ clouded \subseteq clouded' /\ faults <= faults' /\ (ok => applied) /\ (~ok => t \in clouded')
    BY <1>1, <1>2, CallClouds
  <1>4. \A v \in Worker \ {w} : pc'[v] = pc[v]
    BY <1>2, GoneTo
  <1>5. \A u \in Tx : u # t => status'[u] = status[u]
    BY <1>1, <1>2, StatusOf
  <1>6. ok => status'[t] = "completed" /\ pc'[w] = "ack"
    BY <1>1, <1>2, <1>3, GoneTo DEF Converted, Inv, Typed, RowsTyped
  <1> QED BY <1>1, <1>3, <1>4, <1>5, <1>6, HandledKept

LEMMA ReleaseKept == ASSUME Inv, Inv', AllKept, NEW w \in Worker, releaseClaim(w) PROVE AllKept'
  <1> DEFINE t == job[w]
  <1>1. /\ t \in Tx /\ pc[w] = "release" /\ status[t] \in {"processing", "completed"}
        /\ UNCHANGED <<job, retries, attached, queued, found, events>>
    BY DEF Inv, Placed, releaseClaim, Claimed, eventVars, slotVars
  <1>2. PICK ok \in BOOLEAN, applied \in BOOLEAN :
          /\ Call("db", w, ok, applied)
          /\ status' = IF applied /\ Releasable(t) THEN [status EXCEPT ![t] = "pending"] ELSE status
    BY DEF releaseClaim
  <1>3. /\ clouded \subseteq clouded' /\ faults <= faults' /\ (ok => applied) /\ (~ok => t \in clouded')
    BY <1>1, <1>2, CallClouds
  <1>4. pc'[w] = "nack" /\ \A v \in Worker \ {w} : pc'[v] = pc[v]
    BY GoneTo DEF releaseClaim
  <1>5. \A u \in Tx : u # t => status'[u] = status[u]
    BY <1>1, <1>2, StatusOf
  <1>6. ok => status'[t] # "processing"
    BY <1>1, <1>2, <1>3 DEF Releasable, Inv, Typed, RowsTyped
  <1>7. t \notin clouded' => retries[w] < faults'
    <2>1. faults \in Nat /\ faults' \in Nat /\ retries[w] \in Nat
      BY BasketFacts DEF Inv, Typed, FaultsTyped, WorkersTyped
    <2>2. t \notin clouded => retries[w] < faults
      BY <1>1 DEF AllKept, Kept, RetriesPaid
    <2> QED BY <1>3, <2>1, <2>2
  <1> QED BY <1>1, <1>3, <1>4, <1>5, <1>6, <1>7, HandledKept

(* The worker is free again; what it gives up with retries left is published. *)
LEMMA AckKept == ASSUME Inv, Inv', AllKept, NEW w \in Worker, Ack(w) PROVE AllKept'
  <1>1. pc[w] = "ack" /\ UNCHANGED <<status, found, events, queued, attached, clouded, faults>>
    BY DEF Ack, eventVars, faultVars
  <1>2. /\ job'[w] = NoTx /\ NoTx \notin Tx
        /\ \A v \in Worker \ {w} : pc'[v] = pc[v] /\ job'[v] = job[v] /\ retries'[v] = retries[v]
    BY BasketFacts DEF Ack, Free, Goto, Inv, Typed, WorkersTyped
  <1>3. faults <= faults'
    BY <1>1, BasketFacts DEF Inv, Typed, FaultsTyped
  <1>4. \A u \in Tx : Kept(u)'
    BY <1>1, <1>2, <1>3, OtherRowKept DEF AllKept
  <1> QED BY <1>1, <1>4 DEF AllKept

LEMMA NackKept == ASSUME Inv, Inv', AllKept, NEW w \in Worker, Nack(w) PROVE AllKept'
  <1>t. PICK t \in Tx : t = job[w]
    BY DEF Inv, Placed, Nack
  <1>1. /\ pc[w] = "nack" /\ w \in attached
        /\ UNCHANGED <<status, found, events, attached, clouded, faults>>
        /\ queued' = IF retries[w] < MaxRetries THEN Put(t, retries[w] + 1) ELSE queued
    BY <1>t DEF Nack, Republished, AllKept, eventVars, faultVars
  <1>2. /\ job'[w] = NoTx /\ NoTx \notin Tx
        /\ \A v \in Worker \ {w} : pc'[v] = pc[v] /\ job'[v] = job[v] /\ retries'[v] = retries[v]
    BY BasketFacts DEF Nack, Free, Goto, Inv, Typed, WorkersTyped
  <1>3. /\ retries[w] \in 0..MaxRetries /\ MaxRetries \in Nat /\ faults \in Nat
        /\ retries[w] < MaxRetries => retries[w] + 1 \in 0..MaxRetries
    BY BasketFacts DEF Inv, Typed, WorkersTyped, FaultsTyped
  <1>4. \A u \in Tx : u # t => queued'[u] = queued[u]
    BY <1>1, <1>3, PutHere
  <1>5. ASSUME NEW u \in Tx, u # t PROVE Kept(u)'
    BY <1>t, <1>1, <1>2, <1>3, <1>4, <1>5, OtherRowKept DEF AllKept
  <1>6. Kept(t)'
    <2> SUFFICES ASSUME t \notin clouded'
                 PROVE  RetriesPaid(t)' /\ (t \in Valid /\ faults' <= MaxRetries => OpenInHand(t)')
      BY DEF Kept
    <2>1. RetriesPaid(t) /\ (t \in Valid /\ faults <= MaxRetries => OpenInHand(t))
      BY <1>1 DEF AllKept, Kept
    <2>2. retries[w] < faults
      BY <1>t, <1>1, <2>1 DEF RetriesPaid
    <2>3. \A q \in 0..MaxRetries : queued'[t][q] > 0 => queued[t][q] > 0 \/ q = retries[w] + 1
      BY <1>1, <1>3, PutHere
    <2>4. RetriesPaid(t)'
      <3>1. \A q \in 0..MaxRetries : queued'[t][q] > 0 => q <= faults
        BY <1>3, <2>1, <2>2, <2>3 DEF RetriesPaid
      <3>2. \A v \in Worker : job'[v] = t => v # w
        BY <1>2
      <3> QED BY <1>1, <1>2, <2>1, <3>1, <3>2 DEF RetriesPaid
    <2>5. ASSUME t \in Valid, faults <= MaxRetries PROVE OpenInHand(t)'
      <3>1. retries[w] < MaxRetries
        BY <1>3, <2>2, <2>5
      <3>2. queued'[t][retries[w] + 1] > 0
        BY <1>1, <1>3, <3>1, PutHere
      <3>3. Waiting(t)'
        BY <1>3, <3>1, <3>2 DEF Waiting
      <3>4. At(t, Claimed) => At(t, Claimed)'
        BY <1>1, <1>2 DEF At, Claimed
      <3> QED BY <1>1, <2>1, <2>5, <3>3, <3>4 DEF OpenInHand
    <2> QED BY <1>1, <2>4, <2>5
  <1> QED BY <1>1, <1>5, <1>6 DEF AllKept

(* A process that dies clouds the row it had. *)
LEMMA CrashKept == ASSUME Inv, Inv', AllKept, NEW w \in Worker, Crash(w) PROVE AllKept'
  <1>1. /\ clouded' = clouded \cup ({job[w]} \ {NoTx}) /\ faults' = faults + 1 /\ faults \in Nat
        /\ NoTx \notin Tx /\ job[w] \in Tx \cup {NoTx} /\ retries[w] \in 0..MaxRetries
    BY BasketFacts DEF Crash, Fault, Inv, Typed, WorkersTyped, FaultsTyped
  <1>2. UNCHANGED <<status, found, events>> /\ attached' = Worker
    BY DEF Crash, eventVars, AllKept
  <1>3. /\ job'[w] = NoTx
        /\ \A v \in Worker \ {w} : pc'[v] = pc[v] /\ job'[v] = job[v] /\ retries'[v] = retries[v]
    BY DEF Crash, Free, Goto, Inv, Typed, WorkersTyped
  <1>4. \A u \in Tx : u # job[w] => queued'[u] = queued[u]
    <2>1. CASE pc[w] # "idle" /\ w \in attached
      <3>1. job[w] \in Tx /\ queued' = Put(job[w], retries[w])
        BY <2>1 DEF Crash, Requeued, Inv, Placed
      <3> QED BY <1>1, <3>1, PutHere
    <2>2. CASE ~(pc[w] # "idle" /\ w \in attached)
      BY <2>2 DEF Crash, Requeued
    <2> QED BY <2>1, <2>2
  <1>5. ASSUME NEW u \in Tx PROVE Kept(u)'
    <2>1. CASE u = job[w]
      BY <1>1, <2>1 DEF Kept
    <2>2. CASE u # job[w]
      <3>1. job'[w] # u /\ clouded \subseteq clouded' /\ faults <= faults'
        BY <1>1, <1>3
      <3> QED BY <1>2, <1>3, <1>4, <2>2, <3>1, OtherRowKept DEF AllKept
    <2> QED BY <2>1, <2>2
  <1> QED BY <1>2, <1>5 DEF AllKept

LEMMA KeptStep == ASSUME "channel" \notin Faults, Inv, AllKept, [Next]_vars PROVE AllKept'
  <1>1. Inv'
    BY NextInv
  <1>2. CASE UNCHANGED vars
    <2>1. UNCHANGED <<status, found, events, queued, pc, job, retries, attached, clouded, faults>>
      BY <1>2 DEF vars, eventVars, slotVars, faultVars
    <2> QED BY <2>1 DEF AllKept, Kept, RetriesPaid, OpenInHand, Waiting, At
  <1>3. ASSUME NEW t \in Tx, MintEvent(t) \/ enqueueUsdcConversion(t) PROVE AllKept'
    BY <1>3, EventKept
  <1>4. ASSUME NEW w \in Worker, Consume(w) PROVE AllKept'
    BY <1>1, <1>4, DeliverKept DEF Consume
  <1>5. ASSUME NEW w \in Worker, Handle(w) PROVE AllKept'
    BY <1>1, <1>5, ClaimKept, BasketKept, BuyKept, CompleteKept, ReleaseKept, AckKept, NackKept DEF Handle
  <1>6. ASSUME NEW w \in Worker, Detach(w) \/ Crash(w) PROVE AllKept'
    <2>1. ~Detach(w)
      BY DEF Detach, Fault
    <2> QED BY <1>1, <1>6, <2>1, CrashKept
  <1> QED BY <1>2, <1>3, <1>4, <1>5, <1>6 DEF Next

(* While the consumers stay connected and no more attempts fail than there are  *)
(* retries, no mint is stranded: a valid one whose effect was seen is about to  *)
(* be published, in the queue or with a consumer, and a claimed one is with the *)
(* consumer that claimed it, whatever befalls the other mints, unless it lost a *)
(* call, an answer or its handler itself.                                       *)
THEOREM ConversionsInHand ==
  ASSUME "channel" \notin Faults
  PROVE  Spec => []NothingStranded
  <1>1. Init => AllKept
    <2> SUFFICES ASSUME Init PROVE AllKept
      OBVIOUS
    <2>1. \A t \in Tx, w \in Worker : job[w] # t
      BY BasketFacts DEF Init
    <2> QED BY <2>1 DEF Init, AllKept, Kept, RetriesPaid, OpenInHand
  <1>2. Inv /\ AllKept /\ [Next]_vars => AllKept'
    BY KeptStep
  <1>3. AllKept => NothingStranded
    BY BasketFacts, ConversionAssumption DEF ConversionAssumption, AllKept, Kept, NothingStranded
  <1> QED BY <1>1, <1>2, <1>3, SpecInv, PTL DEF Spec
=============================================================================
