------------------------------ MODULE Reserves ------------------------------
(***************************************************************************)
(* Reserve tracking and what is decided from it.  services/reserve/        *)
(* ReserveTracker.ts walks over the basket, takes the value of each        *)
(* currency from the chain (or from a fintech partner, when the chain does *)
(* not answer), stores a Reserve row and reports custody to the reserve    *)
(* tracker contract; every process runs it on a timer and an endpoint runs *)
(* it on request, with no lock.  The rows decide the alert, the pauses of  *)
(* limitsService.ts, the fees of feePolicyService.ts and the moves of      *)
(* RebalancingEngine.ts.  Values are whole units of USD, weights whole     *)
(* percents.                                                               *)
(***************************************************************************)
EXTENDS Integers, FiniteSets, Functions

CONSTANTS
    Basket,         \* number of currencies in the active basket
    Tracker,        \* tracking runs: the timer of each process, the endpoint
    MaxRate,        \* bound: USD for one unit of a currency
    MaxHolding,     \* bound: units of a currency in custody
    MaxTroubles,    \* bound: failed reads and writes, and changes of rates and custody
    AlertTotal,     \* the supply times the alert threshold
    PausePct,       \* a currency below this percentage of its target is paused
    DriftPct        \* a currency further than this from its target is moved

ASSUME ReservesAssumption ==
    Basket \in Nat \ {0} /\ MaxRate \in Nat \ {0} /\ MaxHolding \in Nat /\ MaxTroubles \in Nat
    /\ AlertTotal \in Nat /\ PausePct \in Nat /\ DriftPct \in Nat

Currency == 1..Basket
Target   == 100 \div Basket   \* the basket's target weight, the same for each

VARIABLES
    usdRate,   \* the oracle contract's rate of each currency
    holding,   \* what the minting contract holds of each
    newest,    \* the newest Reserve row of each currency
    chain,     \* what the reserve tracker contract holds
    round,     \* each tracking run
    alert,     \* a reserve_alert was published
    event,     \* the newest RebalancingEvent
    \* what happened, for the properties
    had,       \* the rates and holdings each currency has had together
    blended,   \* currencies whose rate moved between the two reads of a run
    calm,      \* full rounds since anything failed, overlapped or changed, up to 2
    troubles   \* failures and changes so far

onChain == <<usdRate, holding, had, blended>>
reservesVars == <<onChain, newest, chain, round, alert, event, calm, troubles>>

(* The USD value of what the minting contract holds. *)
custody == [c \in Currency |-> usdRate[c] * holding[c]]

NoRow == [value |-> 0, weight |-> -1]
Idle  == [at |-> "idle", i |-> 1, rate |-> 0, value |-> 0, real |-> FALSE, clean |-> FALSE]
NoEvent == [status |-> "none", moves |-> {}, warranted |-> TRUE]

(* A run that is not over is at a currency of the basket, or past the last. *)
ReservesTypeOK ==
    /\ usdRate \in [Currency -> Nat] /\ holding \in [Currency -> Nat] /\ chain \in [Currency -> Nat]
    /\ \A c \in Currency : newest[c] # NoRow => newest[c].value >= 0 /\ newest[c].weight >= 0
    /\ \A t \in Tracker : /\ round[t].i \in 1..Basket + 1
                          /\ round[t].at \in {"balance", "store", "push"} => round[t].i \in Currency
    /\ event.status = "pending" <=> event.moves # {}
    /\ alert \in BOOLEAN /\ calm \in 0..2 /\ troubles \in 0..MaxTroubles

ReservesInit ==
    /\ usdRate \in [Currency -> 1..MaxRate] /\ holding \in [Currency -> 0..MaxHolding]
    /\ newest = [c \in Currency |-> NoRow]
    /\ chain = custody /\ round = [t \in Tracker |-> Idle]
    /\ alert = FALSE /\ event = NoEvent
    /\ had = [c \in Currency |-> {[rate |-> usdRate[c], units |-> holding[c]]}] /\ blended = {}
    /\ calm = 0 /\ troubles = 0

-----------------------------------------------------------------------------
(* getTotalReserveValue: the newest row of each currency, none counting as 0. *)
getTotalReserveValue(rows) == SumFunction([c \in Currency |-> rows[c].value])

(* The share of a currency in the total as stored before this round's own row. *)
actualWeight(c, value) ==
    LET total == getTotalReserveValue(newest)
    IN  IF total > 0 THEN (value * 100) \div total ELSE 0

(* getReserveStatus: health against the supply. *)
Critical(total) == total < AlertTotal

(* isCurrencyWithdrawalPaused and the high fee of getBurnFeeBps: no row, no pause. *)
isCurrencyWithdrawalPaused(rows, c) == rows[c] # NoRow /\ rows[c].weight * 100 < PausePct * Target

(* generateInstructions: sell what is too heavy, buy what is too light. *)
Overweight(rows)  == {c \in Currency : rows[c] # NoRow /\ rows[c].weight - Target > DriftPct}
Underweight(rows) == {c \in Currency : rows[c] # NoRow /\ Target - rows[c].weight > DriftPct}

-----------------------------------------------------------------------------
Goes(t, r) == round' = [round EXCEPT ![t] = r]
Steady     == UNCHANGED <<calm, troubles>>
Troubled   == /\ troubles < MaxTroubles
              /\ troubles' = troubles + 1 /\ calm' = 0
(* The error of one currency is logged and the loop goes on. *)
SkipTo(t)  == Troubled /\ Goes(t, [Idle EXCEPT !.at = "read", !.i = round[t].i + 1])

(* The timer fires, or the endpoint is called. *)
StartTracking(t) ==
    /\ round[t].at = "idle"
    /\ LET alone == \A u \in Tracker : round[u].at = "idle"
       IN  /\ round' = [u \in Tracker |->
                           IF u = t THEN [Idle EXCEPT !.at = "read", !.clean = alone]
                                    ELSE [round[u] EXCEPT !.clean = FALSE]]
           /\ calm' = IF alone THEN calm ELSE 0
    /\ UNCHANGED <<onChain, newest, chain, alert, event, troubles>>

(* readOnChainCustody reads the rate, ... *)
ReadRate(t) ==
    /\ round[t].at = "read" /\ round[t].i \in Currency
    /\ Goes(t, [round[t] EXCEPT !.at = "balance", !.rate = usdRate[round[t].i]]) /\ Steady
    /\ UNCHANGED <<onChain, newest, chain, alert, event>>

(* ... the token's address, which stays, and then what the minting contract holds *)
(* of the token, and multiplies the two.                                          *)
readOnChainCustody(t) == round[t].rate * holding[round[t].i]

(* After three failed attempts at all of it, the partner's balance and the stored *)
(* rate; after three more, the next currency.                                     *)
ReadBalance(t) ==
    /\ round[t].at = "balance"
    /\ \/ /\ Goes(t, [round[t] EXCEPT !.at = "store", !.rate = 0, !.value = readOnChainCustody(t), !.real = TRUE])
          /\ Steady
       \/ /\ \E v \in 0..MaxRate * MaxHolding :
                Goes(t, [round[t] EXCEPT !.at = "store", !.rate = 0, !.value = v, !.clean = FALSE])
          /\ Troubled
       \/ SkipTo(t)
    /\ UNCHANGED <<onChain, newest, chain, alert, event>>

(* The row, with the weight that the rows of before give it. *)
StoreSnapshot(t) ==
    /\ round[t].at = "store"
    /\ \/ /\ newest' = [newest EXCEPT ![round[t].i] =
                           [value |-> round[t].value, weight |-> actualWeight(round[t].i, round[t].value)]]
          /\ Goes(t, [round[t] EXCEPT !.at = "push"]) /\ Steady
       \/ SkipTo(t) /\ UNCHANGED newest
    /\ UNCHANGED <<onChain, chain, alert, event>>

(* Mutation: whatever balance was found is reported. *)
PushesAny(t) == TRUE

(* hasRealBalance: only custody that was read from the chain. *)
hasRealBalance(t) == round[t].real

(* update_reserve on the contract; a failure is logged. *)
UpdateReserve(t) ==
    /\ round[t].at = "push"
    /\ \/ hasRealBalance(t) /\ chain' = [chain EXCEPT ![round[t].i] = round[t].value]
       \/ UNCHANGED chain
    /\ Goes(t, [Idle EXCEPT !.at = "read", !.i = round[t].i + 1, !.clean = round[t].clean])
    /\ UNCHANGED <<onChain, newest, alert, event, calm, troubles>>

(* After the last currency: the health of the rows, and the alert, which a broker *)
(* that is away does not get.                                                     *)
CheckHealth(t) ==
    /\ round[t].at = "read" /\ round[t].i > Basket
    /\ \/ Critical(getTotalReserveValue(newest)) /\ alert' = TRUE
       \/ UNCHANGED alert
    /\ calm' = IF round[t].clean /\ calm < 2 THEN calm + 1 ELSE calm
    /\ Goes(t, Idle)
    /\ UNCHANGED <<onChain, newest, chain, event, troubles>>

(* Rows as they would be if every weight were the share of custody. *)
TrueRows == LET total == SumFunction(custody)
            IN  [c \in Currency |-> [value  |-> custody[c],
                                     weight |-> IF total > 0 THEN (custody[c] * 100) \div total ELSE 0]]

(* RebalancingEngine.run, under its job lock: a pair is left out when there is no *)
(* quote for one of the two.                                                      *)
Rebalance ==
    /\ \E moves \in SUBSET (Overweight(newest) \X Underweight(newest)) :
          event' = [status    |-> IF moves # {} THEN "pending" ELSE "completed",
                    moves     |-> moves,
                    warranted |-> calm = 2 => moves \subseteq Overweight(TrueRows) \X Underweight(TrueRows)]
    /\ UNCHANGED <<onChain, newest, chain, round, alert, calm, troubles>>

(* The oracle's rate of a currency moves, mints and burns move what is held of it, *)
(* or one after the other.                                                         *)
CustodyMoves(c) ==
    /\ \E r \in 1..MaxRate, h \in 0..MaxHolding :
          /\ <<r, h>> # <<usdRate[c], holding[c]>>
          /\ usdRate' = [usdRate EXCEPT ![c] = r] /\ holding' = [holding EXCEPT ![c] = h]
          /\ \E between \in {[rate |-> usdRate[c], units |-> h], [rate |-> r, units |-> holding[c]]} :
                had' = [had EXCEPT ![c] = @ \cup {between, [rate |-> r, units |-> h]}]
    /\ blended' = IF usdRate'[c] # usdRate[c] /\ \E t \in Tracker : round[t].at = "balance" /\ round[t].i = c
                  THEN blended \cup {c} ELSE blended
    /\ Troubled /\ round' = [t \in Tracker |-> [round[t] EXCEPT !.clean = FALSE]]
    /\ UNCHANGED <<newest, chain, alert, event>>

ReservesNext ==
    \/ \E t \in Tracker : StartTracking(t) \/ ReadRate(t) \/ ReadBalance(t) \/ StoreSnapshot(t)
                          \/ UpdateReserve(t) \/ CheckHealth(t)
    \/ Rebalance \/ \E c \in Currency : CustodyMoves(c)

ReservesSpec == ReservesInit /\ [][ReservesNext]_reservesVars

-----------------------------------------------------------------------------
(* What a tracking run can make of custody: a value that it had; and, where the   *)
(* rate moved between the two reads, a rate and a holding of different moments.   *)
held == [c \in Currency |->
            {p[1].rate * p[2].units : p \in {q \in had[c] \X had[c] : q[1] = q[2] \/ c \in blended}}]

(* The reserve tracker contract holds a value that custody really had, neither a  *)
(* partner's balance nor the zero of a failed read; but for a currency whose rate *)
(* moved while a run was between its reads, the product of a rate and a holding   *)
(* that custody may never have had together.  A round divides by the rows of the  *)
(* round before, so its weights are wrong while the reserves move; but after two  *)
(* full rounds alone with unchanged custody, the pauses and the moves are those   *)
(* that custody calls for, and the total is custody's after one.                  *)
ReservesSound ==
    /\ ReservesTypeOK
    /\ \A c \in Currency : chain[c] \in held[c]
    /\ calm >= 1 => getTotalReserveValue(newest) = getTotalReserveValue(TrueRows)
    /\ calm = 2 => \A c \in Currency :
          isCurrencyWithdrawalPaused(newest, c) = isCurrencyWithdrawalPaused(TrueRows, c)
    /\ event.warranted
=============================================================================
