--------------------------- MODULE EventListener ---------------------------
(***************************************************************************)
(* services/stellar/eventListener.ts: one loop polls every registered      *)
(* contract for its Horizon effects, dispatches each effect of the page to *)
(* the handlers in turn, each with retries, and moves the contract's       *)
(* cursor past the effect.  What cannot be parsed, and what a handler      *)
(* refuses for good, goes to a dead-letter queue.  The cursors live in     *)
(* memory: a process that restarts reads every contract from its start.    *)
(***************************************************************************)
EXTENDS Naturals, FiniteSets, Sequences

CONSTANTS
    Contracts,          \* registeredContractIds, in order of registration
    Handlers,           \* the handlers under "*", in order: [contract, kind], where
                        \*   "lookup" resolves the transaction hash on Horizon and
                        \*   drops the event if that fails, and
                        \*   "swallow" catches the error of its own publish
    HandlerAttempts,    \* HANDLER_ATTEMPTS
    FetchAttempts,      \* FETCH_ATTEMPTS
    ReconnectAttempts,  \* RECONNECT_MAX_ATTEMPTS
    PageSize,           \* limit of one fetch
    MaxEffects,         \* bound: effects that each contract emits
    Faults,             \* kinds: "horizon", "handler", "lookup", "broker", "process"
    MaxFaults           \* bound: how many of them

Hs == DOMAIN Handlers
Contract == {Contracts[i] : i \in DOMAIN Contracts}

ASSUME ListenerAssumption ==
    /\ Contracts \in Seq(Contract) /\ Len(Contracts) > 0
    /\ Handlers \in Seq([contract : Contract, kind : {"lookup", "swallow"}])
    /\ {HandlerAttempts, FetchAttempts, ReconnectAttempts, PageSize} \subseteq Nat \ {0}
    /\ MaxEffects \in [Contract -> Nat] /\ MaxFaults \in Nat
    /\ Faults \subseteq {"horizon", "handler", "lookup", "broker", "process"}

VARIABLES
    ledger,     \* what each contract emitted so far, by kind
    cursor,     \* contractCursors: the last effect dispatched, 0 for null
    step,       \* where the loop is
    polled,     \* the contract being polled, an index of Contracts
    page,       \* the last effect of the fetched page
    pos,        \* the handler that has the effect cursor + 1
    attempt,    \* failures of the current withRetries or reconnectServer
    health,     \* eventListenerHealth.status
    delivered,  \* delivered[h][i]: how often handler h finished effect i
    captured,   \* STELLAR_EVENT_FAILURES_DLQ: <<contract, effect, handler or 0>>
    missed,     \* history: the same, for what was neither finished nor captured
    restarts, faults

loopVars == <<cursor, step, polled, page, pos, attempt>>
sinkVars == <<delivered, captured, missed>>
listenerVars == <<ledger, loopVars, health, sinkVars, restarts, faults>>

Kinds == {"event", "other", "malformed"}
Effect(h) == 1..MaxEffects[Handlers[h].contract]

Polled == Contracts[polled]
Here   == cursor[Polled] + 1      \* the effect being dispatched
Kind   == ledger[Polled][Here]

ListenerTypeOK ==
    /\ DOMAIN ledger = Contract /\ DOMAIN cursor = Contract
    /\ \A c \in Contract : /\ ledger[c] \in UNION {[1..n -> Kinds] : n \in 0..MaxEffects[c]}
                          /\ cursor[c] \in 0..Len(ledger[c])
    /\ step \in {"fetch", "dispatch", "capture", "reconnect"}
    /\ polled \in DOMAIN Contracts
    /\ page \in 0..MaxEffects[Polled]
    /\ pos \in 1..(Len(Handlers) + 1)
    /\ attempt \in Nat
    /\ health \in {"up", "down"}
    /\ \A h \in Hs : delivered[h] \in [Effect(h) -> Nat]
    /\ \A x \in captured \cup missed : x[2] \in 1..Len(ledger[x[1]]) /\ x[3] \in Hs \cup {0}
    /\ restarts \in 0..MaxFaults /\ faults \in 0..MaxFaults

-----------------------------------------------------------------------------
(* dispatchEvent offers the effect to every handler; the wrapper that         *)
(* listenToContractEvents registers passes on only its contract and its types.*)
NextHandler(c, from) ==
    LET mine == {h \in Hs : h >= from /\ Handlers[h].contract = c}
    IN IF mine = {} THEN Len(Handlers) + 1 ELSE CHOOSE h \in mine : \A g \in mine : h <= g

ListenerInit ==
    /\ ledger = [c \in Contract |-> <<>>]
    /\ cursor = [c \in Contract |-> 0]
    /\ step = "fetch" /\ polled = 1 /\ page = 0 /\ attempt = 0
    /\ pos = NextHandler(Contracts[1], 1)
    /\ health = "down"
    /\ delivered = [h \in Hs |-> [i \in Effect(h) |-> 0]]
    /\ captured = {} /\ missed = {}
    /\ restarts = 0 /\ faults = 0

Fault(kind) ==
    /\ kind \in Faults
    /\ faults < MaxFaults
    /\ faults' = faults + 1

(* pollOnce goes on with the next contract, listen with the next pollOnce. *)
NextContract ==
    LET n == (polled % Len(Contracts)) + 1
    IN /\ polled' = n /\ step' = "fetch" /\ page' = 0 /\ attempt' = 0
       /\ pos' = NextHandler(Contracts[n], 1)

(* Mutation: the cursor is moved to the page's last effect at once. *)
CursorToPageEnd(i) == page

(* updateCursor: the paging token of the effect just dispatched.  Horizon gives *)
(* every effect one; the code leaves the cursor alone for an effect without,    *)
(* which is not modelled.                                                       *)
updateCursor(i) == i

(* The effect is done with: the cursor moves, and the page or the poll goes on. *)
Advance ==
    /\ cursor' = [cursor EXCEPT ![Polled] = updateCursor(Here)]
    /\ IF Here = page
       THEN NextContract
       ELSE /\ step' = "dispatch" /\ attempt' = 0 /\ pos' = NextHandler(Polled, 1)
            /\ UNCHANGED <<polled, page>>

(* The handler at pos is done with the effect. *)
MoveOn ==
    LET n == NextHandler(Polled, pos + 1)
    IN IF n > Len(Handlers)
       THEN Advance
       ELSE pos' = n /\ attempt' = 0 /\ step' = "dispatch" /\ UNCHANGED <<cursor, polled, page>>

-----------------------------------------------------------------------------
(* A contract emits an effect. *)
Emit(c, k) ==
    /\ Len(ledger[c]) < MaxEffects[c]
    /\ ledger' = [ledger EXCEPT ![c] = Append(@, k)]
    /\ UNCHANGED <<loopVars, health, sinkVars, restarts, faults>>

(* Mutation: the newest effect is left for the next page. *)
WithoutNewest(from) == IF Len(ledger[Polled]) < from + PageSize
                       THEN IF Len(ledger[Polled]) > from THEN Len(ledger[Polled]) - 1 ELSE from
                       ELSE from + PageSize

(* The last effect of the page after `from`. *)
PageEnd(from) == IF Len(ledger[Polled]) < from + PageSize THEN Len(ledger[Polled]) ELSE from + PageSize

(* pollContractOnce: the fetch, with retries. *)
Fetch ==
    /\ step = "fetch"
    /\ health' = "up"
    /\ LET end == PageEnd(cursor[Polled])
       IN IF end = cursor[Polled]
          THEN NextContract
          ELSE step' = "dispatch" /\ page' = end /\ attempt' = 0 /\ UNCHANGED <<polled, pos>>
    /\ UNCHANGED <<ledger, cursor, sinkVars, restarts, faults>>

FetchFails ==
    /\ step = "fetch"
    /\ Fault("horizon")
    /\ IF attempt + 1 < FetchAttempts
       THEN attempt' = attempt + 1 /\ UNCHANGED <<step, health>>
       ELSE attempt' = 0 /\ step' = "reconnect" /\ health' = "down"
    /\ UNCHANGED <<ledger, cursor, polled, page, pos, sinkVars, restarts>>

(* reconnectServer(contractId): a probe, up to ReconnectAttempts times. *)
Reconnect ==
    /\ step = "reconnect"
    /\ health' = "up"
    /\ NextContract
    /\ UNCHANGED <<ledger, cursor, sinkVars, restarts, faults>>

ReconnectFails ==
    /\ step = "reconnect"
    /\ Fault("horizon")
    /\ health' = "down"
    /\ IF attempt + 1 < ReconnectAttempts
       THEN attempt' = attempt + 1 /\ UNCHANGED <<step, polled, page, pos>>
       ELSE NextContract
    /\ UNCHANGED <<ledger, cursor, sinkVars, restarts>>

(* captureFailure: a broker error is logged and swallowed. *)
Captures(x) ==
    \/ captured' = captured \cup {x} /\ UNCHANGED <<missed, faults>>
    \/ Fault("broker") /\ missed' = missed \cup {x} /\ UNCHANGED captured

(* dispatchRawEffect of an effect that parseEffect refuses. *)
ParseFailure ==
    /\ step = "dispatch" /\ Kind = "malformed"
    /\ Captures(<<Polled, Here, 0>>)
    /\ Advance
    /\ UNCHANGED <<ledger, health, delivered, restarts>>

(* An effect no handler wants, or of a contract without one. *)
Ignore ==
    /\ step = "dispatch"
    /\ Kind = "other" \/ (Kind = "event" /\ pos > Len(Handlers))
    /\ Advance
    /\ UNCHANGED <<ledger, health, sinkVars, restarts, faults>>

Handling == step = "dispatch" /\ Kind = "event" /\ pos \in Hs

(* invokeHandlerWithRetry: the handler finishes ... *)
Handled ==
    /\ Handling
    /\ delivered' = [delivered EXCEPT ![pos][Here] = @ + 1]
    /\ MoveOn
    /\ UNCHANGED <<ledger, health, captured, missed, restarts, faults>>

(* ... returns without having done its work, because Horizon did not resolve *)
(* or verify the hash, or because it caught the broker's error itself ...    *)
Dropped ==
    /\ Handling
    /\ Fault(IF Handlers[pos].kind = "lookup" THEN "lookup" ELSE "broker")
    /\ missed' = missed \cup {<<Polled, Here, pos>>}
    /\ MoveOn
    /\ UNCHANGED <<ledger, health, delivered, captured, restarts>>

(* ... or throws (the database or the broker, in a "lookup" handler). *)
HandlerFails ==
    /\ Handling /\ Handlers[pos].kind = "lookup"
    /\ Fault("handler")
    /\ IF attempt + 1 < HandlerAttempts
       THEN attempt' = attempt + 1 /\ UNCHANGED step
       ELSE attempt' = 0 /\ step' = "capture"
    /\ UNCHANGED <<ledger, cursor, polled, page, pos, health, sinkVars, restarts>>

CaptureHandlerFailure ==
    /\ step = "capture"
    /\ Captures(<<Polled, Here, pos>>)
    /\ MoveOn
    /\ UNCHANGED <<ledger, health, delivered, restarts>>

(* The process dies; start() is called without a cursor. *)
Restart ==
    /\ Fault("process")
    /\ restarts' = restarts + 1
    /\ cursor' = [c \in Contract |-> 0]
    /\ step' = "fetch" /\ polled' = 1 /\ page' = 0 /\ attempt' = 0
    /\ pos' = NextHandler(Contracts[1], 1)
    /\ health' = "down"
    /\ UNCHANGED <<ledger, sinkVars>>

Listen ==
    \/ Fetch \/ FetchFails \/ Reconnect \/ ReconnectFails \/ ParseFailure \/ Ignore
    \/ Handled \/ Dropped \/ HandlerFails \/ CaptureHandlerFailure

ListenerNext ==
    \/ \E c \in Contract, k \in Kinds : Emit(c, k)
    \/ Listen \/ Restart

ListenerSpec == ListenerInit /\ [][ListenerNext]_listenerVars

(* The loop runs for as long as the process does. *)
ListenerFairSpec == ListenerSpec /\ WF_listenerVars(Listen)

-----------------------------------------------------------------------------
Finished(c, i, h) == delivered[h][i] > 0 \/ <<c, i, h>> \in captured

(* No effect is skipped: behind the cursor every effect was finished by every   *)
(* handler of its contract, or captured, or lost with one of the two losses the *)
(* code accepts (a dropped event, a capture the broker refused), across pages,  *)
(* failed fetches and restarts.  And only a restart shows a handler an effect   *)
(* that it has finished already.                                                *)
CursorSound ==
    /\ ListenerTypeOK
    /\ \A c \in Contract : \A i \in 1..cursor[c] :
          CASE ledger[c][i] = "other"     -> TRUE
            [] ledger[c][i] = "malformed" -> <<c, i, 0>> \in captured \cup missed
            [] ledger[c][i] = "event"     -> \A h \in Hs : Handlers[h].contract = c =>
                                                Finished(c, i, h) \/ <<c, i, h>> \in missed
    /\ \A h \in Hs : \A i \in Effect(h) : delivered[h][i] <= 1 + restarts

(* Every effect is dispatched, however its handlers fare and whatever the      *)
(* fetches and the other contracts do.                                         *)
EffectsDispatched ==
    \A c \in Contract : \A i \in 1..MaxEffects[c] : i <= Len(ledger[c]) ~> cursor[c] >= i
=============================================================================
