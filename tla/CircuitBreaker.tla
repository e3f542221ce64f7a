--------------------------- MODULE CircuitBreaker ---------------------------
(***************************************************************************)
(* utils/circuitBreaker.ts and the way its clients call it.  The provider  *)
(* clients (flutterwave, paystack, mtn-momo) ask canExecute before their   *)
(* try block; StellarClient asks inside it, so that the refusal itself is  *)
(* caught and recorded as a failure.  Requests overlap: between canExecute *)
(* and the record of the answer other requests come and go.                *)
(***************************************************************************)
EXTENDS Naturals, FiniteSets

CONSTANTS
    Caller,            \* requests that may be in flight together
    FailureThreshold, SuccessThreshold,
    Cooldown,          \* cooldownMs, in ticks
    GuardInTry,        \* TRUE for StellarClient
    MaxOutages         \* bound: how often the service goes down

ASSUME BreakerAssumption ==
    /\ {FailureThreshold, SuccessThreshold, Cooldown} \subseteq Nat \ {0}
    /\ GuardInTry \in BOOLEAN
    /\ MaxOutages \in Nat

VARIABLES
    state,      \* CircuitBreaker.state
    failures,   \* failureCount, up to FailureThreshold
    successes,  \* successCount
    since,      \* ticks since lastFailureTime, up to Cooldown
    inflight,   \* requests that were let through and did not answer yet
    up, outages,\* the service
    bad, good   \* history: failures and successes recorded in a row, up to the thresholds

countVars == <<failures, successes>>
vars == <<state, countVars, since, inflight, up, outages, bad, good>>

TypeOK ==
    /\ state \in {"CLOSED", "OPEN", "HALF_OPEN"}
    /\ failures \in 0..FailureThreshold
    /\ successes \in 0..SuccessThreshold
    /\ since \in 0..Cooldown
    /\ inflight \subseteq Caller
    /\ up \in BOOLEAN /\ outages \in 0..MaxOutages
    /\ bad \in 0..FailureThreshold /\ good \in 0..SuccessThreshold

Init ==
    /\ state = "CLOSED"
    /\ failures = 0 /\ successes = 0 /\ since = 0
    /\ inflight = {}
    /\ up = TRUE /\ outages = 0
    /\ bad = 0 /\ good = 0

UpTo(n, limit) == IF n < limit THEN n ELSE limit

-----------------------------------------------------------------------------
(* transitionTo: what the counters become on entering a state. *)
SuccessesAfter(new) == IF new \in {"CLOSED", "HALF_OPEN"} THEN 0 ELSE successes
FailuresAfter(new, count) == IF new = "CLOSED" THEN 0 ELSE count

(* Mutation: a success in HALF_OPEN is not counted. *)
SuccessUncounted ==
    /\ failures' = IF state = "CLOSED" THEN 0 ELSE failures
    /\ UNCHANGED <<state, successes, since>>
    /\ bad' = 0 /\ good' = UpTo(good + 1, SuccessThreshold)

recordSuccess ==
    /\ CASE state = "HALF_OPEN" ->
              IF successes + 1 >= SuccessThreshold
              THEN /\ state' = "CLOSED"
                   /\ successes' = SuccessesAfter("CLOSED")
                   /\ failures' = FailuresAfter("CLOSED", failures)
              ELSE successes' = successes + 1 /\ UNCHANGED <<state, failures>>
         [] state = "CLOSED" -> failures' = 0 /\ UNCHANGED <<state, successes>>
         [] state = "OPEN"   -> UNCHANGED <<state, countVars>>
    /\ UNCHANGED since
    /\ bad' = 0 /\ good' = UpTo(good + 1, SuccessThreshold)

recordFailure ==
    LET count == UpTo(failures + 1, FailureThreshold)
        trips == state = "HALF_OPEN" \/ (state = "CLOSED" /\ count >= FailureThreshold)
    IN /\ failures' = count
       /\ since' = 0
       /\ state' = IF trips THEN "OPEN" ELSE state
       /\ UNCHANGED successes
       /\ bad' = UpTo(bad + 1, FailureThreshold) /\ good' = 0

-----------------------------------------------------------------------------
Tick ==
    /\ since < Cooldown
    /\ since' = since + 1
    /\ UNCHANGED <<state, countVars, inflight, up, outages, bad, good>>

GoesDown ==
    /\ up /\ outages < MaxOutages
    /\ up' = FALSE /\ outages' = outages + 1
    /\ UNCHANGED <<state, countVars, since, inflight, bad, good>>

ComesUp ==
    /\ ~up /\ up' = TRUE
    /\ UNCHANGED <<state, countVars, since, inflight, outages, bad, good>>

(* canExecute, answered yes. *)
Admit(c) ==
    /\ c \notin inflight
    /\ \/ state \in {"CLOSED", "HALF_OPEN"} /\ UNCHANGED <<state, countVars>>
       \/ /\ state = "OPEN" /\ since >= Cooldown
          /\ state' = "HALF_OPEN"
          /\ successes' = SuccessesAfter("HALF_OPEN")
          /\ UNCHANGED failures
    /\ inflight' = inflight \cup {c}
    /\ UNCHANGED <<since, up, outages, bad, good>>

(* canExecute, answered no: the request ends, and StellarClient records it. *)
Refuse(c) ==
    /\ c \notin inflight
    /\ state = "OPEN" /\ since < Cooldown
    /\ IF GuardInTry THEN recordFailure ELSE UNCHANGED <<state, countVars, since, bad, good>>
    /\ UNCHANGED <<inflight, up, outages>>

(* The request answers, as the service is by then. *)
Answer(c) ==
    /\ c \in inflight
    /\ IF up THEN recordSuccess ELSE recordFailure
    /\ inflight' = inflight \ {c}
    /\ UNCHANGED <<up, outages>>

(* getState, which monitoring and getMetrics read, makes the same move as canExecute. *)
getState ==
    /\ state = "OPEN" /\ since >= Cooldown
    /\ state' = "HALF_OPEN"
    /\ successes' = SuccessesAfter("HALF_OPEN")
    /\ UNCHANGED <<failures, since, inflight, up, outages, bad, good>>

Next ==
    \/ Tick \/ GoesDown \/ ComesUp \/ getState
    \/ \E c \in Caller : Admit(c) \/ Refuse(c) \/ Answer(c)

Spec == Init /\ [][Next]_vars

(* Time passes, requests keep coming and are answered. *)
FairSpec ==
    /\ Spec
    /\ WF_vars(Tick)
    /\ \A c \in Caller : WF_vars(Admit(c) \/ Refuse(c)) /\ WF_vars(Answer(c))

-----------------------------------------------------------------------------
(* The circuit closes again only after SuccessThreshold successes in a row: no *)
(* success counted in an earlier half-open period survives a failure.          *)
ClosesAfterSuccesses ==
    [][state = "HALF_OPEN" /\ state' = "CLOSED" => good' >= SuccessThreshold]_vars

(* It trips only after FailureThreshold failures in a row, also when requests  *)
(* that were let through before the last outage answer late.                   *)
TripsAfterFailures ==
    [][state = "CLOSED" /\ state' = "OPEN" => bad' >= FailureThreshold]_vars

(* Once the service stays up, the circuit closes and stays closed. *)
Recovers == (<>[]up) => <>[](state = "CLOSED")

(* circuitBreaker.ts:34: canExecute "Returns true if CLOSED or HALF_OPEN (after *)
(* cooldown)": with the service up for good, requests are let through again.    *)
CooldownEnds == (<>[]up) => []<>(state # "OPEN")
=============================================================================
