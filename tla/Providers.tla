----------------------------- MODULE Providers -----------------------------
(***************************************************************************)
(* One payout or balance query through a fintech client (flutterwave,      *)
(* paystack, mtn-momo): the circuit breaker around it, MTN's cached access *)
(* token, and the HTTP client beneath, which sends the same request again  *)
(* when the answer is 429, 5xx or missing.  What makes a resent payout     *)
(* harmless is its reference: MTN's is new for every call, Paystack's is   *)
(* the time in milliseconds, Flutterwave's transfers have none.            *)
(***************************************************************************)
EXTENDS Naturals, FiniteSets

CONSTANTS
    Payout,       \* calls of the clients
    NoToken,      \* no access token
    Margin,       \* the 60 s a cached token must have left
    Life,         \* expires_in
    HttpRetries,  \* MAX_RETRIES
    MaxTime       \* bound: the clock

ASSUME ProvidersAssumption ==
    /\ Margin \in Nat /\ Life \in Nat /\ Life > Margin /\ HttpRetries \in Nat
    /\ MaxTime \in Nat /\ NoToken \notin Nat

VARIABLES
    second,
    via, what,         \* the client and the request of each call
    ppc, resends,      \* where each call is, and config._retryCount
    payRef, bearer, \* the request's reference and token
    token,             \* of the MTN client: tokenExpiry, with a token
    open,              \* the clients whose breaker is open: CircuitBreaker has its counts
    used,              \* references each provider has accepted
    \* what happened, for the properties
    made,              \* how often each payout was made
    began,             \* when each call had its token
    unclear,           \* the calls one of whose answers was lost
    stale              \* a request left within the margin with an expired token

providerVars == <<second, via, what, ppc, resends, payRef, bearer, token, open, used,
                  made, began, unclear, stale>>
callVars == <<via, what, payRef, bearer, began>>

Client == {"flutterwave", "paystack", "mtn"}
NoRef  == <<"none", 0>>

ProvidersTypeOK ==
    /\ second \in 0..MaxTime /\ token \in Nat \cup {NoToken}
    /\ ppc \in [Payout -> {"idle", "token", "send", "sent", "ok", "failed"}]
    /\ resends \in [Payout -> 0..HttpRetries]
    /\ open \subseteq Client

ProvidersInit ==
    /\ second = 0 /\ token = NoToken
    /\ via \in [Payout -> Client] /\ what \in [Payout -> {"pay", "balance"}]
    /\ ppc = [k \in Payout |-> "idle"] /\ resends = [k \in Payout |-> 0]
    /\ payRef = [k \in Payout |-> NoRef] /\ bearer = [k \in Payout |-> NoToken]
    /\ open = {} /\ used = [c \in Client |-> {}]
    /\ made = [k \in Payout |-> 0] /\ began = [k \in Payout |-> 0] /\ unclear = {} /\ stale = FALSE

PayStage(k, l) == ppc' = [ppc EXCEPT ![k] = l]

(* Time passes: answers, timeouts and the waits before a resend take it. *)
SecondsPass ==
    /\ second < MaxTime /\ second' = second + 1
    /\ UNCHANGED <<callVars, ppc, resends, token, open, used, made, unclear, stale>>

(* The breaker's cooldown ends. *)
CoolsDown(c) ==
    /\ c \in open /\ open' = open \ {c}
    /\ UNCHANGED <<second, callVars, ppc, resends, token, used, made, unclear, stale>>

-----------------------------------------------------------------------------
(* Mutation: a token is used until the moment it expires. *)
TillExpiry == token # NoToken /\ token > second

(* ensureToken: a token with more than the margin left is used again. *)
TokenGood == token # NoToken /\ token > second + Margin

(* Mutation: only Paystack's transfers carry a reference. *)
PaystackOnly(k) == IF what[k] = "pay" /\ via[k] = "paystack" THEN <<"now", second>> ELSE NoRef

(* The reference of a request: X-Reference-Id of MTN, reference of Paystack. *)
referenceId(k) ==
    CASE what[k] = "balance" \/ via[k] = "flutterwave" -> NoRef
      [] via[k] = "paystack" -> <<"now", second>>
      [] OTHER -> <<"unique", k>>

(* requestWrapper refuses while the breaker is open; else the request is built *)
(* and leaves.  The header of MTN's token stays the same when it is sent again.*)
Leaves(k, t) ==
    /\ payRef' = [payRef EXCEPT ![k] = referenceId(k)]
    /\ bearer' = [bearer EXCEPT ![k] = t]
    /\ began' = [began EXCEPT ![k] = second]
    /\ PayStage(k, IF via[k] \in open THEN "failed" ELSE "send")
    /\ UNCHANGED <<via, what>>

(* getBalance and disburseFunds; MTN's needs a token first. *)
disburseFunds(k) ==
    /\ ppc[k] = "idle"
    /\ IF via[k] = "mtn" /\ ~TokenGood
       THEN PayStage(k, IF "mtn" \in open THEN "failed" ELSE "token") /\ UNCHANGED callVars
       ELSE Leaves(k, IF via[k] = "mtn" THEN token ELSE NoToken)
    /\ UNCHANGED <<second, resends, token, open, used, made, unclear, stale>>

(* recordFailure, once for a call however often it was sent, may open the breaker. *)
Failure(c) == open' \in {open, open \cup {c}}

(* The token request is answered, or has failed for good; calls that run at once *)
(* each make one, and the last answer is kept.                                   *)
ensureToken(k) ==
    /\ ppc[k] = "token"
    /\ \/ token' = second + Life /\ Leaves(k, token') /\ UNCHANGED open
       \/ /\ PayStage(k, "failed") /\ Failure("mtn") /\ UNCHANGED <<token, callVars>>
    /\ UNCHANGED <<second, resends, used, made, unclear, stale>>

-----------------------------------------------------------------------------
(* The request leaves, for the first time or again. *)
SendPayout(k) ==
    /\ ppc[k] = "send" /\ PayStage(k, "sent")
    /\ stale' = (stale \/ (via[k] = "mtn" /\ second <= began[k] + Margin /\ bearer[k] <= second))
    /\ UNCHANGED <<second, callVars, resends, token, open, used, made, unclear>>

(* The provider acts on a payout once for a reference it knows. *)
Admits(k) == payRef[k] = NoRef \/ payRef[k] \notin used[via[k]]
Acts(k) ==
    /\ made' = IF what[k] = "pay" THEN [made EXCEPT ![k] = @ + 1] ELSE made
    /\ used' = [used EXCEPT ![via[k]] = @ \cup ({payRef[k]} \ {NoRef})]

(* Answered with success. *)
Succeeds(k) ==
    /\ ppc[k] = "sent" /\ Admits(k)
    /\ Acts(k) /\ PayStage(k, "ok")
    /\ UNCHANGED <<second, callVars, resends, token, open, unclear, stale>>

(* Refused with a 4xx, as a reference used before is: not sent again. *)
Refused(k) ==
    /\ ppc[k] = "sent" /\ PayStage(k, "failed") /\ Failure(via[k])
    /\ UNCHANGED <<second, callVars, resends, token, used, made, unclear, stale>>

(* isRetryable, and retries left. *)
Again(k) == resends[k] < HttpRetries

(* attachRetryInterceptor: 429, 5xx or no answer, whether or not the provider  *)
(* acted; the call waits and sends the same again, or gives up.                *)
attachRetryInterceptor(k) ==
    /\ ppc[k] = "sent"
    /\ \/ Admits(k) /\ Acts(k) /\ unclear' = unclear \cup {k}
       \/ UNCHANGED <<made, used, unclear>>
    /\ IF Again(k)
       THEN resends' = [resends EXCEPT ![k] = @ + 1] /\ PayStage(k, "send") /\ UNCHANGED open
       ELSE Failure(via[k]) /\ PayStage(k, "failed") /\ UNCHANGED resends
    /\ UNCHANGED <<second, callVars, token, stale>>

ProvidersNext ==
    \/ SecondsPass
    \/ \E c \in Client : CoolsDown(c)
    \/ \E k \in Payout :
          \/ disburseFunds(k) \/ ensureToken(k) \/ SendPayout(k) \/ Succeeds(k) \/ Refused(k)
          \/ attachRetryInterceptor(k)

ProvidersSpec == ProvidersInit /\ [][ProvidersNext]_providerVars

-----------------------------------------------------------------------------
(* A call that succeeded made its payout; a payout of Paystack or MTN is made   *)
(* at most once however often it is sent, one of Flutterwave unless an answer   *)
(* was lost; and the token it carries outlives the margin, though the same      *)
(* header is sent again after waits and other calls renew the token.            *)
PayoutsAccounted ==
    /\ ProvidersTypeOK /\ ~stale
    /\ \A k \in Payout :
          /\ ppc[k] = "ok" /\ what[k] = "pay" => made[k] > 0
          /\ via[k] # "flutterwave" \/ k \notin unclear => made[k] <= 1
          /\ ppc[k] = "failed" /\ made[k] > 0 => k \in unclear
=============================================================================
