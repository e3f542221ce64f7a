------------------------------ MODULE Inbound ------------------------------
(***************************************************************************)
(* What a call of a partner passes before its handler runs: the middleware *)
(* of index.ts in its order, the parsers, and the signature checks of the  *)
(* fiat webhooks, the bills webhook and the mint confirmation; then, for   *)
(* the fiat webhooks, the row with its unique event_id.  Calls are         *)
(* delayed, repeated with the old or with a new timestamp, and overlap.    *)
(* What the handlers of bills and mints do next is in Bills and BasketMint.*)
(***************************************************************************)
EXTENDS Naturals, FiniteSets

CONSTANTS
    Delivery,    \* calls under way at the same time
    EventId, NoId,
    Tolerance,   \* WEBHOOK_TIMESTAMP_TOLERANCE_S and TOLERANCE_S
    MaxFlaws,    \* bound: defects of two calls together
    MaxSent,     \* bound: calls in all
    MaxHour      \* bound: the clock

Route == {"flutterwave", "paystack", "bills", "mint"}
Flaws == {"query", "body", "encoding", "type", "gzip", "length", "large", "agent", "unsigned", "forged"}

ASSUME InboundAssumption ==
    /\ NoId \notin EventId
    /\ Tolerance \in Nat /\ MaxFlaws \in Nat /\ MaxSent \in Nat /\ MaxHour \in Nat

VARIABLES
    hour,
    secrets,  \* the routes whose secret is configured
    dpc,      \* "idle", "sent", "handle", "done"
    letter,      \* [route, id, flaws, stamp]: the call of each delivery
    reply,    \* the status it was answered with, 0 before
    rows,     \* Webhook rows with an event_id: <<route, id>>
    bare,     \* how many rows have none
    sent,
    \* what happened, for the properties
    unfit,    \* a handler ran for a call that was forged, unsigned or out of time
    acked     \* the events answered with 200

inboundVars == <<hour, secrets, dpc, letter, reply, rows, bare, sent, unfit, acked>>

Webhooks == {"flutterwave", "paystack", "bills"}  \* mounted under /v1/webhooks
Fiat     == {"flutterwave", "paystack"}
NoCall   == [route |-> "mint", id |-> NoId, flaws |-> {}, stamp |-> 0]

InboundTypeOK ==
    /\ dpc \in [Delivery -> {"idle", "sent", "handle", "done"}]
    /\ rows \subseteq Fiat \X EventId /\ acked \subseteq EventId
    /\ \A d \in Delivery : /\ letter[d].flaws \subseteq Flaws /\ letter[d].stamp \in 0..hour
                           /\ reply[d] \in {0, 200, 400, 401, 403, 413, 415, 500, 503}

InboundInit ==
    /\ hour = 0 /\ secrets \in {Route, Fiat \cup {"bills"}}
    /\ dpc = [d \in Delivery |-> "idle"] /\ letter = [d \in Delivery |-> NoCall]
    /\ reply = [d \in Delivery |-> 0] /\ rows = {} /\ bare = 0 /\ sent = 0
    /\ unfit = FALSE /\ acked = {}

HourPasses ==
    /\ hour < MaxHour /\ hour' = hour + 1
    /\ UNCHANGED <<secrets, dpc, letter, reply, rows, bare, sent, unfit, acked>>

(* A partner makes a call and stamps it. *)
PartnerSends(d) ==
    /\ dpc[d] = "idle" /\ sent < MaxSent /\ sent' = sent + 1
    /\ \E r \in Route, i \in EventId \cup {NoId}, f \in SUBSET Flaws :
          /\ \A e \in Delivery \ {d} : Cardinality(f) + Cardinality(letter[e].flaws) <= MaxFlaws
          /\ r \notin Fiat => i = NoId
          /\ letter' = [letter EXCEPT ![d] = [route |-> r, id |-> i, flaws |-> f, stamp |-> hour]]
    /\ dpc' = [dpc EXCEPT ![d] = "sent"]
    /\ UNCHANGED <<hour, secrets, reply, rows, bare, unfit, acked>>

(* It makes the same call again, its answer lost or not 200: as it was, or stamped anew. *)
SendAgain(d) ==
    /\ dpc[d] = "done" /\ sent < MaxSent /\ sent' = sent + 1
    /\ \E t \in {letter[d].stamp, hour} : letter' = [letter EXCEPT ![d].stamp = t]
    /\ dpc' = [dpc EXCEPT ![d] = "sent"] /\ reply' = [reply EXCEPT ![d] = 0]
    /\ UNCHANGED <<hour, secrets, rows, bare, unfit, acked>>

-----------------------------------------------------------------------------
(* Each check is the status it refuses call q with, 0 when it lets it pass. *)

(* blockGraphQLQueries stands before the parsers: the query is searched, but there *)
(* is no body yet.                                                                 *)
blockGraphQLQueries(q) == IF "query" \in q.flaws THEN 400 ELSE 0

(* identity and gzip. *)
validateRequestContentEncoding(q) == IF "encoding" \in q.flaws THEN 415 ELSE 0

(* validateWebhookContentType; elsewhere a body of another type is not parsed. *)
validateWebhookContentType(q) == IF q.route \in Webhooks /\ "type" \in q.flaws THEN 415 ELSE 0

(* The verify hook: Content-Length must be the length of the body, which the *)
(* parser has inflated.                                                      *)
verifyContentLength(q) == IF {"length", "gzip"} \cap q.flaws # {} THEN 400 ELSE 0

(* The JSON parser, its limit and its verify hook; a body of another type is left alone. *)
Parse(q) ==
    IF "type" \in q.flaws THEN 0 ELSE IF "large" \in q.flaws THEN 413 ELSE verifyContentLength(q)

(* userAgentFilter comes after the webhooks. *)
userAgentFilter(q) == IF q.route \notin Webhooks /\ "agent" \in q.flaws THEN 403 ELSE 0

(* Mutation: only a stamp from the future is refused. *)
AnyAge(q) == q.stamp <= hour

(* Either way from the server's time. *)
isTimestampValid(q) == hour <= q.stamp + Tolerance /\ q.stamp <= hour + Tolerance

NoSecret(q) == q.route \notin secrets
Mismatch(q) == {"unsigned", "forged"} \cap q.flaws # {}

verifyFlutterwaveSignature(q) ==
    IF "type" \in q.flaws THEN 415
    ELSE IF NoSecret(q) THEN 503
    ELSE IF ~isTimestampValid(q) \/ Mismatch(q) THEN 401 ELSE 0

verifyPaystackSignature(q) == verifyFlutterwaveSignature(q)
verifyBillsWebhookSignature(q) == verifyFlutterwaveSignature(q)

(* No check of the type: without a parsed body there is no raw body. *)
verifyMintConfirmationSignature(q) ==
    IF NoSecret(q) THEN 503
    ELSE IF ~isTimestampValid(q) \/ "unsigned" \in q.flaws THEN 401
    ELSE IF "type" \in q.flaws THEN 400
    ELSE IF "forged" \in q.flaws THEN 401 ELSE 0

Signature(q) ==
    CASE q.route = "mint"        -> verifyMintConfirmationSignature(q)
      [] q.route = "paystack"    -> verifyPaystackSignature(q)
      [] q.route = "bills"       -> verifyBillsWebhookSignature(q)
      [] q.route = "flutterwave" -> verifyFlutterwaveSignature(q)

(* The chain: the first refusal is the answer. *)
Chain(q) == <<blockGraphQLQueries(q), validateRequestContentEncoding(q), validateWebhookContentType(q),
              Parse(q), userAgentFilter(q), Signature(q)>>
Refusal(q) ==
    LET refused == {i \in DOMAIN Chain(q) : Chain(q)[i] # 0}
    IN IF refused = {} THEN 0 ELSE Chain(q)[CHOOSE i \in refused : \A j \in refused : i <= j]

Arrive(d) ==
    /\ dpc[d] = "sent"
    /\ LET s == Refusal(letter[d])
       IN IF s = 0
          THEN /\ dpc' = [dpc EXCEPT ![d] = "handle"] /\ UNCHANGED reply
               /\ unfit' = (unfit \/ Mismatch(letter[d]) \/ hour > letter[d].stamp + Tolerance)
          ELSE /\ dpc' = [dpc EXCEPT ![d] = "done"] /\ reply' = [reply EXCEPT ![d] = s] /\ UNCHANGED unfit
    /\ UNCHANGED <<hour, secrets, letter, rows, bare, sent, acked>>

-----------------------------------------------------------------------------
Reply(d, s) == reply' = [reply EXCEPT ![d] = s] /\ dpc' = [dpc EXCEPT ![d] = "done"]

(* Mutation: a row is there if the same provider stored the event. *)
OfProvider(q) == <<q.route, q.id>> \in rows

(* isWebhookEventIdConflict: Webhook.eventId is unique over all providers. *)
isWebhookEventIdConflict(q) == \E r \in Fiat : <<r, q.id>> \in rows

(* The handler of a fiat webhook creates its row; a conflict is a duplicate. *)
handleFiatWebhook(d) ==
    /\ dpc[d] = "handle" /\ letter[d].route \in Fiat
    /\ Reply(d, 200)
    /\ IF letter[d].id = NoId
       THEN bare' = bare + 1 /\ UNCHANGED <<rows, acked>>
       ELSE /\ rows' = IF isWebhookEventIdConflict(letter[d]) THEN rows
                       ELSE rows \cup {<<letter[d].route, letter[d].id>>}
            /\ acked' = acked \cup {letter[d].id} /\ UNCHANGED bare
    /\ UNCHANGED <<hour, secrets, letter, sent, unfit>>

(* handleBillsWebhook looks at the time once more; confirmMint at its payload. *)
HandleCall(d) ==
    /\ dpc[d] = "handle" /\ letter[d].route \notin Fiat
    /\ IF letter[d].route = "bills" /\ ~isTimestampValid(letter[d])
       THEN Reply(d, 401)
       ELSE \E s \in {200, 400} : Reply(d, s)
    /\ UNCHANGED <<hour, secrets, letter, rows, bare, sent, unfit, acked>>

(* errorHandler: an unexpected error, the database's say. *)
errorHandler(d) ==
    /\ dpc[d] = "handle" /\ Reply(d, 500)
    /\ UNCHANGED <<hour, secrets, letter, rows, bare, sent, unfit, acked>>

InboundNext ==
    \/ HourPasses
    \/ \E d \in Delivery :
          PartnerSends(d) \/ SendAgain(d) \/ Arrive(d) \/ handleFiatWebhook(d) \/ HandleCall(d) \/ errorHandler(d)

InboundSpec == InboundInit /\ [][InboundNext]_inboundVars

-----------------------------------------------------------------------------
(* However calls are delayed, repeated and interleaved, no handler runs for one  *)
(* that was not signed with the route's secret or that was stamped longer ago    *)
(* than the tolerance; an event is stored once, by one provider; and one that    *)
(* was acknowledged is stored.                                                   *)
InboundSound ==
    /\ InboundTypeOK /\ ~unfit
    /\ \A x, y \in rows : x[2] = y[2] => x = y
    /\ \A i \in acked : \E x \in rows : x[2] = i
    /\ \A d \in Delivery : reply[d] = 200 => letter[d].route \in secrets /\ letter[d].flaws \cap {"unsigned", "forged"} = {}
============================================================================
