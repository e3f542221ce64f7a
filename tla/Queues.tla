------------------------------ MODULE Queues ------------------------------
(***************************************************************************)
(* The three queues whose consumers validate what they take: outbound      *)
(* webhooks, notifications and one-time codes, and the audit trail.  Each  *)
(* has its own way of failing: the webhook consumer acknowledges and sends *)
(* again from a timer, the notification consumer sends again and then      *)
(* acknowledges, the audit consumer tries again in place.  A notification  *)
(* goes out as a mail and then as a text message.                          *)
(***************************************************************************)
EXTENDS Naturals

CONSTANTS
    Webhook, Notice, Audit,  \* messages of QUEUES.WEBHOOKS; OTP_SEND and NOTIFICATIONS; AUDIT_LOGS
    Enveloped,      \* messages that are published in the envelope parseIncomingMessage asks
                    \* for: none of those that enqueueWebhook, sendOtp and logAudit publish
    MaxPosts,    \* retryPolicy.maxAttempts of the endpoint
    MaxRetries,     \* getQueueMaxRetries
    MaxCrashes      \* bound: consumers and publishers that die

Message == Webhook \cup Notice \cup Audit

ASSUME QueuesAssumption ==
    /\ Enveloped \subseteq Message
    /\ Webhook \cap Notice = {} /\ Webhook \cap Audit = {} /\ Notice \cap Audit = {}  \* queues of their own
    /\ MaxPosts \in Nat \ {0} /\ MaxRetries \in Nat /\ MaxCrashes \in Nat

VARIABLES
    row, attempts,   \* the Webhook row of a message
    at, retries,     \* where each message is, and its x-retries header
    hpc, tried,      \* the handler that holds a message, and its own count of attempts
    mailer, texter,  \* what the configured providers do: "sends", "logs" or "refuses"
    crashes,
    \* what happened, for the properties
    effects,         \* posts, mails or audit rows that came of each message
    forgotten,       \* ... of them, those that no counter or acknowledgement remembers
    stranded         \* messages that were lost with a process, or not published

queueVars == <<row, attempts, at, retries, hpc, tried, mailer, texter, crashes,
               effects, forgotten, stranded>>

QueuesTypeOK ==
    /\ row \in [Webhook -> {"none", "pending", "completed", "failed"}]
    /\ attempts \in [Webhook -> 0..MaxPosts + 1]
    /\ at \in [Message -> {"none", "queue", "held", "timer", "acked", "dlq", "dropped", "outbox", "file"}]
    /\ retries \in [Message -> 0..MaxRetries]
    /\ \A m \in Message : at[m] = "held" <=> hpc[m] \notin {"idle", "publish"}
    /\ {mailer, texter} \subseteq {"sends", "logs", "refuses"}

EmailProvider == {"smtp", "sendgrid", "ses", "log", "no key"}
SmsProvider   == {"twilio", "africas_talking", "africas_talking, no key", "log", "no key"}

(* sendEmail: SES is not implemented and throws; a provider without its key only logs. *)
sendEmail(p) == CASE p \in {"smtp", "sendgrid"} -> "sends" [] p = "ses" -> "refuses" [] OTHER -> "logs"

(* sendSms: AfricasTalking without its credentials throws, Twilio only logs. *)
sendSms(p) ==
    CASE p \in {"twilio", "africas_talking"} -> "sends"
      [] p = "africas_talking, no key"       -> "refuses"
      [] OTHER                               -> "logs"

QueuesInit ==
    /\ row = [w \in Webhook |-> "none"] /\ attempts = [w \in Webhook |-> 0]
    /\ at = [m \in Message |-> "none"] /\ retries = [m \in Message |-> 0]
    /\ hpc = [m \in Message |-> "idle"] /\ tried = [m \in Message |-> 0]
    /\ mailer \in {sendEmail(p) : p \in EmailProvider} /\ texter \in {sendSms(p) : p \in SmsProvider}
    /\ crashes = 0
    /\ effects = [m \in Message |-> 0] /\ forgotten = [m \in Message |-> 0] /\ stranded = {}

-----------------------------------------------------------------------------
(* enqueueWebhook: the row, ... *)
enqueueWebhook(w) ==
    /\ at[w] = "none" /\ row[w] = "none"
    /\ row' = [row EXCEPT ![w] = "pending"]
    /\ hpc' = [hpc EXCEPT ![w] = "publish"]
    /\ UNCHANGED <<attempts, at, retries, tried, mailer, texter, crashes, effects, forgotten, stranded>>

(* ... then the message, which a broker that cannot be reached prevents. *)
PublishWebhook(w) ==
    /\ hpc[w] = "publish"
    /\ hpc' = [hpc EXCEPT ![w] = "idle"]
    /\ \/ at' = [at EXCEPT ![w] = "queue"] /\ UNCHANGED stranded
       \/ stranded' = stranded \cup {w} /\ UNCHANGED at
    /\ UNCHANGED <<row, attempts, retries, tried, mailer, texter, crashes, effects, forgotten>>

(* sendOtp and the publishers of notifications; a failure is the caller's. *)
PublishNotice(n) ==
    /\ at[n] = "none"
    /\ at' = [at EXCEPT ![n] = "queue"]
    /\ UNCHANGED <<row, attempts, retries, hpc, tried, mailer, texter, crashes, effects, forgotten, stranded>>

(* logAudit: publishWithRetry, then the outbox in MongoDB, then a file. *)
logAudit(a) ==
    /\ at[a] = "none"
    /\ \E place \in {"queue", "outbox", "file"} : at' = [at EXCEPT ![a] = place]
    /\ UNCHANGED <<row, attempts, retries, hpc, tried, mailer, texter, crashes, effects, forgotten, stranded>>

-----------------------------------------------------------------------------
Leaves(m, place) == at' = [at EXCEPT ![m] = place] /\ hpc' = [hpc EXCEPT ![m] = "idle"]
Moves(m, l) == hpc' = [hpc EXCEPT ![m] = l] /\ UNCHANGED at

(* parseIncomingMessage refuses a message without its envelope, and              *)
(* deadLetterMessage sends it to the dead-letter queue.                          *)
parseIncomingMessage(m) == m \in Enveloped

TakeMessage(m) ==
    /\ at[m] = "queue"
    /\ IF parseIncomingMessage(m)
       THEN /\ at' = [at EXCEPT ![m] = "held"]
            /\ hpc' = [hpc EXCEPT ![m] = IF m \in Webhook THEN "read" ELSE "act"]
       ELSE Leaves(m, "dlq")
    /\ tried' = [tried EXCEPT ![m] = 0]
    /\ UNCHANGED <<row, attempts, retries, mailer, texter, crashes, effects, forgotten, stranded>>

(* Mutation: the message is dropped when its delivery fails with an error. *)
DropsWebhook(w) == Leaves(w, "acked")

(* An error out of deliverWebhook: acknowledged, then sent again from a timer.   *)
RetryWebhook(w) == IF retries[w] >= MaxRetries THEN Leaves(w, "dlq") ELSE Leaves(w, "timer")

(* deliverWebhook finds the row: a finished one is not delivered again. *)
FindWebhook(w) ==
    /\ hpc[w] = "read"
    /\ \/ row[w] = "completed" /\ Leaves(w, "acked") /\ UNCHANGED tried
       \/ row[w] = "failed" /\ Leaves(w, "dlq") /\ UNCHANGED tried
       \/ /\ row[w] = "pending"
          /\ tried' = [tried EXCEPT ![w] = attempts[w]]
          /\ IF attempts[w] < MaxPosts THEN Moves(w, "post") ELSE Leaves(w, "dlq")
       \/ RetryWebhook(w) /\ UNCHANGED tried
    /\ UNCHANGED <<row, attempts, retries, mailer, texter, crashes, effects, forgotten, stranded>>

(* One attempt: posted and answered, posted without an answer, or not posted. *)
Post(w) ==
    /\ hpc[w] = "post"
    /\ \/ effects' = [effects EXCEPT ![w] = @ + 1] /\ (Moves(w, "posted") \/ Moves(w, "error"))
       \/ Moves(w, "error") /\ UNCHANGED effects
    /\ UNCHANGED <<row, attempts, retries, tried, mailer, texter, crashes, forgotten, stranded>>

(* The row is completed; when that fails the attempt is counted twice. *)
CompleteWebhook(w) ==
    /\ hpc[w] = "posted"
    /\ \/ /\ row' = [row EXCEPT ![w] = "completed"]
          /\ attempts' = [attempts EXCEPT ![w] = tried[w] + 1]
          /\ Leaves(w, "acked") /\ UNCHANGED tried
       \/ /\ tried' = [tried EXCEPT ![w] = @ + 1] /\ Moves(w, "error")
          /\ UNCHANGED <<row, attempts>>
    /\ UNCHANGED <<retries, mailer, texter, crashes, effects, forgotten, stranded>>

(* The count of attempts that a failed one leaves in the row. *)
CountedAttempts(w, n) == [attempts EXCEPT ![w] = n]

(* A failed attempt is counted; the last one fails the row, others are followed  *)
(* by a pause and the next.                                                      *)
FailAttempt(w) ==
    /\ hpc[w] = "error"
    /\ LET n == tried[w] + 1
       IN \/ /\ attempts' = CountedAttempts(w, n) /\ tried' = [tried EXCEPT ![w] = n]
             /\ IF n >= MaxPosts
                THEN row' = [row EXCEPT ![w] = "failed"] /\ Leaves(w, "dlq")
                ELSE Moves(w, "post") /\ UNCHANGED row
             /\ UNCHANGED forgotten
          \/ /\ RetryWebhook(w)
             /\ forgotten' = [forgotten EXCEPT ![w] = @ + 1]
             /\ UNCHANGED <<row, attempts, tried>>
    /\ UNCHANGED <<retries, mailer, texter, crashes, effects, stranded>>

TimerFires(w) ==
    /\ at[w] = "timer"
    /\ at' = [at EXCEPT ![w] = "queue"] /\ retries' = [retries EXCEPT ![w] = @ + 1]
    /\ UNCHANGED <<row, attempts, hpc, tried, mailer, texter, crashes, effects, forgotten, stranded>>

-----------------------------------------------------------------------------
(* How many mails and texts a notice is, with the providers there are. *)
One(provider) == IF provider = "sends" THEN 1 ELSE 0

(* The audit row. *)
storeAuditEntry(a) ==
    /\ hpc[a] = "act"
    /\ effects' = [effects EXCEPT ![a] = @ + 1]
    /\ Moves(a, "ack")
    /\ UNCHANGED <<row, attempts, retries, tried, mailer, texter, crashes, forgotten, stranded>>

(* processNotification sends the mail, then the text. *)
processNotification(n) ==
    /\ \/ /\ hpc[n] = "act" /\ mailer # "refuses" /\ Moves(n, "text")
          /\ effects' = [effects EXCEPT ![n] = @ + One(mailer)]
       \/ /\ hpc[n] = "text" /\ texter # "refuses" /\ Moves(n, "ack")
          /\ effects' = [effects EXCEPT ![n] = @ + One(texter)]
    /\ UNCHANGED <<row, attempts, retries, tried, mailer, texter, crashes, forgotten, stranded>>

AckMessage(m) ==
    /\ hpc[m] = "ack" /\ Leaves(m, "acked")
    /\ UNCHANGED <<row, attempts, retries, tried, mailer, texter, crashes, effects, forgotten, stranded>>

(* What the handler of m has done that it does not remember when it ends here. *)
Undone(m) ==
    CASE hpc[m] = "text"                 -> One(mailer)
      [] hpc[m] = "ack" /\ m \in Notice  -> One(mailer) + One(texter)
      [] hpc[m] \in {"posted", "error"}  -> 1
      [] hpc[m] = "ack" /\ m \notin Notice -> 1
      [] OTHER                           -> 0

(* Mutation: after the last retry the message is acknowledged. *)
AcksAtLast(n) == IF retries[n] >= MaxRetries THEN Leaves(n, "acked") ELSE Leaves(n, "queue")

(* nack discards the message after its last retry, for the queue's arguments name *)
(* its dead-letter exchange by a key no broker knows.                             *)
RetryNotice(n) == IF retries[n] >= MaxRetries THEN Leaves(n, "dropped") ELSE Leaves(n, "queue")

(* A send throws, perhaps after the provider took it; both are sent again. *)
SendFails(n) ==
    /\ \/ hpc[n] = "act" /\ mailer # "logs"
       \/ hpc[n] = "text" /\ texter # "logs"
    /\ \E taken \in {0, One(IF hpc[n] = "act" THEN mailer ELSE texter)} :
          /\ effects' = [effects EXCEPT ![n] = @ + taken]
          /\ forgotten' = [forgotten EXCEPT ![n] = @ + taken + Undone(n)]
    /\ RetryNotice(n)
    /\ retries' = [retries EXCEPT ![n] = IF @ < MaxRetries THEN @ + 1 ELSE @]
    /\ UNCHANGED <<row, attempts, tried, mailer, texter, crashes, stranded>>

AuditFails(a) ==
    /\ hpc[a] = "act"
    /\ tried' = [tried EXCEPT ![a] = @ + 1]
    /\ IF tried[a] < MaxRetries THEN UNCHANGED <<at, hpc>> ELSE Leaves(a, "dropped")
    /\ UNCHANGED <<row, attempts, retries, mailer, texter, crashes, effects, forgotten, stranded>>

(* The process of a handler, a publisher or a timer dies.  The broker delivers   *)
(* again what was not acknowledged; a timer is gone with the process.            *)
HandlerDies(m) ==
    /\ crashes < MaxCrashes /\ crashes' = crashes + 1
    /\ at[m] \in {"held", "timer"} \/ hpc[m] = "publish"
    /\ hpc' = [hpc EXCEPT ![m] = "idle"]
    /\ at' = [at EXCEPT ![m] = CASE @ = "held" -> "queue" [] @ = "timer" -> "dropped" [] OTHER -> @]
    /\ stranded' = IF at[m] = "held" THEN stranded ELSE stranded \cup {m}
    /\ forgotten' = [forgotten EXCEPT ![m] = @ + Undone(m)]
    /\ UNCHANGED <<row, attempts, retries, tried, mailer, texter, effects>>

QueuesNext ==
    \/ \E w \in Webhook :
          \/ enqueueWebhook(w) \/ PublishWebhook(w) \/ FindWebhook(w) \/ Post(w)
          \/ CompleteWebhook(w) \/ FailAttempt(w) \/ TimerFires(w)
    \/ \E n \in Notice : PublishNotice(n) \/ processNotification(n) \/ SendFails(n)
    \/ \E a \in Audit : logAudit(a) \/ storeAuditEntry(a) \/ AuditFails(a)
    \/ \E m \in Message : TakeMessage(m) \/ AckMessage(m) \/ HandlerDies(m)

QueuesSpec == QueuesInit /\ [][QueuesNext]_queueVars

-----------------------------------------------------------------------------
(* A pending webhook has a message that will deliver it, or one that used up its  *)
(* retries on the way to the dead-letter queue; the exceptions are a publication  *)
(* that failed and a process that died between acknowledging and sending again.   *)
(* An endpoint is posted to at most MaxPosts times over all redeliveries of    *)
(* the message, and a mail, a text or an audit row comes of a message once; only  *)
(* what a crash, a failed write or a text that failed after its mail made the     *)
(* service forget comes on top.  An acknowledged notice went out by every         *)
(* provider that does not merely log.                                             *)
MessagesAccounted ==
    /\ QueuesTypeOK
    /\ \A w \in Webhook : row[w] = "pending" =>
          \/ at[w] \in {"queue", "held", "timer"} \/ hpc[w] = "publish"
          \/ w \in stranded
          \/ at[w] = "dlq" /\ (retries[w] = MaxRetries \/ w \notin Enveloped)
    /\ \A m \in Webhook \cup Audit : effects[m] <= (IF m \in Webhook THEN MaxPosts ELSE 1) + forgotten[m]
    /\ \A n \in Notice :
          /\ effects[n] <= One(mailer) + One(texter) + forgotten[n]
          /\ at[n] = "acked" => "refuses" \notin {mailer, texter} /\ effects[n] >= One(mailer) + One(texter)

(* index.ts starts the "outbound webhook consumer (WEBHOOKS -> deliver ...)": a  *)
(* webhook is not given up before it was attempted.                              *)
AttemptedBeforeGivenUp ==
    \A w \in Webhook : at[w] = "dlq" => attempts[w] > 0 \/ retries[w] = MaxRetries
=============================================================================
