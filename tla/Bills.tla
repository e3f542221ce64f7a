------------------------------- MODULE Bills -------------------------------
(***************************************************************************)
(* services/bills/billsService.ts: a bill payment is checked against the   *)
(* payer's withdrawal limit, recorded, handed to the partner, reconciled   *)
(* with the event in the partner's answer or with its webhooks, and may be *)
(* refunded.  No status is guarded by the one before it, so whatever comes *)
(* late is written.  The bills are paid by one user, or with the API key   *)
(* of the organisation the user is in, and have amount one; a bill refused *)
(* for its product, its amount or a paused currency leaves nothing behind. *)
(* The partner is external: BillsPartnerAdapter.                           *)
(***************************************************************************)
EXTENDS Naturals, FiniteSets

CONSTANTS
    Bill,          \* payBill requests, each with the transaction it creates
    Refund,        \* refundBillPayment requests
    Limit,         \* the cap of checkWithdrawalLimits, in bills
    MaxEvents      \* bound: webhooks of the partner

ASSUME BillsAssumption == Limit \in Nat /\ MaxEvents \in Nat

VARIABLES
    ofUser,     \* bills paid with a user's key: only their rows say whose they are
    billStatus, \* Transaction.status of each bill, "none" before there is a row
    reference,  \* bills that have a provider reference
    bpc,        \* where the request of each bill is
    rpc, bill,  \* where each refund request is, and the bill it is for
    paid,       \* bills that the partner took
    refunded,   \* refunds that the partner granted, per bill
    events,     \* webhooks so far
    \* what happened, for the properties
    completions,  \* times each bill was written completed
    unsettled,    \* refunds granted whose row was not written, per bill
    racing,       \* refunds that found a bill another refund was working on, per bill
    crossed,      \* two requests of the user were between the check and the row at once
    revived       \* bills that counted against the limit again after they had not

rowsB    == <<ofUser, billStatus, reference>>
partnerB == <<paid, refunded>>
pastB    == <<completions, unsettled, racing, crossed, revived>>
billsVars == <<rowsB, bpc, rpc, bill, partnerB, events, pastB>>

Counting == {"pending", "processing", "completed"}

BillsTypeOK ==
    /\ billStatus \in [Bill -> Counting \cup {"none", "failed", "refunded"}]
    /\ ofUser \subseteq Bill /\ reference \subseteq Bill /\ paid \subseteq Bill /\ revived \subseteq Bill
    /\ bpc \in [Bill -> {"new", "checked", "created", "answered", "refused", "dispatched", "done"}]
    /\ rpc \in [Refund -> {"idle", "found", "granted", "done"}] /\ bill \in [Refund -> Bill]
    /\ \A b \in Bill : billStatus[b] = "none" <=> bpc[b] \in {"new", "checked"}

BillsInit ==
    /\ ofUser \in SUBSET Bill
    /\ billStatus = [b \in Bill |-> "none"] /\ reference = {}
    /\ bpc = [b \in Bill |-> "new"]
    /\ rpc = [r \in Refund |-> "idle"] /\ bill \in [Refund -> Bill]
    /\ paid = {} /\ refunded = [b \in Bill |-> 0] /\ events = 0
    /\ completions = [b \in Bill |-> 0] /\ unsettled = [b \in Bill |-> 0]
    /\ racing = [b \in Bill |-> 0] /\ crossed = FALSE /\ revived = {}

(* A write of the status; completions and revived only remember it. *)
Write(b, s) ==
    /\ UNCHANGED ofUser
    /\ billStatus' = [billStatus EXCEPT ![b] = s]
    /\ completions' = IF s = "completed" THEN [completions EXCEPT ![b] = @ + 1] ELSE completions
    /\ revived' = IF s \in Counting /\ billStatus[b] \in {"failed", "refunded"}
                  THEN revived \cup {b} ELSE revived

Then(b, l) == bpc' = [bpc EXCEPT ![b] = l]

-----------------------------------------------------------------------------
(* What the aggregates of checkWithdrawalLimits sum up, for the user and for the  *)
(* organisation alike: buildActorWhere asks for the userId, or for an             *)
(* organizationId that payBill never writes or a user of the organisation.  A     *)
(* bill of the organisation's key has neither and is never counted.               *)
Counted == {b \in ofUser : billStatus[b] \in Counting}

(* Mutation: only what is completed counts. *)
CountsCompleted == Cardinality({b \in ofUser : billStatus[b] = "completed"}) + 1 <= Limit

WithinLimit == Cardinality(Counted) + 1 <= Limit

checkWithdrawalLimits(b) ==
    /\ bpc[b] = "new" /\ WithinLimit
    /\ Then(b, "checked")
    /\ crossed' = (crossed \/ (b \in ofUser /\ \E c \in ofUser : bpc[c] = "checked"))
    /\ UNCHANGED <<rowsB, rpc, bill, partnerB, events, completions, unsettled, racing, revived>>

CreateBill(b) ==
    /\ bpc[b] = "checked"
    /\ Write(b, "pending") /\ Then(b, "created")
    /\ UNCHANGED <<reference, rpc, bill, partnerB, events, unsettled, racing, crossed>>

(* provider.payBill: answered, or failed, whether the partner took it or not. *)
payBill(b) ==
    /\ bpc[b] = "created"
    /\ \/ paid' = paid \cup {b} /\ (Then(b, "answered") \/ Then(b, "refused"))
       \/ Then(b, "refused") /\ UNCHANGED paid
    /\ UNCHANGED <<rowsB, rpc, bill, refunded, events, pastB>>

(* The answer is recorded over whatever a webhook has written meanwhile. *)
RecordDispatch(b) ==
    /\ bpc[b] = "answered"
    /\ Write(b, "processing") /\ reference' = reference \cup {b} /\ Then(b, "dispatched")
    /\ UNCHANGED <<rpc, bill, partnerB, events, unsettled, racing, crossed>>

(* The event that came with the answer: reconciled, or an error before or after   *)
(* the write (an event that cannot be enqueued), which the catch turns to failed. *)
ReconcileAnswer(b) ==
    /\ bpc[b] = "dispatched"
    /\ \/ Write(b, "completed") /\ (Then(b, "done") \/ Then(b, "refused"))
       \/ Then(b, "done") /\ UNCHANGED <<ofUser, billStatus, completions, revived>>
       \/ Then(b, "refused") /\ UNCHANGED <<ofUser, billStatus, completions, revived>>
    /\ UNCHANGED <<reference, rpc, bill, partnerB, events, unsettled, racing, crossed>>

(* The catch of payBill. *)
FailBill(b) ==
    /\ bpc[b] = "refused"
    /\ Write(b, "failed") /\ Then(b, "done")
    /\ UNCHANGED <<reference, rpc, bill, partnerB, events, unsettled, racing, crossed>>

(* handleBillsWebhook and reconcileBillsWebhook: what the partner reports is true *)
(* of it, but may come late, twice or out of order.                               *)
Reported(b, s) ==
    CASE s = "completed" -> b \in paid
      [] s = "failed"    -> b \notin paid /\ bpc[b] \in {"refused", "done"}
      [] s = "refunded"  -> refunded[b] > 0

reconcileBillsWebhook(b, s) ==
    /\ events < MaxEvents /\ billStatus[b] # "none" /\ Reported(b, s)
    /\ Write(b, s) /\ reference' = reference \cup {b}
    /\ events' = events + 1
    /\ UNCHANGED <<bpc, rpc, bill, partnerB, unsettled, racing, crossed>>

-----------------------------------------------------------------------------
(* Mutation: a bill is refunded whatever its status. *)
RefundsAny(b) == b \in reference

(* refundBillPayment asks for a completed bill with a reference, ... *)
Refundable(b) == billStatus[b] = "completed" /\ b \in reference

FindBill(r) ==
    /\ rpc[r] = "idle" /\ Refundable(bill[r])
    /\ rpc' = [rpc EXCEPT ![r] = "found"]
    /\ racing' = [racing EXCEPT ![bill[r]] =
                      IF \E q \in Refund : bill[q] = bill[r] /\ rpc[q] \in {"found", "granted"} THEN @ + 1 ELSE @]
    /\ UNCHANGED <<rowsB, bpc, bill, partnerB, events, completions, unsettled, crossed, revived>>

(* ... asks the partner, ... *)
refundBill(r) ==
    /\ rpc[r] = "found"
    /\ \/ /\ refunded' = [refunded EXCEPT ![bill[r]] = @ + 1]
          /\ rpc' = [rpc EXCEPT ![r] = "granted"]
       \/ rpc' = [rpc EXCEPT ![r] = "done"] /\ UNCHANGED refunded
    /\ UNCHANGED <<rowsB, bpc, bill, paid, events, pastB>>

(* ... and reconciles its answer, or dies or fails before the row is written. *)
ReconcileRefund(r) ==
    /\ rpc[r] = "granted"
    /\ \/ Write(bill[r], "refunded") /\ UNCHANGED unsettled
       \/ /\ unsettled' = [unsettled EXCEPT ![bill[r]] = @ + 1]
          /\ UNCHANGED <<ofUser, billStatus, completions, revived>>
    /\ rpc' = [rpc EXCEPT ![r] = "done"]
    /\ UNCHANGED <<reference, bpc, bill, partnerB, events, racing, crossed>>

BillsNext ==
    \/ \E b \in Bill :
          \/ checkWithdrawalLimits(b) \/ CreateBill(b) \/ payBill(b) \/ RecordDispatch(b)
          \/ ReconcileAnswer(b) \/ FailBill(b)
          \/ \E s \in {"completed", "failed", "refunded"} : reconcileBillsWebhook(b, s)
    \/ \E r \in Refund : FindBill(r) \/ refundBill(r) \/ ReconcileRefund(r)

BillsSpec == BillsInit /\ [][BillsNext]_billsVars

-----------------------------------------------------------------------------
(* The partner grants at most one refund for every time a bill became completed; *)
(* on top come only refunds that raced another, or whose row was never written.  *)
RefundsBacked ==
    \A b \in Bill : refunded[b] <= completions[b] + unsettled[b] + racing[b]

(* The bills paid with a user's key stay within the limit, as long as no two of  *)
(* them were checked against the same sum; bills that were failed or refunded    *)
(* and that a late write made count again come on top.  Bills paid with an       *)
(* organisation's key take no place, and nothing holds them within the limit.    *)
LimitHeld == ~crossed => Cardinality(Counted \ revived) <= Limit

(* Refunds are backed by payments and a user's bills stay within the limit, in    *)
(* rows of the schema's types.                                                    *)
BillsSound == BillsTypeOK /\ RefundsBacked /\ LimitHeld
=============================================================================
