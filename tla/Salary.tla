------------------------------- MODULE Salary -------------------------------
(***************************************************************************)
(* services/salary/salaryService.ts: a disbursement request creates a      *)
(* batch with its items, once per idempotency key, and processSalaryBatch  *)
(* runs in the background: it takes a pending or failed batch, pays the    *)
(* items that are not completed, at once, and writes each result; then the *)
(* items whose payment or write threw, and the batch.  What throws out of  *)
(* it is retried by retryWithBackoff.  All requests carry one key.         *)
(* createTransfer may answer or throw whatever it answers or throws        *)
(* elsewhere; processSalaryBatch hands it no signing key, and without one  *)
(* it pays nothing and answers pending.                                    *)
(***************************************************************************)
EXTENDS Naturals

CONSTANTS
    Disburse,      \* POST /salary/disburse requests
    Item,          \* items of the batch
    MaxTries,      \* attempts of retryWithBackoff
    MaxErrors      \* bound: database calls that fail

ASSUME SalaryAssumption == MaxTries \in Nat \ {0} /\ MaxErrors \in Nat

VARIABLES
    spc, tries,    \* of each request and its background work
    batch,         \* SalaryBatch.status of the batch each request made, "none" without one
    item,          \* SalaryItem.status
    outcome,       \* what the run knows of each item: "skip", "todo", the answer, or "rejected"
    transfers,     \* payments that went out, per request and item
    errors,
    misread        \* payments answered with something else, or whose answer was lost, per item

salaryVars == <<spc, tries, batch, item, outcome, transfers, errors, misread>>

Final == {"completed", "partially_completed", "failed"}

(* TransferResult.status *)
Answers == {"pending", "completed", "failed"}

SalaryTypeOK ==
    /\ spc \in [Disburse -> {"new", "looked", "process", "take", "pay", "write", "close", "answered", "done"}]
    /\ tries \in [Disburse -> 0 .. MaxTries]
    /\ batch \in [Disburse -> Final \cup {"none", "pending", "processing"}]
    /\ item \in [Disburse -> [Item -> Answers]]
    /\ outcome \in [Disburse -> [Item -> Answers \cup {"skip", "todo", "rejected"}]]
    /\ errors \in 0 .. MaxErrors

SalaryInit ==
    /\ spc = [d \in Disburse |-> "new"] /\ tries = [d \in Disburse |-> 0]
    /\ batch = [d \in Disburse |-> "none"]
    /\ item = [d \in Disburse |-> [i \in Item |-> "pending"]]
    /\ outcome = [d \in Disburse |-> [i \in Item |-> "todo"]]
    /\ transfers = [d \in Disburse |-> [i \in Item |-> 0]]
    /\ errors = 0 /\ misread = [i \in Item |-> 0]

Stage(d, from, to) == spc[d] = from /\ spc' = [spc EXCEPT ![d] = to]
Errs == errors < MaxErrors /\ errors' = errors + 1

(* An error out of processSalaryBatch: another try, or the end. *)
Throws(d) ==
    /\ Errs /\ tries' = [tries EXCEPT ![d] = @ + 1]
    /\ spc' = [spc EXCEPT ![d] = IF tries[d] + 1 < MaxTries THEN "process" ELSE "done"]

-----------------------------------------------------------------------------
(* createSalaryBatch looks for its key, ... *)
FindBatch(d) ==
    /\ Stage(d, "new", IF \E e \in Disburse : batch[e] # "none" THEN "answered" ELSE "looked")
    /\ UNCHANGED <<tries, batch, item, outcome, transfers, errors, misread>>

(* Mutation: the key is not unique. *)
NotUnique == TRUE

KeyFree == \A e \in Disburse : batch[e] = "none"

(* ... creates the batch, which the unique key refuses to a second request, and *)
(* leaves it to the background.                                                 *)
createSalaryBatch(d) ==
    /\ IF KeyFree THEN Stage(d, "looked", "process") /\ batch' = [batch EXCEPT ![d] = "pending"]
                  ELSE Stage(d, "looked", "answered") /\ UNCHANGED batch
    /\ UNCHANGED <<tries, item, outcome, transfers, errors, misread>>

(* processSalaryBatch reads the batch and its items and goes on with an open one. *)
processSalaryBatch(d) ==
    /\ spc[d] = "process"
    /\ \/ /\ batch[d] \in {"pending", "failed"} /\ Stage(d, "process", "take")
          /\ outcome' = [outcome EXCEPT ![d] = [i \in Item |-> IF item[d][i] = "completed" THEN "skip" ELSE "todo"]]
          /\ UNCHANGED <<tries, errors>>
       \/ /\ batch[d] \notin {"pending", "failed"} /\ Stage(d, "process", "done")
          /\ UNCHANGED <<outcome, tries, errors>>
       \/ Throws(d) /\ UNCHANGED outcome
    /\ UNCHANGED <<batch, item, transfers, misread>>

(* The batch becomes processing; the write may be done and still throw. *)
TakeBatch(d) ==
    /\ spc[d] = "take"
    /\ \/ batch' = [batch EXCEPT ![d] = "processing"] /\ Stage(d, "take", "pay") /\ UNCHANGED <<tries, errors>>
       \/ Throws(d) /\ batch' \in {batch, [batch EXCEPT ![d] = "processing"]}
    /\ UNCHANGED <<item, outcome, transfers, misread>>

(* createTransfer: completed is answered only for a payment that was submitted, and *)
(* pending only where none was tried; failed is also answered for one that was      *)
(* submitted, when the submission timed out or its row could not be written, and    *)
(* an error out of it says as little.                                               *)
createTransfer(d, i) ==
    /\ spc[d] = "pay" /\ outcome[d][i] = "todo"
    /\ \E o \in Answers \cup {"rejected"}, pays \in BOOLEAN :
          /\ o = "completed" => pays
          /\ o = "pending" => ~pays
          /\ outcome' = [outcome EXCEPT ![d][i] = o]
          /\ transfers' = IF pays THEN [transfers EXCEPT ![d][i] = @ + 1] ELSE transfers
          /\ misread' = IF pays /\ o # "completed" THEN [misread EXCEPT ![i] = @ + 1] ELSE misread
    /\ UNCHANGED <<spc, tries, batch, item, errors>>

(* salaryItem.update with the answer; an error, done or not, makes the item a rejected one. *)
WriteItem(d, i) ==
    LET written == [item EXCEPT ![d][i] = outcome[d][i]] IN
    /\ spc[d] = "pay" /\ outcome[d][i] \in Answers
    /\ \/ item' = written /\ UNCHANGED <<outcome, errors, misread>>
       \/ /\ Errs /\ item' \in {item, written}
          /\ outcome' = [outcome EXCEPT ![d][i] = "rejected"]
          /\ misread' = IF outcome[d][i] = "completed" THEN [misread EXCEPT ![i] = @ + 1] ELSE misread
    /\ UNCHANGED <<spc, tries, batch, transfers>>

Corrected(d) == [item EXCEPT ![d] = [i \in Item |-> IF outcome[d][i] = "rejected" THEN "failed" ELSE @[i]]]

(* When all have ended, the rejected ones are written failed in one transaction. *)
FailItems(d) ==
    /\ spc[d] = "pay" /\ \A i \in Item : outcome[d][i] \in {"skip", "rejected", item[d][i]}
    /\ \/ item' = Corrected(d) /\ Stage(d, "pay", "close") /\ UNCHANGED <<tries, errors>>
       \/ (\E i \in Item : outcome[d][i] = "rejected") /\ Throws(d) /\ item' \in {item, Corrected(d)}
    /\ UNCHANGED <<batch, outcome, transfers, misread>>

(* Mutation: one success is enough for a completed batch. *)
CountsFailures(d) ==
    IF \E i \in Item : outcome[d][i] \in {"completed", "skip"} THEN "completed" ELSE "failed"

finalStatus(d) ==
    LET done == {i \in Item : outcome[d][i] \in {"completed", "skip"}} IN
    IF done = Item THEN "completed" ELSE IF done # {} THEN "partially_completed" ELSE "failed"

CloseBatch(d) ==
    /\ spc[d] = "close"
    /\ \/ batch' = [batch EXCEPT ![d] = finalStatus(d)] /\ Stage(d, "close", "done") /\ UNCHANGED <<tries, errors>>
       \/ Throws(d) /\ batch' \in {batch, [batch EXCEPT ![d] = finalStatus(d)]}
    /\ UNCHANGED <<item, outcome, transfers, misread>>

SalaryNext ==
    \E d \in Disburse :
        \/ FindBatch(d) \/ createSalaryBatch(d) \/ processSalaryBatch(d) \/ TakeBatch(d)
        \/ FailItems(d) \/ CloseBatch(d)
        \/ \E i \in Item : createTransfer(d, i) \/ WriteItem(d, i)

SalarySpec == SalaryInit /\ [][SalaryNext]_salaryVars

-----------------------------------------------------------------------------
(* Over all requests with one key and all retries an item is paid by one request, *)
(* once, and again only after a payment that createTransfer did not answer with   *)
(* completed, or whose answer was lost in an error.  An item that says completed  *)
(* was paid, a closed batch says what its items say, and a batch that is left in  *)
(* processing lost a write.                                                       *)
SalaryAccounted ==
    /\ SalaryTypeOK
    /\ \A d, e \in Disburse, i \in Item : transfers[d][i] > 0 /\ transfers[e][i] > 0 => d = e
    /\ \A d \in Disburse, i \in Item : /\ transfers[d][i] <= 1 + misread[i]
                                       /\ item[d][i] = "completed" => transfers[d][i] > 0
    /\ \A d \in Disburse : spc[d] = "done" =>
          LET done == {i \in Item : item[d][i] = "completed"} IN
          CASE batch[d] = "completed"           -> done = Item
            [] batch[d] = "partially_completed" -> done \notin {{}, Item}
            [] batch[d] = "failed"              -> done = {}
            [] OTHER                            -> errors > 0
=============================================================================
