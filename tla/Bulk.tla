-------------------------------- MODULE Bulk --------------------------------
(***************************************************************************)
(* services/enterpriseService.ts: a file of transfers is processed row by  *)
(* row in chunks.  A row is keyed by a hash of its fields: a row whose key *)
(* has a Transaction is skipped, any other one creates it, and the unique  *)
(* key decides between two jobs that both found none.  The transaction     *)
(* around a chunk runs on another connection than its rows, so an error    *)
(* ends the job and takes nothing back.                                    *)
(***************************************************************************)
EXTENDS Naturals, Sequences, FiniteSets, Functions

CONSTANTS
    Upload,        \* requests with a file
    File,          \* the rows of each file: a sequence of keys, "bad" for a row that does not validate
    ChunkSize,
    MaxRowErrors   \* bound: database calls that fail

TransferKeys == (UNION {{File[u][i] : i \in DOMAIN File[u]} : u \in Upload}) \ {"bad"}

ASSUME BulkAssumption ==
    /\ ChunkSize \in Nat \ {0} /\ MaxRowErrors \in Nat /\ IsFiniteSet(Upload)
    /\ \A u \in Upload : File[u] \in Seq(TransferKeys \cup {"bad"}) /\ File[u] # <<>>

VARIABLES
    upc,           \* "start", "find", "create", "count", "close", "done" or "thrown"
    job,           \* BulkTransferJob of each upload: status, processedRows, successCount, failureCount, failureReport
    results,       \* allResults of each upload with those of the chunk in work
    created,       \* Transaction rows, per key
    rowErrors,
    blurred        \* uploads with a row that was created and answered with an error

bulkVars == <<upc, job, results, created, rowErrors, blurred>>

NoJob == [status |-> "none", processedRows |-> 0, successCount |-> 0, failureCount |-> 0, skipped |-> 0]

BulkTypeOK ==
    /\ upc \in [Upload -> {"start", "find", "create", "count", "close", "done", "thrown"}]
    /\ \A u \in Upload :
          /\ job[u].status \in {"none", "processing", "completed"} /\ job[u].processedRows <= Len(results[u])
          /\ upc[u] \in {"find", "create"} => Len(results[u]) < Len(File[u])
    /\ rowErrors \in 0 .. MaxRowErrors

BulkInit ==
    /\ upc = [u \in Upload |-> "start"] /\ job = [u \in Upload |-> NoJob]
    /\ results = [u \in Upload |-> <<>>] /\ created = [k \in TransferKeys |-> 0]
    /\ rowErrors = 0 /\ blurred = {}

RowFails == rowErrors < MaxRowErrors /\ rowErrors' = rowErrors + 1
RowKey(u) == File[u][Len(results[u]) + 1]
Kinds(u, kind) == Cardinality({i \in DOMAIN results[u] : results[u][i] = kind})

(* A row's result is pushed; the chunk may be full with it, or the file at its end. *)
Push(u, kind) ==
    /\ results' = [results EXCEPT ![u] = Append(@, kind)]
    /\ LET n == Len(results[u]) + 1 IN
       upc' = [upc EXCEPT ![u] = IF n % ChunkSize = 0 \/ n = Len(File[u]) THEN "count" ELSE "find"]

(* An error that nothing catches ends the request: the job stays as it is. *)
ThrowOut(u) == RowFails /\ upc' = [upc EXCEPT ![u] = "thrown"]

-----------------------------------------------------------------------------
(* Size, headers and number of rows are checked before. *)
CreateJob(u) ==
    /\ upc[u] = "start"
    /\ \/ /\ upc' = [upc EXCEPT ![u] = "find"] /\ job' = [job EXCEPT ![u].status = "processing"]
          /\ UNCHANGED rowErrors
       \/ ThrowOut(u) /\ UNCHANGED job
    /\ UNCHANGED <<results, created, blurred>>

(* A row that does not validate fails; another one is looked up by its key. *)
FindTransfer(u) ==
    /\ upc[u] = "find"
    /\ \/ RowKey(u) = "bad" /\ Push(u, "failure") /\ UNCHANGED rowErrors
       \/ /\ RowKey(u) # "bad" /\ UNCHANGED rowErrors
          /\ IF created[RowKey(u)] > 0 THEN Push(u, "skipped")
             ELSE upc' = [upc EXCEPT ![u] = "create"] /\ UNCHANGED results
       \/ RowKey(u) # "bad" /\ ThrowOut(u) /\ UNCHANGED results
    /\ UNCHANGED <<job, created, blurred>>

(* Mutation: the key is not unique. *)
AnyKey(u) == TRUE

FreeKey(u) == created[RowKey(u)] = 0

(* The sender is looked up and the row created: a key taken meanwhile is a skipped *)
(* row, unless the second lookup throws; any other error fails the row, also when  *)
(* it was created.                                                                 *)
processRow(u) ==
    /\ upc[u] = "create"
    /\ \/ /\ FreeKey(u) /\ created' = [created EXCEPT ![RowKey(u)] = @ + 1]
          /\ \/ Push(u, "success") /\ UNCHANGED <<rowErrors, blurred>>
             \/ RowFails /\ Push(u, "failure") /\ blurred' = blurred \cup {u}
       \/ /\ ~FreeKey(u) /\ UNCHANGED <<created, blurred>>
          /\ \/ Push(u, "skipped") /\ UNCHANGED rowErrors
             \/ ThrowOut(u) /\ UNCHANGED results
       \/ RowFails /\ Push(u, "failure") /\ UNCHANGED <<created, blurred>>
    /\ UNCHANGED job

(* Mutation: skipped rows count as successes. *)
CountsSkipped(u) == [job[u] EXCEPT !.processedRows = Len(results[u]), !.failureCount = Kinds(u, "failure"),
                                   !.successCount = Kinds(u, "success") + Kinds(u, "skipped")]

Counts(u) == [job[u] EXCEPT !.processedRows = Len(results[u]), !.failureCount = Kinds(u, "failure"),
                            !.successCount = Kinds(u, "success")]

(* The counts after each chunk. *)
UpdateCounts(u) ==
    /\ upc[u] = "count"
    /\ \/ /\ job' = [job EXCEPT ![u] = Counts(u)]
          /\ upc' = [upc EXCEPT ![u] = IF Len(results[u]) = Len(File[u]) THEN "close" ELSE "find"]
          /\ UNCHANGED rowErrors
       \/ ThrowOut(u) /\ job' \in {job, [job EXCEPT ![u] = Counts(u)]}
    /\ UNCHANGED <<results, created, blurred>>

(* The job is completed, with a report of the rows that were no success. *)
CompleteJob(u) ==
    /\ upc[u] = "close"
    /\ LET closed == [job EXCEPT ![u] = [@ EXCEPT !.status = "completed", !.skipped = Kinds(u, "skipped")]] IN
       \/ job' = closed /\ upc' = [upc EXCEPT ![u] = "done"] /\ UNCHANGED rowErrors
       \/ ThrowOut(u) /\ job' \in {job, closed}
    /\ UNCHANGED <<results, created, blurred>>

BulkNext ==
    \E u \in Upload : CreateJob(u) \/ FindTransfer(u) \/ processRow(u) \/ UpdateCounts(u) \/ CompleteJob(u)

BulkSpec == BulkInit /\ [][BulkNext]_bulkVars

-----------------------------------------------------------------------------
(* Over all files that are processed at once a key is transferred at most once,   *)
(* and the transfers are the successes that the jobs report, but for rows created *)
(* and answered with an error.  A completed job accounts for every row of its     *)
(* file, and only an error leaves one in processing.                              *)
BulkAccounted ==
    /\ BulkTypeOK
    /\ \A k \in TransferKeys : created[k] <= 1
    /\ \A u \in Upload :
          /\ job[u].status = "completed" =>
                job[u].successCount + job[u].failureCount + job[u].skipped = Len(File[u])
          /\ job[u].status = "processing" => upc[u] # "done"
    /\ (blurred = {} /\ \A u \in Upload : upc[u] \in {"start", "done"}) =>
          SumFunction([u \in Upload |-> job[u].successCount]) = SumFunction(created)
=============================================================================
