---------------------------- MODULE IdGenerator ----------------------------
(***************************************************************************)
(* utils/idGenerator.ts in one process: the UUIDv7 primary keys, reduced to  *)
(* the millisecond and the counter that order them.  The random bits behind  *)
(* the two keep ids apart that agree in both, and order nothing.             *)
(***************************************************************************)
EXTENDS Integers, Sequences

CONSTANTS
    SeqMax,     \* SEQ_MAX, the last value of the counter
    MaxMs,      \* bound: the milliseconds the clock shows
    MaxIds,     \* bound: ids
    MaxSteps    \* bound: times that the clock is set back

ASSUME IdGeneratorAssumption == SeqMax \in Nat /\ MaxMs \in Nat \ {0} /\ MaxIds \in Nat /\ MaxSteps \in Nat

VARIABLES
    now,                 \* Date.now()
    lastMs, seqCounter,
    steps,
    ids,                 \* what was returned: <<millisecond, counter>>
    \* what happened, for the properties
    late                 \* the places in ids of those made with a clock behind lastMs,
                         \* or when the counter was used up

idVars == <<now, lastMs, seqCounter, steps, ids, late>>

IdGeneratorTypeOK ==
    /\ now \in 1..MaxMs /\ lastMs \in 0..MaxMs /\ seqCounter \in 0..SeqMax
    /\ steps \in 0..MaxSteps
    /\ ids \in Seq((1..MaxMs) \X (0..SeqMax)) /\ late \subseteq DOMAIN ids

IdGeneratorInit ==
    /\ now = 1 /\ lastMs = 0 /\ seqCounter = 0 /\ steps = 0
    /\ ids = <<>> /\ late = {}

(* The clock goes on, or is set back. *)
MsPasses ==
    /\ \/ now < MaxMs /\ now' = now + 1 /\ UNCHANGED steps
       \/ steps < MaxSteps /\ steps' = steps + 1 /\ now' \in 1..(now - 1)
    /\ UNCHANGED <<lastMs, seqCounter, ids, late>>

(* Mutation: the counter begins anew in the same millisecond too. *)
NewOrSameMs(ms) == ms >= lastMs

IsNewMs(ms) == ms > lastMs

(* generateId reads the clock once and writes that reading into the id, also when *)
(* it then waits for the clock to pass lastMs because the counter was used up.    *)
generateId ==
    /\ Len(ids) < MaxIds
    /\ \/ /\ IsNewMs(now)
          /\ lastMs' = now /\ seqCounter' \in 0..SeqMax
          /\ UNCHANGED <<now, late>>
       \/ /\ ~IsNewMs(now) /\ seqCounter < SeqMax
          /\ seqCounter' = seqCounter + 1
          /\ late' = IF now < lastMs THEN late \cup {Len(ids) + 1} ELSE late
          /\ UNCHANGED <<now, lastMs>>
       \/ /\ ~IsNewMs(now) /\ seqCounter = SeqMax
          /\ now' \in (lastMs + 1)..MaxMs /\ lastMs' = now'
          /\ seqCounter' \in 0..SeqMax
          /\ late' = late \cup {Len(ids) + 1}
    /\ ids' = Append(ids, <<now, seqCounter'>>)
    /\ UNCHANGED steps

IdGeneratorNext == MsPasses \/ generateId

IdGeneratorSpec == IdGeneratorInit /\ [][IdGeneratorNext]_idVars

-----------------------------------------------------------------------------
(* idGenerator.ts: "IDs are strictly ordered by generation time, even when      *)
(* multiple IDs are created in the same millisecond tick".  Every id is above   *)
(* all before it, whatever the clock did before, except one that is itself made *)
(* while the clock is behind lastMs or after the counter was used up.           *)
IdsOrdered ==
    /\ IdGeneratorTypeOK
    /\ \A j \in DOMAIN ids \ late : \A i \in 1..(j - 1) :
          ids[i][1] < ids[j][1] \/ (ids[i][1] = ids[j][1] /\ ids[i][2] < ids[j][2])
============================================================================
