--------------------------- MODULE PlatformProofs ---------------------------
(***************************************************************************)
(* What every service stands on, for any number of instances, requests,    *)
(* consumers, ids and faults: the circuit breaker, the exclusion of the    *)
(* job lock, the order of primary keys, the life of the process and the    *)
(* cursors of the event listener.                                          *)
(***************************************************************************)
EXTENDS CircuitBreaker, JobLock, IdGenerator, Lifecycle, EventListener, FiniteSetTheorems, TLAPS

(* The counters never run ahead of what was recorded in a row: a circuit that *)
(* is CLOSED has counted no more failures than the last ones that came in a   *)
(* row, a HALF_OPEN one no more successes.                                    *)
CountsInRow ==
    /\ state = "CLOSED" => failures <= bad
    /\ state = "HALF_OPEN" => successes <= good

Inv == TypeOK /\ CountsInRow

(* Counters that stop at a limit keep their order. *)
LEMMA UpToMonotone ==
    ASSUME NEW m \in Nat, NEW n \in Nat, NEW limit \in Nat, m <= n
    PROVE  /\ UpTo(m, limit) \in 0..limit /\ UpTo(n, limit) \in 0..limit
           /\ UpTo(m, limit) <= UpTo(n, limit)
BY DEF UpTo

(* The circuit starts CLOSED with nothing counted. *)
LEMMA InitInv == Init => Inv
BY BreakerAssumption DEF Init, Inv, TypeOK, CountsInRow

(* recordSuccess keeps the invariant and closes only after enough successes. *)
LEMMA SuccessKeepsInv ==
    ASSUME Inv, recordSuccess,
           inflight' \subseteq Caller,
           UNCHANGED <<up, outages>>
    PROVE  /\ Inv'
           /\ state = "HALF_OPEN" /\ state' = "CLOSED" => good' >= SuccessThreshold
           /\ ~(state = "CLOSED" /\ state' = "OPEN")
<1> USE BreakerAssumption DEF Inv, TypeOK, CountsInRow
<1>1. CASE state = "HALF_OPEN"
  BY <1>1 DEF recordSuccess, SuccessesAfter, FailuresAfter, UpTo
<1>2. CASE state = "CLOSED"
  BY <1>2 DEF recordSuccess, UpTo
<1>3. CASE state = "OPEN"
  BY <1>3 DEF recordSuccess, countVars, UpTo
<1>4. QED BY <1>1, <1>2, <1>3

(* recordFailure keeps the invariant and trips only after enough failures. *)
LEMMA FailureKeepsInv ==
    ASSUME Inv, recordFailure,
           inflight' \subseteq Caller,
           UNCHANGED <<up, outages>>
    PROVE  /\ Inv'
           /\ ~(state = "HALF_OPEN" /\ state' = "CLOSED")
           /\ state = "CLOSED" /\ state' = "OPEN" => bad' >= FailureThreshold
<1> USE BreakerAssumption DEF Inv, TypeOK, CountsInRow
<1>1. CASE state = "HALF_OPEN"
  BY <1>1 DEF recordFailure, UpTo
<1>2. CASE state = "CLOSED"
  <2>1. failures' \in 0..FailureThreshold /\ bad' \in 0..FailureThreshold /\ failures' <= bad'
    <3>1. failures' = UpTo(failures + 1, FailureThreshold) /\ bad' = UpTo(bad + 1, FailureThreshold)
      BY DEF recordFailure
    <3>2. failures + 1 \in Nat /\ bad + 1 \in Nat /\ FailureThreshold \in Nat
          /\ failures + 1 <= bad + 1
      BY <1>2
    <3>3. QED BY ONLY <3>1, <3>2, UpToMonotone
  <2>2. state' \in {"CLOSED", "OPEN"} /\ (state' = "OPEN" => failures' >= FailureThreshold)
    BY <1>2 DEF recordFailure
  <2>3. since' \in 0..Cooldown /\ good' \in 0..SuccessThreshold /\ successes' = successes
    BY DEF recordFailure
  <2>4. QED BY <1>2, <2>1, <2>2, <2>3
<1>3. CASE state = "OPEN"
  BY <1>3 DEF recordFailure, UpTo
<1>4. QED BY <1>1, <1>2, <1>3

(* What a step may do to the state: the two action properties, pointwise. *)
Moves ==
    /\ state = "HALF_OPEN" /\ state' = "CLOSED" => good' >= SuccessThreshold
    /\ state = "CLOSED" /\ state' = "OPEN" => bad' >= FailureThreshold

(* Every step of canExecute, the records, the clock and the service keeps the *)
(* invariant and makes only these moves.                                     *)
LEMMA NextKeepsInv == Inv /\ [Next]_vars => Inv' /\ Moves
<1> SUFFICES ASSUME Inv, [Next]_vars PROVE Inv' /\ Moves
  OBVIOUS
<1> USE BreakerAssumption
<1>1. CASE Tick
  BY <1>1 DEF Tick, Inv, TypeOK, CountsInRow, Moves, countVars
<1>2. CASE GoesDown
  <2>1. outages' \in 0..MaxOutages
    BY <1>2 DEF GoesDown, Inv, TypeOK
  <2>2. up' \in BOOLEAN
    BY <1>2 DEF GoesDown
  <2>3. QED BY <1>2, <2>1, <2>2 DEF GoesDown, Inv, TypeOK, CountsInRow, Moves, countVars
<1>3. CASE ComesUp
  BY <1>3 DEF ComesUp, Inv, TypeOK, CountsInRow, Moves, countVars
<1>4. CASE getState
  BY <1>4 DEF getState, SuccessesAfter, Inv, TypeOK, CountsInRow, Moves
<1>5. ASSUME NEW c \in Caller, Admit(c)
      PROVE  Inv' /\ Moves
  <2>1. inflight' \subseteq Caller
    BY <1>5 DEF Admit, Inv, TypeOK
  <2>2. CASE UNCHANGED <<state, countVars>>
    BY <1>5, <2>1, <2>2 DEF Admit, Inv, TypeOK, CountsInRow, Moves, countVars
  <2>3. CASE state = "OPEN" /\ state' = "HALF_OPEN" /\ successes' = SuccessesAfter("HALF_OPEN")
                 /\ UNCHANGED failures
    BY <1>5, <2>1, <2>3 DEF Admit, SuccessesAfter, Inv, TypeOK, CountsInRow, Moves
  <2>4. QED BY <1>5, <2>2, <2>3 DEF Admit
<1>6. ASSUME NEW c \in Caller, Refuse(c)
      PROVE  Inv' /\ Moves
  <2>1. inflight' \subseteq Caller /\ UNCHANGED <<up, outages>>
    BY <1>6 DEF Refuse, Inv, TypeOK
  <2>2. CASE GuardInTry
    BY <1>6, <2>1, <2>2, FailureKeepsInv DEF Refuse, Moves
  <2>3. CASE ~GuardInTry
    BY <1>6, <2>1, <2>3 DEF Refuse, Inv, TypeOK, CountsInRow, Moves, countVars
  <2>4. QED BY <2>2, <2>3
<1>7. ASSUME NEW c \in Caller, Answer(c)
      PROVE  Inv' /\ Moves
  <2>1. inflight' \subseteq Caller /\ UNCHANGED <<up, outages>>
    BY <1>7 DEF Answer, Inv, TypeOK
  <2>2. CASE up
    BY <1>7, <2>1, <2>2, SuccessKeepsInv DEF Answer, Moves
  <2>3. CASE ~up
    BY <1>7, <2>1, <2>3, FailureKeepsInv DEF Answer, Moves
  <2>4. QED BY <2>2, <2>3
<1>8. CASE UNCHANGED vars
  BY <1>8 DEF vars, countVars, Inv, TypeOK, CountsInRow, Moves
<1>9. QED BY <1>1, <1>2, <1>3, <1>4, <1>5, <1>6, <1>7, <1>8 DEF Next

(* The invariant, hence the types, hold in every state. *)
THEOREM CountsBounded == Spec => []Inv
<1>1. QED BY InitInv, NextKeepsInv, PTL DEF Spec

(* Type correctness: the counters stay within the thresholds. *)
THEOREM TypeCorrect == Spec => []TypeOK
<1>1. Inv => TypeOK
  BY DEF Inv
<1>2. QED BY <1>1, CountsBounded, PTL

(* recordSuccess closes the circuit only after SuccessThreshold successes in a *)
(* row, for any overlap of requests.                                           *)
THEOREM ClosesProperly == Spec => ClosesAfterSuccesses
<1>1. Inv /\ [Next]_vars
        => [state = "HALF_OPEN" /\ state' = "CLOSED" => good' >= SuccessThreshold]_vars
  BY NextKeepsInv DEF Moves
<1>2. QED BY <1>1, CountsBounded, PTL DEF Spec, ClosesAfterSuccesses

(* recordFailure opens a closed circuit only after FailureThreshold failures   *)
(* in a row, also when requests of an earlier outage answer late.              *)
THEOREM TripsProperly == Spec => TripsAfterFailures
<1>1. Inv /\ [Next]_vars
        => [state = "CLOSED" /\ state' = "OPEN" => bad' >= FailureThreshold]_vars
  BY NextKeepsInv DEF Moves
<1>2. QED BY <1>1, CountsBounded, PTL DEF Spec, TripsAfterFailures

-----------------------------------------------------------------------------
(* While no work outlived its lock and MongoDB answered, an instance at work   *)
(* inserted the document that is there, which is as old as its work.           *)
WorksUnderLock ==
    overran \/ mongoDown \/
        \A i \in Instance : pc[i] # "idle" => lock = i /\ age = elapsed[i] /\ elapsed[i] < Ttl

LockInv == JobLockTypeOK /\ WorksUnderLock

-----------------------------------------------------------------------------
USE JobLockAssumption DEF JobLockAssumption

LEMMA LockInitInv == JobLockInit => LockInv
  <1> SUFFICES ASSUME JobLockInit PROVE LockInv
    OBVIOUS
  <1>a. overran \in BOOLEAN /\ mongoDown \in BOOLEAN
    BY DEF JobLockInit
  <1>1. JobLockTypeOK
    BY <1>a DEF JobLockInit, JobLockTypeOK
  <1>2. WorksUnderLock
    BY DEF JobLockInit, WorksUnderLock
  <1> QED BY <1>1, <1>2 DEF LockInv

LEMMA AcquireInv == ASSUME LockInv, NEW i \in Instance, acquireJobLock(i) PROVE LockInv'
  BY DEF LockInv, JobLockTypeOK, WorksUnderLock, acquireJobLock, Acquired, JobGoto

LEMMA FailOpenInv == ASSUME LockInv, NEW i \in Instance, FailOpen(i) PROVE LockInv'
  <1>1. JobLockTypeOK'
    BY DEF LockInv, JobLockTypeOK, FailOpen, Mishap, JobGoto
  <1>2. WorksUnderLock'
    BY DEF WorksUnderLock, FailOpen
  <1> QED BY <1>1, <1>2 DEF LockInv

LEMMA EndWorkInv == ASSUME LockInv, NEW i \in Instance, EndWork(i) PROVE LockInv'
  BY DEF LockInv, JobLockTypeOK, WorksUnderLock, EndWork, JobGoto

(* Whoever releases in time removes its own document. *)
LEMMA ReleaseInv == ASSUME LockInv, NEW i \in Instance, releaseJobLock(i) PROVE LockInv'
  <1>a. overran' \in BOOLEAN /\ mongoDown' \in BOOLEAN
    BY DEF LockInv, JobLockTypeOK, releaseJobLock
  <1>b. lock' \in Instance \cup {None} /\ lockFaults' \in 0..MaxLockFaults
    BY DEF LockInv, JobLockTypeOK, releaseJobLock, Mishap
  <1>1. JobLockTypeOK'
    BY <1>a, <1>b DEF LockInv, JobLockTypeOK, releaseJobLock, JobGoto
  <1>2. WorksUnderLock'
    <2> SUFFICES ASSUME ~overran', ~mongoDown', NEW j \in Instance, pc'[j] # "idle"
                 PROVE  FALSE
      BY DEF WorksUnderLock
    <2>1. ~overran /\ ~mongoDown
      BY DEF releaseJobLock
    <2>2. pc[j] # "idle" /\ j # i /\ pc[i] # "idle"
      BY DEF LockInv, JobLockTypeOK, releaseJobLock, JobGoto
    <2> QED BY <2>1, <2>2 DEF LockInv, WorksUnderLock
  <1> QED BY <1>1, <1>2 DEF LockInv

LEMMA InstanceDiesInv == ASSUME LockInv, NEW i \in Instance, InstanceDies(i) PROVE LockInv'
  BY DEF LockInv, JobLockTypeOK, WorksUnderLock, InstanceDies, Mishap, JobGoto

(* The document that expired is of no instance at work. *)
LEMMA ExpireInv == ASSUME LockInv, Expire PROVE LockInv'
  BY DEF LockInv, JobLockTypeOK, WorksUnderLock, Expire, Expired, runVars

LEMMA LockTickInv == ASSUME LockInv, LockTick PROVE LockInv'
  <1> USE DEF LockInv, JobLockTypeOK, LockTick
  <1>1. elapsed' \in [Instance -> 0..MaxRun] /\ age' \in 0..Ttl /\ overran' \in BOOLEAN
    OBVIOUS
  <1>2. CASE overran' \/ mongoDown
    BY <1>1, <1>2 DEF WorksUnderLock
  <1>3. CASE ~overran' /\ ~mongoDown
    <2>a. /\ ~overran
          /\ \A i \in Instance : pc[i] # "idle" => ~(elapsed'[i] >= Ttl)
      BY <1>3
    <2>1. \A i \in Instance : pc[i] # "idle" => elapsed'[i] < Ttl
      BY <1>1, <2>a
    <2>2. \A i \in Instance : pc[i] # "idle" => lock = i /\ age = elapsed[i] /\ elapsed[i] < Ttl
      BY <1>3, <2>a DEF WorksUnderLock
    <2>3. \A i \in Instance : pc[i] # "idle" => lock = i /\ age' = elapsed'[i]
      BY <2>2
    <2> QED BY <2>1, <2>3 DEF WorksUnderLock
  <1> QED BY <1>1, <1>2, <1>3

LEMMA LockNextInv == LockInv /\ [JobLockNext]_jobLockVars => LockInv'
  <1> SUFFICES ASSUME LockInv, [JobLockNext]_jobLockVars PROVE LockInv'
    OBVIOUS
  <1>1. CASE UNCHANGED jobLockVars
    BY <1>1 DEF LockInv, JobLockTypeOK, WorksUnderLock, jobLockVars, runVars
  <1>2. CASE JobLockNext
    BY <1>2, AcquireInv, FailOpenInv, EndWorkInv, ReleaseInv, InstanceDiesInv, ExpireInv, LockTickInv
       DEF JobLockNext
  <1> QED BY <1>1, <1>2

LEMMA LockInvOneRuns == LockInv => OneRuns
  <1> SUFFICES ASSUME LockInv, ~overran, ~mongoDown PROVE Cardinality(Running) <= 1
    BY DEF LockInv, OneRuns
  <1>1. Running \in SUBSET {lock}
    BY DEF LockInv, WorksUnderLock, Running
  <1>2. IsFiniteSet({lock}) /\ Cardinality({lock}) = 1
    BY FS_Singleton
  <1> QED BY <1>1, <1>2, FS_Subset

(* "only one instance runs per tick" (salaryScheduleJob.ts:13): as long as no work *)
(* outlives its lock and MongoDB answers, for any instances, lock life and crashes. *)
THEOREM OneInstanceRuns == JobLockSpec => []OneRuns
  <1>1. JobLockSpec => []LockInv
    BY LockInitInv, LockNextInv, PTL DEF JobLockSpec
  <1> QED BY <1>1, LockInvOneRuns, PTL

-----------------------------------------------------------------------------
(* The order of ids: by millisecond, then by counter. *)
Below(a, b) == a[1] < b[1] \/ (a[1] = b[1] /\ a[2] < b[2])

(* No id is above what generateId remembers of the last one. *)
Remembered == \A i \in DOMAIN ids : ids[i] = <<lastMs, seqCounter>> \/ Below(ids[i], <<lastMs, seqCounter>>)

IdInv == IdsOrdered /\ Remembered

USE IdGeneratorAssumption DEF IdGeneratorAssumption

LEMMA IdInitInv == IdGeneratorInit => IdInv
  <1> SUFFICES ASSUME IdGeneratorInit PROVE IdInv
    OBVIOUS
  <1> USE DEF IdGeneratorInit
  <1>1. DOMAIN ids = {}
    OBVIOUS
  <1>2. IdGeneratorTypeOK
    BY <1>1 DEF IdGeneratorTypeOK
  <1> QED BY <1>1, <1>2 DEF IdInv, IdsOrdered, Remembered

(* The new id, at the place after the last; the others stay where they were. *)
LEMMA Appended ==
  ASSUME NEW S, NEW q \in Seq(S), NEW e
  PROVE  /\ DOMAIN Append(q, e) = DOMAIN q \cup {Len(q) + 1}
         /\ DOMAIN q = 1..Len(q) /\ Len(q) \in Nat
         /\ Append(q, e)[Len(q) + 1] = e
         /\ \A i \in DOMAIN q : Append(q, e)[i] = q[i]
  OBVIOUS

LEMMA BelowTransitive ==
  ASSUME NEW a \in Nat \X Nat, NEW b \in Nat \X Nat, NEW c \in Nat \X Nat, Below(a, b), Below(b, c)
  PROVE  Below(a, c)
  BY DEF Below

(* What generateId does to what it remembers: the id is not above the new memory, *)
(* the memory does not fall, and an id that is not late is above the old memory.  *)
LEMMA NewIdFacts ==
  ASSUME IdGeneratorTypeOK, generateId
  PROVE  /\ lastMs' \in 0..MaxMs /\ seqCounter' \in 0..SeqMax /\ now' \in 1..MaxMs
         /\ Below(<<lastMs, seqCounter>>, <<lastMs', seqCounter'>>)
         /\ <<now, seqCounter'>> = <<lastMs', seqCounter'>> \/ Below(<<now, seqCounter'>>, <<lastMs', seqCounter'>>)
         /\ Len(ids) + 1 \notin late' => Below(<<lastMs, seqCounter>>, <<now, seqCounter'>>)
         /\ late \subseteq late' /\ late' \subseteq late \cup {Len(ids) + 1}
  <1> USE DEF IdGeneratorTypeOK, generateId, Below
  <1>1. CASE IsNewMs(now) /\ lastMs' = now /\ seqCounter' \in 0..SeqMax /\ UNCHANGED <<now, late>>
    BY <1>1 DEF IsNewMs
  <1>2. CASE /\ ~IsNewMs(now) /\ seqCounter < SeqMax /\ seqCounter' = seqCounter + 1
             /\ late' = IF now < lastMs THEN late \cup {Len(ids) + 1} ELSE late
             /\ UNCHANGED <<now, lastMs>>
    BY <1>2 DEF IsNewMs
  <1>3. CASE /\ ~IsNewMs(now) /\ now' \in (lastMs + 1)..MaxMs /\ lastMs' = now'
             /\ seqCounter' \in 0..SeqMax /\ late' = late \cup {Len(ids) + 1}
    BY <1>3 DEF IsNewMs
  <1> QED BY <1>1, <1>2, <1>3

LEMMA GenerateIdInv == ASSUME IdInv, generateId PROVE IdInv'
  <1> DEFINE n == Len(ids) + 1
             old == <<lastMs, seqCounter>>
             new == <<now, seqCounter'>>
  <1>a. IdGeneratorTypeOK
    BY DEF IdInv, IdsOrdered
  <1>b. /\ lastMs' \in 0..MaxMs /\ seqCounter' \in 0..SeqMax /\ now' \in 1..MaxMs
        /\ Below(old, <<lastMs', seqCounter'>>)
        /\ new = <<lastMs', seqCounter'>> \/ Below(new, <<lastMs', seqCounter'>>)
        /\ n \notin late' => Below(old, new)
        /\ late \subseteq late' /\ late' \subseteq late \cup {n}
    BY <1>a, NewIdFacts
  <1>c. /\ ids' = Append(ids, new) /\ ids \in Seq((1..MaxMs) \X (0..SeqMax))
        /\ new \in (1..MaxMs) \X (0..SeqMax)
    BY <1>a, <1>b DEF generateId, IdGeneratorTypeOK
  <1>d. /\ DOMAIN ids' = DOMAIN ids \cup {n} /\ DOMAIN ids = 1..Len(ids) /\ Len(ids) \in Nat
        /\ ids'[n] = new /\ \A i \in DOMAIN ids : ids'[i] = ids[i]
    BY <1>c, Appended
  <1>e. \A i \in DOMAIN ids : ids[i] \in Nat \X Nat
    BY <1>c
  <1>f. old \in Nat \X Nat /\ new \in Nat \X Nat /\ <<lastMs', seqCounter'>> \in Nat \X Nat
    BY <1>a, <1>b, <1>c DEF IdGeneratorTypeOK
  <1>1. IdGeneratorTypeOK'
    <2>1. ids' \in Seq((1..MaxMs) \X (0..SeqMax)) /\ late' \subseteq DOMAIN ids'
      BY <1>a, <1>b, <1>c, <1>d DEF IdGeneratorTypeOK
    <2> QED BY <1>a, <1>b, <2>1 DEF IdGeneratorTypeOK, generateId
  <1>2. Remembered'
    <2> SUFFICES ASSUME NEW i \in DOMAIN ids'
                 PROVE  ids'[i] = <<lastMs', seqCounter'>> \/ Below(ids'[i], <<lastMs', seqCounter'>>)
      BY DEF Remembered
    <2>1. CASE i = n
      BY <2>1, <1>b, <1>d
    <2>2. CASE i \in DOMAIN ids
      BY <2>2, <1>b, <1>d, <1>e, <1>f, BelowTransitive DEF IdInv, Remembered
    <2> QED BY <1>d, <2>1, <2>2
  <1>3. \A j \in DOMAIN ids' \ late' : \A i \in 1..(j - 1) : Below(ids'[i], ids'[j])
    <2> SUFFICES ASSUME NEW j \in DOMAIN ids' \ late', NEW i \in 1..(j - 1)
                 PROVE  Below(ids'[i], ids'[j])
      OBVIOUS
    <2>0. i \in DOMAIN ids
      BY <1>d
    <2>1. CASE j = n
      BY <2>0, <2>1, <1>b, <1>d, <1>e, <1>f, BelowTransitive DEF IdInv, Remembered
    <2>2. CASE j \in DOMAIN ids
      <3>1. j \in DOMAIN ids \ late
        BY <2>2, <1>b
      <3> QED BY <3>1, <2>0, <1>d DEF IdInv, IdsOrdered, Below
    <2> QED BY <1>d, <2>1, <2>2
  <1> QED BY <1>1, <1>2, <1>3 DEF IdInv, IdsOrdered, Below

LEMMA MsPassesInv == ASSUME IdInv, MsPasses PROVE IdInv'
  <1>1. IdGeneratorTypeOK'
    BY DEF IdInv, IdsOrdered, IdGeneratorTypeOK, MsPasses
  <1>2. UNCHANGED <<lastMs, seqCounter, ids, late>>
    BY DEF MsPasses
  <1> QED BY <1>1, <1>2 DEF IdInv, IdsOrdered, Remembered, Below

(* idGenerator.ts: "IDs are strictly ordered by generation time": for any counter *)
(* and clock, every id but those made behind the clock or past the counter is     *)
(* above all before it.                                                           *)
THEOREM IdsStayOrdered == IdGeneratorSpec => []IdsOrdered
  <1>1. IdInv /\ [IdGeneratorNext]_idVars => IdInv'
    <2>1. ASSUME IdInv, UNCHANGED idVars PROVE IdInv'
      BY <2>1 DEF IdInv, IdsOrdered, IdGeneratorTypeOK, Remembered, Below, idVars
    <2> QED BY <2>1, GenerateIdInv, MsPassesInv DEF IdGeneratorNext
  <1>2. IdInv => IdsOrdered
    BY DEF IdInv
  <1> QED BY <1>1, <1>2, IdInitInv, PTL DEF IdGeneratorSpec

-----------------------------------------------------------------------------
Closing == {"mongo", "rabbit", "prisma"}

(* Only a process that came through startServer listens, so only such a one was  *)
(* serving when the signal came; its server is there until closeServer has waited *)
(* for the last request, and startServer does not make another.                   *)
ServesAfterBoot ==
    Alive => /\ httpServer \/ wasServing => boot = "done"
             /\ wasServing => stopping # "no"
             /\ wasServing /\ stopping = "server" => httpServer
             /\ wasServing /\ stopping \in Closing => serving = 0 /\ ~httpServer

LifecycleInv == LifecycleTypeOK /\ ServesAfterBoot

USE LifecycleAssumption DEF LifecycleAssumption

LEMMA LifecycleInitInv == LifecycleInit => LifecycleInv
  BY DEF LifecycleInit, LifecycleInv, LifecycleTypeOK, ServesAfterBoot, Boot, Stop, Alive, Closing

(* The two halves of the type: the queue, and the process itself. *)
QueueTyped ==
    /\ begun \in 0..Consumers /\ subscribed \subseteq 1..begun
    /\ subscribed # {} => channel
    /\ listener # "off" => begun = Consumers

ProcessTyped ==
    boot \in Boot /\ stopping \in Stop /\ serving \in 0..MaxRequests /\ tries \in 1..BootRetries

LEMMA StartConsumerQueue == ASSUME QueueTyped, StartConsumer PROVE QueueTyped'
  <1>1. CASE begun < Consumers /\ subscribed' = subscribed \cup {begun + 1}
                /\ begun' = begun + 1 /\ channel' = TRUE /\ listener' = listener
    <2>1. begun \in Nat /\ begun < Consumers /\ subscribed \subseteq 1..begun
      BY <1>1 DEF QueueTyped
    <2>2. begun + 1 \in 0..Consumers /\ subscribed \cup {begun + 1} \subseteq 1..(begun + 1)
      BY <2>1
    <2>3. listener' = "off"
      BY <1>1 DEF QueueTyped
    <2> QED BY <1>1, <2>2, <2>3 DEF QueueTyped
  <1>2. CASE UNCHANGED Queue
    BY <1>2 DEF QueueTyped, Queue
  <1>3. CASE ~(begun < Consumers) /\ UNCHANGED <<channel, begun, subscribed>>
    <2>1. begun = Consumers
      BY <1>3 DEF QueueTyped
    <2> QED BY <1>3, <2>1 DEF QueueTyped
  <1> QED BY <1>1, <1>2, <1>3 DEF StartConsumer

LEMMA QueueTypeInv == QueueTyped /\ [LifecycleNext]_lifeVars => QueueTyped'
  <1> SUFFICES ASSUME QueueTyped, [LifecycleNext]_lifeVars PROVE QueueTyped'
    OBVIOUS
  <1>1. CASE UNCHANGED Queue
    BY <1>1 DEF QueueTyped, Queue
  <1>2. CASE connectRabbitMQ
    <2>1. UNCHANGED <<begun, subscribed, listener>> /\ (channel' = TRUE \/ channel' = channel)
      BY <1>2 DEF connectRabbitMQ
    <2>2. CASE channel' = TRUE
      BY <2>1, <2>2 DEF QueueTyped
    <2>3. CASE channel' = channel
      BY <2>1, <2>3 DEF QueueTyped
    <2> QED BY <2>1, <2>2, <2>3
  <1>3. CASE ConnectionCloses
    BY <1>3 DEF QueueTyped, ConnectionCloses
  <1>4. CASE PublisherConnects
    BY <1>4 DEF QueueTyped, PublisherConnects
  <1>5. CASE PollListener
    BY <1>5 DEF QueueTyped, PollListener
  <1>6. CASE disconnectRabbitMQ
    <2>1. /\ UNCHANGED <<begun, listener>>
          /\ subscribed' = {} \/ (subscribed' = subscribed /\ channel' = channel)
      BY <1>6 DEF disconnectRabbitMQ
    <2>2. CASE subscribed' = {}
      BY <2>1, <2>2 DEF QueueTyped
    <2>3. CASE subscribed' = subscribed /\ channel' = channel
      BY <2>1, <2>3 DEF QueueTyped
    <2> QED BY <2>1, <2>2, <2>3
  <1>7. CASE RestartProcess
    BY <1>7 DEF QueueTyped, RestartProcess
  <1>8. UNCHANGED Queue \/ connectRabbitMQ \/ StartConsumer \/ ConnectionCloses \/ PublisherConnects
           \/ PollListener \/ disconnectRabbitMQ \/ RestartProcess
    BY DEF LifecycleNext, lifeVars, Queue, connectWithRetry, connectMongoDB, markStartupComplete,
           HttpListen, AcceptRequest, EndRequest, handleTermination, closeServer, disconnectMongoDB,
           disconnectPrisma, ExitNow
  <1> QED BY <1>1, <1>2, <1>3, <1>4, <1>5, <1>6, <1>7, <1>8, StartConsumerQueue

LEMMA ProcessTypeInv == ProcessTyped /\ [LifecycleNext]_lifeVars => ProcessTyped'
  <1> SUFFICES ASSUME ProcessTyped, [LifecycleNext]_lifeVars PROVE ProcessTyped'
    OBVIOUS
  <1> USE DEF ProcessTyped, Boot, Stop, Booting, Services, Termination
  <1>1. CASE connectWithRetry \/ connectMongoDB
    BY <1>1 DEF connectWithRetry, connectMongoDB
  <1>2. CASE connectRabbitMQ \/ StartConsumer \/ markStartupComplete \/ HttpListen
    BY <1>2 DEF connectRabbitMQ, StartConsumer, markStartupComplete, HttpListen
  <1>3. CASE AcceptRequest \/ EndRequest
    BY <1>3 DEF AcceptRequest, EndRequest
  <1>4. CASE ConnectionCloses \/ PublisherConnects \/ PollListener
    BY <1>4 DEF ConnectionCloses, PublisherConnects, PollListener
  <1>5. CASE handleTermination \/ closeServer
    BY <1>5 DEF handleTermination, closeServer
  <1>6. CASE disconnectMongoDB \/ disconnectRabbitMQ \/ disconnectPrisma
    BY <1>6 DEF disconnectMongoDB, disconnectRabbitMQ, disconnectPrisma
  <1>7. CASE ExitNow \/ RestartProcess
    BY <1>7 DEF ExitNow, RestartProcess
  <1>8. CASE UNCHANGED lifeVars
    BY <1>8 DEF lifeVars
  <1> QED BY <1>1, <1>2, <1>3, <1>4, <1>5, <1>6, <1>7, <1>8 DEF LifecycleNext

LEMMA LifecycleTypeInv == LifecycleTypeOK /\ [LifecycleNext]_lifeVars => LifecycleTypeOK'
  BY QueueTypeInv, ProcessTypeInv DEF LifecycleTypeOK, QueueTyped, ProcessTyped

LEMMA LifecycleServesInv == LifecycleInv /\ [LifecycleNext]_lifeVars => ServesAfterBoot'
  <1> SUFFICES ASSUME LifecycleTypeOK, ServesAfterBoot, [LifecycleNext]_lifeVars PROVE ServesAfterBoot'
    BY DEF LifecycleInv
  <1> USE DEF ServesAfterBoot, Alive, Closing, Booting, Services, Queue, Termination
  <1>1. CASE connectWithRetry
    BY <1>1 DEF connectWithRetry
  <1>2. CASE connectMongoDB
    BY <1>2 DEF connectMongoDB
  <1>3. CASE connectRabbitMQ
    BY <1>3 DEF connectRabbitMQ
  <1>4. CASE StartConsumer
    BY <1>4 DEF StartConsumer
  <1>5. CASE markStartupComplete \/ HttpListen
    BY <1>5 DEF markStartupComplete, HttpListen
  <1>6. CASE AcceptRequest \/ EndRequest
    BY <1>6 DEF AcceptRequest, EndRequest
  <1>7. CASE ConnectionCloses \/ PublisherConnects \/ PollListener
    BY <1>7 DEF ConnectionCloses, PublisherConnects, PollListener
  <1>8. CASE handleTermination \/ closeServer
    BY <1>8 DEF handleTermination, closeServer
  <1>9. CASE disconnectMongoDB \/ disconnectRabbitMQ \/ disconnectPrisma
    BY <1>9 DEF disconnectMongoDB, disconnectRabbitMQ, disconnectPrisma
  <1>10. CASE ExitNow \/ RestartProcess
    BY <1>10 DEF ExitNow, RestartProcess
  <1>11. CASE UNCHANGED lifeVars
    BY <1>11 DEF lifeVars
  <1> QED BY <1>1, <1>2, <1>3, <1>4, <1>5, <1>6, <1>7, <1>8, <1>9, <1>10, <1>11 DEF LifecycleNext

(* index.ts and gracefulShutdown.ts: for any number of consumers, a process that  *)
(* reports itself healthy has started all of them, and one that was serving when  *)
(* the signal came closes its connections only when no request needs them.        *)
THEOREM LifecycleIsOrderly == LifecycleSpec => []OrderlyLifecycle
  <1>1. LifecycleInv /\ [LifecycleNext]_lifeVars => LifecycleInv'
    BY LifecycleTypeInv, LifecycleServesInv DEF LifecycleInv
  <1>2. LifecycleInv => OrderlyLifecycle
    BY DEF LifecycleInv, LifecycleTypeOK, ServesAfterBoot, OrderlyLifecycle, getHealthReport, Closing
  <1> QED BY <1>1, <1>2, LifecycleInitInv, PTL DEF LifecycleSpec

-----------------------------------------------------------------------------
C(h) == Handlers[h].contract

LedgerTyped ==
    /\ DOMAIN ledger = Contract
    /\ \A c \in Contract : ledger[c] \in Seq(Kinds) /\ Len(ledger[c]) <= MaxEffects[c]

LoopTyped ==
    /\ DOMAIN cursor = Contract /\ \A c \in Contract : cursor[c] \in 0..Len(ledger[c])
    /\ step \in {"fetch", "dispatch", "capture", "reconnect"}
    /\ polled \in 1..Len(Contracts) /\ page \in 0..MaxEffects[Polled]
    /\ pos \in 1..(Len(Handlers) + 1) /\ attempt \in Nat

SinksTyped ==
    /\ DOMAIN delivered = Hs /\ \A h \in Hs : delivered[h] \in [Effect(h) -> Nat]
    /\ \A x \in captured \cup missed :
          x[1] \in Contract /\ x[2] \in 1..Len(ledger[x[1]]) /\ x[3] \in Hs \cup {0}

CountsTyped ==
    health \in {"up", "down"} /\ restarts \in Nat /\ faults \in 0..MaxFaults /\ restarts <= faults

Offering == step \in {"dispatch", "capture"}

(* The page is ahead of the cursor and in the ledger; pos is a handler of the      *)
(* contract, or past the last; while the loop is not offering, it is the first.    *)
PositionsRight ==
    /\ Offering => cursor[Polled] < page /\ page <= Len(ledger[Polled])
    /\ pos \in Hs => C(pos) = Polled
    /\ ~Offering => \A h \in Hs : C(h) = Polled => h >= pos
    /\ step = "capture" => pos \in Hs /\ Kind = "event"

(* What became of the effect for a handler; of the effect. *)
SettledFor(c, i, h) == Finished(c, i, h) \/ <<c, i, h>> \in missed
Settled(c, i) ==
    /\ ledger[c][i] = "malformed" => <<c, i, 0>> \in captured \cup missed
    /\ ledger[c][i] = "event" => \A h \in Hs : C(h) = c => SettledFor(c, i, h)

(* Behind the cursor all is settled, and at the cursor for the handlers before pos. *)
CursorBehindSettled ==
    /\ \A c \in Contract : \A i \in 1..cursor[c] : Settled(c, i)
    /\ Offering /\ Kind = "event" =>
          \A h \in Hs : C(h) = Polled /\ h < pos => SettledFor(Polled, Here, h)

(* What the loop has offered since the process started. *)
Offered(h, i) == i <= cursor[C(h)] \/ (C(h) = Polled /\ i = Here /\ Offering /\ h < pos)

OfferedOnce ==
    \A h \in Hs : \A i \in Effect(h) :
        delivered[h][i] <= restarts \/ (Offered(h, i) /\ delivered[h][i] <= 1 + restarts)

ListenerTyped == LedgerTyped /\ LoopTyped /\ SinksTyped /\ CountsTyped
ListenerInv == ListenerTyped /\ PositionsRight /\ CursorBehindSettled /\ OfferedOnce

LEMMA LeastNat ==
  ASSUME NEW T \in SUBSET Nat, T # {} PROVE \E x \in T : \A y \in T : x <= y
  <1>1. PICK x \in T : \A y \in T : <<y, x>> \notin OpToRel(<, Nat)
    BY WFMin, NatLessThanWellFounded, Zenon
  <1>2. \A y \in T : ~(y < x)
    BY <1>1 DEF OpToRel
  <1> QED BY <1>2

(* The first handler of c from a place on, or the place after the last. *)
LEMMA NextHandlerFacts ==
  ASSUME NEW c, NEW from \in Nat
  PROVE  /\ NextHandler(c, from) \in 1..(Len(Handlers) + 1)
         /\ NextHandler(c, from) \in Hs => C(NextHandler(c, from)) = c /\ NextHandler(c, from) >= from
         /\ \A h \in Hs : C(h) = c /\ h >= from => h >= NextHandler(c, from)
  <1> DEFINE mine == {h \in Hs : h >= from /\ Handlers[h].contract = c}
  <1>1. Hs = 1..Len(Handlers) /\ Len(Handlers) \in Nat
    BY ListenerAssumption DEF Hs, ListenerAssumption
  <1>2. CASE mine = {}
    <2>1. NextHandler(c, from) = Len(Handlers) + 1
      BY <1>2 DEF NextHandler
    <2> QED BY <1>1, <1>2, <2>1 DEF C
  <1>3. CASE mine # {}
    <2>1. mine \in SUBSET Nat
      BY <1>1
    <2>2. \E h \in mine : \A g \in mine : h <= g
      BY <1>3, <2>1, LeastNat
    <2>3. NextHandler(c, from) = CHOOSE h \in mine : \A g \in mine : h <= g
      BY <1>3 DEF NextHandler
    <2>4. /\ NextHandler(c, from) \in mine
          /\ \A g \in mine : NextHandler(c, from) <= g
      BY <2>2, <2>3
    <2> QED BY <1>1, <2>4 DEF C
  <1> QED BY <1>2, <1>3

LEMMA ContractFacts ==
  /\ Hs = 1..Len(Handlers) /\ Len(Handlers) \in Nat /\ Len(Contracts) \in Nat \ {0}
  /\ DOMAIN Contracts = 1..Len(Contracts)
  /\ \A p \in 1..Len(Contracts) : Contracts[p] \in Contract
  /\ \A c \in Contract : MaxEffects[c] \in Nat
  /\ \A h \in Hs : C(h) \in Contract /\ Effect(h) = 1..MaxEffects[C(h)]
  /\ MaxFaults \in Nat /\ PageSize \in Nat \ {0}
  <1> USE ListenerAssumption DEF ListenerAssumption
  <1>1. /\ Hs = 1..Len(Handlers) /\ Len(Handlers) \in Nat /\ Len(Contracts) \in Nat \ {0}
        /\ DOMAIN Contracts = 1..Len(Contracts)
    BY DEF Hs
  <1>2. \A p \in 1..Len(Contracts) : Contracts[p] \in Contract
    BY DEF Contract
  <1>3. \A h \in Hs : C(h) \in Contract
    <2> DEFINE R == [contract : Contract, kind : {"lookup", "swallow"}]
    <2>1. Handlers \in Seq(R)
      OBVIOUS
    <2>2. \A r \in R : r.contract \in Contract
      OBVIOUS
    <2> HIDE DEF R
    <2>3. \A h \in Hs : Handlers[h] \in R
      BY <2>1 DEF Hs
    <2> QED BY <2>2, <2>3 DEF C
  <1>5. MaxFaults \in Nat /\ PageSize \in Nat \ {0} /\ \A c \in Contract : MaxEffects[c] \in Nat
    OBVIOUS
  <1> QED BY <1>1, <1>2, <1>3, <1>5 DEF C, Effect

(* ListenerTyped is the type invariant, with what the induction needs. *)
LEMMA TypedIsTypeOK == ListenerTyped => ListenerTypeOK
  <1> SUFFICES ASSUME ListenerTyped PROVE ListenerTypeOK
    OBVIOUS
  <1> USE ContractFacts DEF ListenerTyped
  <1>1. \A c \in Contract : ledger[c] \in UNION {[1..n -> Kinds] : n \in 0..MaxEffects[c]}
    <2> SUFFICES ASSUME NEW c \in Contract
                 PROVE  \E n \in 0..MaxEffects[c] : ledger[c] \in [1..n -> Kinds]
      OBVIOUS
    <2>1. ledger[c] \in [1..Len(ledger[c]) -> Kinds] /\ Len(ledger[c]) \in 0..MaxEffects[c]
      BY DEF LedgerTyped
    <2> QED BY <2>1
  <1>2. restarts \in 0..MaxFaults /\ faults \in 0..MaxFaults /\ health \in {"up", "down"}
    BY DEF CountsTyped
  <1>3. polled \in DOMAIN Contracts
    BY DEF LoopTyped
  <1> QED BY <1>1, <1>2, <1>3 DEF ListenerTypeOK, LedgerTyped, LoopTyped, SinksTyped

LEMMA ListenerInitInv == ListenerInit => ListenerInv
  <1> SUFFICES ASSUME ListenerInit PROVE ListenerInv
    OBVIOUS
  <1> USE ContractFacts DEF ListenerInit
  <1>a. Contracts[1] \in Contract /\ Polled = Contracts[1]
    BY DEF Polled
  <1>b. /\ pos \in 1..(Len(Handlers) + 1) /\ (pos \in Hs => C(pos) = Polled)
        /\ \A h \in Hs : C(h) = Polled => h >= pos
    BY <1>a, NextHandlerFacts
  <1>1. LedgerTyped
    BY DEF LedgerTyped
  <1>2. LoopTyped
    BY <1>a, <1>b DEF LoopTyped
  <1>3. SinksTyped /\ CountsTyped
    BY DEF SinksTyped, CountsTyped
  <1>4. PositionsRight /\ CursorBehindSettled
    BY <1>b DEF PositionsRight, CursorBehindSettled, Offering
  <1>5. OfferedOnce
    BY DEF OfferedOnce
  <1> QED BY <1>1, <1>2, <1>3, <1>4, <1>5 DEF ListenerInv, ListenerTyped

(* A new effect is ahead of every cursor, page and record. *)
LEMMA EmitInv == ASSUME ListenerInv, NEW c \in Contract, NEW k \in Kinds, Emit(c, k) PROVE ListenerInv'
  <1> USE ContractFacts
  <1>a. LedgerTyped /\ LoopTyped /\ SinksTyped /\ CountsTyped
    BY DEF ListenerInv, ListenerTyped
  <1>b. /\ DOMAIN ledger' = Contract
        /\ UNCHANGED <<cursor, step, polled, page, pos, attempt, health, delivered, captured, missed, restarts, faults>>
    BY <1>a DEF Emit, LedgerTyped, loopVars, sinkVars
  <1>c. \A d \in Contract : /\ ledger'[d] \in Seq(Kinds) /\ Len(ledger'[d]) <= MaxEffects[d]
                             /\ Len(ledger[d]) <= Len(ledger'[d]) /\ Len(ledger[d]) \in Nat
                             /\ Len(ledger'[d]) \in Nat
                             /\ \A i \in 1..Len(ledger[d]) : ledger'[d][i] = ledger[d][i]
    BY <1>a DEF Emit, LedgerTyped
  <1>d. Polled' = Polled /\ Polled \in Contract /\ Here' = Here
    BY <1>a, <1>b DEF Polled, Here, LoopTyped
  <1>e. Offering => Kind' = Kind
    <2> SUFFICES ASSUME Offering PROVE Kind' = Kind
      OBVIOUS
    <2>1. Here \in 1..Len(ledger[Polled])
      BY <1>a, <1>d DEF ListenerInv, PositionsRight, LoopTyped, Here
    <2> QED BY <2>1, <1>c, <1>d DEF Kind
  <1>1. LedgerTyped' /\ CountsTyped'
    BY <1>a, <1>b, <1>c DEF LedgerTyped, CountsTyped
  <1>2. LoopTyped'
    <2>1. \A d \in Contract : cursor'[d] \in 0..Len(ledger'[d])
      BY <1>a, <1>b, <1>c DEF LoopTyped
    <2> QED BY <1>a, <1>b, <1>d, <2>1 DEF LoopTyped
  <1>3. SinksTyped'
    BY <1>a, <1>b, <1>c DEF SinksTyped
  <1>4. PositionsRight'
    BY <1>a, <1>b, <1>c, <1>d, <1>e DEF ListenerInv, PositionsRight, Offering, LoopTyped
  <1>5. CursorBehindSettled'
    <2>1. \A d \in Contract : \A i \in 1..cursor[d] : Settled(d, i)'
      <3> SUFFICES ASSUME NEW d \in Contract, NEW i \in 1..cursor[d] PROVE Settled(d, i)'
        OBVIOUS
      <3>1. i \in 1..Len(ledger[d]) /\ Settled(d, i)
        BY <1>a, <1>c DEF LoopTyped, ListenerInv, CursorBehindSettled
      <3> QED BY <3>1, <1>b, <1>c DEF Settled, SettledFor, Finished
    <2>2. CursorBehindSettled
      BY DEF ListenerInv
    <2>3. Offering' = Offering /\ \A h \in Hs : SettledFor(Polled, Here, h)' = SettledFor(Polled, Here, h)
      BY <1>b, <1>d DEF Offering, SettledFor, Finished
    <2> QED BY <2>1, <2>2, <2>3, <1>b, <1>d, <1>e DEF CursorBehindSettled
  <1>6. OfferedOnce'
    BY <1>b, <1>d DEF ListenerInv, OfferedOnce, Offered, Offering
  <1> QED BY <1>1, <1>2, <1>3, <1>4, <1>5, <1>6 DEF ListenerInv, ListenerTyped

(* Where the loop goes on with the next contract, it offers nothing yet. *)
LEMMA NextContractLoop ==
  ASSUME LoopTyped, NextContract, DOMAIN cursor' = Contract, \A c \in Contract : cursor'[c] \in 0..Len(ledger'[c])
  PROVE  LoopTyped' /\ PositionsRight' /\ ~Offering'
  <1> USE ContractFacts
  <1> DEFINE n == (polled % Len(Contracts)) + 1
  <1>1. n \in 1..Len(Contracts) /\ Contracts[n] \in Contract
    BY DEF LoopTyped
  <1>2. polled' = n /\ step' = "fetch" /\ page' = 0 /\ attempt' = 0 /\ pos' = NextHandler(Contracts[n], 1)
    BY DEF NextContract
  <1> HIDE DEF n
  <1>3. Polled' = Contracts[n]
    BY <1>2 DEF Polled
  <1>4. /\ pos' \in 1..(Len(Handlers) + 1) /\ (pos' \in Hs => C(pos') = Polled')
        /\ \A h \in Hs : C(h) = Polled' => h >= pos'
    BY <1>2, <1>3, NextHandlerFacts
  <1>5. LoopTyped'
    BY <1>1, <1>2, <1>3, <1>4 DEF LoopTyped
  <1>6. PositionsRight' /\ ~Offering'
    BY <1>2, <1>4 DEF PositionsRight, Offering
  <1> QED BY <1>5, <1>6

(* A step between offers, which settles nothing and moves no cursor. *)
LEMMA IdleInv ==
  ASSUME ListenerInv, ~Offering, LoopTyped', CountsTyped', PositionsRight',
         UNCHANGED <<ledger, cursor, sinkVars, restarts>>,
         Offering' => polled' = polled /\ pos' = pos
  PROVE  ListenerInv'
  <1> USE ContractFacts
  <1>a. UNCHANGED <<delivered, captured, missed>>
    BY DEF sinkVars
  <1>1. LedgerTyped' /\ SinksTyped'
    BY <1>a DEF ListenerInv, ListenerTyped, LedgerTyped, SinksTyped
  <1>b. Offering' => \A h \in Hs : C(h) = Polled' => ~(h < pos')
    <2> SUFFICES ASSUME Offering', NEW h \in Hs, C(h) = Polled' PROVE ~(h < pos')
      OBVIOUS
    <2>1. Polled' = Polled /\ pos' = pos /\ pos \in Nat
      BY DEF Polled, ListenerInv, ListenerTyped, LoopTyped
    <2>2. h >= pos
      BY <2>1 DEF ListenerInv, PositionsRight
    <2> QED BY <2>1, <2>2
  <1>2. CursorBehindSettled'
    <2>1. \A c \in Contract : \A i \in 1..cursor[c] : Settled(c, i)'
      BY <1>a DEF ListenerInv, CursorBehindSettled, Settled, SettledFor, Finished
    <2> QED BY <2>1, <1>b DEF CursorBehindSettled
  <1>3. OfferedOnce'
    <2> SUFFICES ASSUME NEW h \in Hs, NEW i \in Effect(h)
                 PROVE  delivered[h][i] <= restarts \/ (Offered(h, i)' /\ delivered[h][i] <= 1 + restarts)
      BY <1>a DEF OfferedOnce, Effect
    <2>1. Offered(h, i) => Offered(h, i)'
      BY DEF Offered, Offering
    <2> QED BY <2>1 DEF ListenerInv, OfferedOnce
  <1> QED BY <1>1, <1>2, <1>3 DEF ListenerInv, ListenerTyped

LEMMA FetchInv == ASSUME ListenerInv, Fetch PROVE ListenerInv'
  <1> USE ContractFacts
  <1>a. LedgerTyped /\ LoopTyped /\ CountsTyped /\ PositionsRight /\ ~Offering
    BY DEF ListenerInv, ListenerTyped, Fetch, Offering
  <1>b. UNCHANGED <<ledger, cursor, sinkVars, restarts, faults>> /\ health' = "up"
    BY DEF Fetch
  <1>c. Polled \in Contract
    BY <1>a DEF LoopTyped, Polled
  <1>1. CountsTyped'
    BY <1>a, <1>b DEF CountsTyped
  <1>2. CASE NextContract
    <2>1. LoopTyped' /\ PositionsRight' /\ ~Offering'
      BY <1>a, <1>b, <1>2, NextContractLoop DEF LoopTyped
    <2> QED BY <1>a, <1>b, <1>1, <2>1, IdleInv
  <1>3. CASE /\ PageEnd(cursor[Polled]) # cursor[Polled]
             /\ step' = "dispatch" /\ page' = PageEnd(cursor[Polled]) /\ attempt' = 0
             /\ UNCHANGED <<polled, pos>>
    <2>1. /\ cursor[Polled] \in 0..Len(ledger[Polled]) /\ Len(ledger[Polled]) \in Nat
          /\ Len(ledger[Polled]) <= MaxEffects[Polled] /\ MaxEffects[Polled] \in Nat
      BY <1>a, <1>c DEF LedgerTyped, LoopTyped
    <2>2. cursor[Polled] < page' /\ page' <= Len(ledger[Polled]) /\ page' \in 0..MaxEffects[Polled]
      BY <1>3, <2>1 DEF PageEnd
    <2>3. Polled' = Polled
      BY <1>3 DEF Polled
    <2>4. LoopTyped'
      BY <1>a, <1>b, <1>3, <2>2, <2>3 DEF LoopTyped
    <2>5. PositionsRight'
      BY <1>a, <1>b, <1>3, <2>2, <2>3 DEF PositionsRight, Offering
    <2> QED BY <1>a, <1>b, <1>1, <1>3, <2>4, <2>5, IdleInv
  <1> QED BY <1>2, <1>3 DEF Fetch

LEMMA RetryInv == ASSUME ListenerInv, FetchFails \/ Reconnect \/ ReconnectFails PROVE ListenerInv'
  <1> USE ContractFacts
  <1>a. LedgerTyped /\ LoopTyped /\ CountsTyped /\ PositionsRight /\ ~Offering
    BY DEF ListenerInv, ListenerTyped, FetchFails, Reconnect, ReconnectFails, Offering
  <1>b. UNCHANGED <<ledger, cursor, sinkVars, restarts>>
    BY DEF FetchFails, Reconnect, ReconnectFails
  <1>c. CountsTyped'
    <2>1. health' \in {"up", "down"} /\ (faults' = faults \/ (faults < MaxFaults /\ faults' = faults + 1))
      BY <1>a DEF FetchFails, Reconnect, ReconnectFails, Fault, CountsTyped
    <2> QED BY <1>a, <1>b, <2>1 DEF CountsTyped
  <1>d. \/ NextContract
        \/ /\ UNCHANGED <<polled, page, pos>> /\ step' \in {"fetch", "reconnect"}
           /\ attempt' = 0 \/ attempt' = attempt + 1
    BY DEF FetchFails, Reconnect, ReconnectFails
  <1>1. CASE NextContract
    <2>1. LoopTyped' /\ PositionsRight' /\ ~Offering'
      BY <1>a, <1>b, <1>1, NextContractLoop DEF LoopTyped
    <2> QED BY <1>a, <1>b, <1>c, <2>1, IdleInv
  <1>2. CASE UNCHANGED <<polled, page, pos>> /\ step' \in {"fetch", "reconnect"}
                /\ (attempt' = 0 \/ attempt' = attempt + 1)
    <2>1. Polled' = Polled /\ ~Offering'
      BY <1>2 DEF Polled, Offering
    <2>2. LoopTyped'
      BY <1>a, <1>b, <1>2, <2>1 DEF LoopTyped
    <2>3. PositionsRight'
      BY <1>a, <1>b, <1>2, <2>1 DEF PositionsRight
    <2> QED BY <1>a, <1>b, <1>c, <2>1, <2>2, <2>3, IdleInv
  <1> QED BY <1>1, <1>2, <1>d

(* After a restart nothing counts as offered, so each delivery is one more restart. *)
LEMMA RestartInv == ASSUME ListenerInv, Restart PROVE ListenerInv'
  <1> USE ContractFacts
  <1>a. LedgerTyped /\ LoopTyped /\ SinksTyped /\ CountsTyped
    BY DEF ListenerInv, ListenerTyped
  <1>b. /\ UNCHANGED <<ledger, delivered, captured, missed>> /\ restarts' = restarts + 1
        /\ cursor' = [c \in Contract |-> 0] /\ step' = "fetch" /\ polled' = 1 /\ page' = 0 /\ attempt' = 0
        /\ pos' = NextHandler(Contracts[1], 1) /\ health' = "down"
        /\ faults < MaxFaults /\ faults' = faults + 1
    BY DEF Restart, sinkVars, Fault
  <1>c. Polled' = Contracts[1] /\ Contracts[1] \in Contract
    BY <1>b DEF Polled
  <1>d. /\ pos' \in 1..(Len(Handlers) + 1) /\ (pos' \in Hs => C(pos') = Polled')
        /\ \A h \in Hs : C(h) = Polled' => h >= pos'
    BY <1>b, <1>c, NextHandlerFacts
  <1>1. LedgerTyped' /\ SinksTyped' /\ CountsTyped'
    BY <1>a, <1>b DEF LedgerTyped, SinksTyped, CountsTyped
  <1>2. LoopTyped'
    <2>1. \A c \in Contract : cursor'[c] \in 0..Len(ledger'[c])
      BY <1>a, <1>b DEF LedgerTyped
    <2> QED BY <1>b, <1>c, <1>d, <2>1 DEF LoopTyped
  <1>3. PositionsRight' /\ CursorBehindSettled'
    BY <1>b, <1>d DEF PositionsRight, CursorBehindSettled, Offering
  <1>4. OfferedOnce'
    <2> SUFFICES ASSUME NEW h \in Hs, NEW i \in Effect(h) PROVE delivered[h][i] <= restarts + 1
      BY <1>b DEF OfferedOnce, Effect
    <2>1. delivered[h][i] \in Nat /\ restarts \in Nat
      BY <1>a DEF SinksTyped, CountsTyped
    <2> QED BY <2>1 DEF ListenerInv, OfferedOnce
  <1> QED BY <1>1, <1>2, <1>3, <1>4 DEF ListenerInv, ListenerTyped

(* What the steps that are done with an effect, or with a handler of it, share: the *)
(* records only grow, and only the handler at pos can have had the effect.         *)
RecordsGrow ==
    /\ captured \subseteq captured' /\ missed \subseteq missed'
    /\ \A h \in Hs : \A i \in Effect(h) :
          \/ delivered'[h][i] = delivered[h][i]
          \/ h = pos /\ i = Here /\ delivered'[h][i] = delivered[h][i] + 1

LEMMA SettledStays ==
  ASSUME SinksTyped, RecordsGrow, ledger' = ledger, NEW c \in Contract, NEW i \in 1..MaxEffects[c]
  PROVE  /\ \A h \in Hs : C(h) = c /\ SettledFor(c, i, h) => SettledFor(c, i, h)'
         /\ Settled(c, i) => Settled(c, i)'
  <1> USE ContractFacts
  <1>1. ASSUME NEW h \in Hs, C(h) = c, SettledFor(c, i, h) PROVE SettledFor(c, i, h)'
    <2>1. delivered[h][i] \in Nat /\ i \in Effect(h)
      BY <1>1 DEF SinksTyped
    <2> QED BY <1>1, <2>1 DEF RecordsGrow, SettledFor, Finished
  <1> QED BY <1>1 DEF Settled, RecordsGrow

(* The effect here, and what the type says of it. *)
LEMMA HereFacts ==
  ASSUME ListenerTyped, PositionsRight, Offering
  PROVE  /\ Polled \in Contract /\ Here \in 1..Len(ledger[Polled]) /\ Here \in 1..MaxEffects[Polled]
         /\ Here <= page /\ page \in Nat /\ page <= Len(ledger[Polled]) /\ Len(ledger[Polled]) \in Nat
         /\ Here = cursor[Polled] + 1 /\ cursor[Polled] \in Nat
  <1> USE ContractFacts
  <1>1. /\ Polled \in Contract /\ cursor[Polled] \in 0..Len(ledger[Polled]) /\ page \in Nat
        /\ Len(ledger[Polled]) \in Nat /\ Len(ledger[Polled]) <= MaxEffects[Polled]
    BY DEF ListenerTyped, LedgerTyped, LoopTyped, Polled
  <1> QED BY <1>1 DEF PositionsRight, Here

LEMMA AdvanceInv ==
  ASSUME ListenerInv, Offering, Advance, ledger' = ledger, restarts' = restarts,
         SinksTyped', CountsTyped', RecordsGrow, NEW d, NEW e, d = Polled /\ e = Here, Settled(d, e)'
  PROVE  ListenerInv'
  <1> USE ContractFacts
  <1>a. LedgerTyped /\ LoopTyped /\ SinksTyped /\ CountsTyped /\ PositionsRight
    BY DEF ListenerInv, ListenerTyped
  <1>b. /\ Polled \in Contract /\ Here \in 1..Len(ledger[Polled]) /\ Here \in 1..MaxEffects[Polled]
        /\ Here <= page /\ page \in Nat /\ page <= Len(ledger[Polled]) /\ Len(ledger[Polled]) \in Nat
        /\ Here = cursor[Polled] + 1 /\ cursor[Polled] \in Nat
    BY HereFacts DEF ListenerInv
  <1>c. /\ DOMAIN cursor' = Contract
        /\ \A c \in Contract : cursor'[c] = IF c = Polled THEN Here ELSE cursor[c]
    BY <1>a, <1>b DEF Advance, updateCursor, LoopTyped
  <1>d. \A c \in Contract : cursor'[c] \in 0..Len(ledger'[c])
    BY <1>a, <1>b, <1>c DEF LoopTyped
  <1>1. LedgerTyped'
    BY <1>a DEF LedgerTyped
  <1>2. LoopTyped' /\ PositionsRight' /\ (Offering' => Polled' = Polled /\ pos' = NextHandler(Polled, 1))
    <2>1. CASE NextContract
      BY <1>a, <1>c, <1>d, <2>1, NextContractLoop
    <2>2. CASE /\ Here # page /\ step' = "dispatch" /\ attempt' = 0 /\ pos' = NextHandler(Polled, 1)
               /\ UNCHANGED <<polled, page>>
      <3>1. Polled' = Polled
        BY <2>2 DEF Polled
      <3>2. /\ pos' \in 1..(Len(Handlers) + 1) /\ (pos' \in Hs => C(pos') = Polled')
        BY <2>2, <3>1, NextHandlerFacts
      <3>3. LoopTyped'
        BY <1>a, <1>c, <1>d, <2>2, <3>1, <3>2 DEF LoopTyped
      <3>4. cursor'[Polled'] < page' /\ page' <= Len(ledger'[Polled'])
        BY <1>b, <1>c, <2>2, <3>1
      <3>5. PositionsRight'
        BY <2>2, <3>2, <3>4 DEF PositionsRight, Offering
      <3> QED BY <2>2, <3>1, <3>3, <3>5
    <2> QED BY <2>1, <2>2 DEF Advance
  <1>e. Offering' => \A h \in Hs : C(h) = Polled' => ~(h < pos')
    <2> SUFFICES ASSUME Offering', NEW h \in Hs, C(h) = Polled' PROVE ~(h < pos')
      OBVIOUS
    <2>1. h >= pos' /\ pos' \in Nat
      BY <1>2, NextHandlerFacts DEF LoopTyped
    <2> QED BY <2>1
  <1>3. CursorBehindSettled'
    <2>1. ASSUME NEW c \in Contract, NEW i \in 1..cursor'[c] PROVE Settled(c, i)'
      <3>1. CASE c = d /\ i = e
        BY <3>1
      <3>2. CASE i \in 1..cursor[c]
        <4>1. i \in 1..MaxEffects[c]
          BY <1>a, <3>2 DEF LedgerTyped, LoopTyped
        <4>2. Settled(c, i)
          BY <3>2 DEF ListenerInv, CursorBehindSettled
        <4> QED BY <4>1, <4>2, <1>a, SettledStays
      <3> QED BY <1>b, <1>c, <3>1, <3>2
    <2> QED BY <2>1, <1>e DEF CursorBehindSettled
  <1>4. OfferedOnce'
    <2> SUFFICES ASSUME NEW h \in Hs, NEW i \in Effect(h)
                 PROVE  delivered'[h][i] <= restarts \/ (Offered(h, i)' /\ delivered'[h][i] <= 1 + restarts)
      BY DEF OfferedOnce, Effect
    <2>1. delivered[h][i] \in Nat /\ restarts \in Nat /\ i \in Nat
      BY <1>a DEF SinksTyped, CountsTyped
    <2>2. delivered[h][i] <= restarts \/ (Offered(h, i) /\ delivered[h][i] <= 1 + restarts)
      BY DEF ListenerInv, OfferedOnce
    <2>3. Offered(h, i) => Offered(h, i)'
      <3>1. C(h) \in Contract /\ cursor[C(h)] \in Nat
        BY <1>a DEF LoopTyped, LedgerTyped
      <3>2. cursor[C(h)] <= cursor'[C(h)]
        BY <1>b, <1>c, <3>1
      <3> QED BY <1>b, <1>c, <2>1, <3>1, <3>2 DEF Offered
    <2>4. CASE delivered'[h][i] = delivered[h][i]
      BY <2>2, <2>3, <2>4
    <2>5. CASE h = pos /\ i = Here /\ delivered'[h][i] = delivered[h][i] + 1
      <3>1. C(h) = Polled
        BY <1>a, <2>5 DEF PositionsRight
      <3>2. ~Offered(h, i) /\ Offered(h, i)'
        BY <1>a, <1>b, <1>c, <2>5, <3>1 DEF Offered, LoopTyped
      <3> QED BY <2>1, <2>2, <2>5, <3>2
    <2> QED BY <2>4, <2>5 DEF RecordsGrow
  <1> QED BY <1>1, <1>2, <1>3, <1>4 DEF ListenerInv, ListenerTyped

(* The handler at pos is settled; so is the effect, if no handler is left. *)
LEMMA MoveOnInv ==
  ASSUME ListenerInv, Offering, Kind = "event", pos \in Hs, MoveOn, ledger' = ledger, restarts' = restarts,
         SinksTyped', CountsTyped', RecordsGrow,
         NEW d, NEW e, NEW g, d = Polled /\ e = Here /\ g = pos, SettledFor(d, e, g)'
  PROVE  ListenerInv'
  <1> USE ContractFacts
  <1> DEFINE n == NextHandler(Polled, pos + 1)
  <1>a. LedgerTyped /\ LoopTyped /\ SinksTyped /\ CountsTyped /\ PositionsRight
    BY DEF ListenerInv, ListenerTyped
  <1>b. /\ Polled \in Contract /\ Here \in 1..Len(ledger[Polled]) /\ Here \in 1..MaxEffects[Polled]
        /\ Here = cursor[Polled] + 1 /\ cursor[Polled] \in Nat
    BY HereFacts DEF ListenerInv
  <1>c. /\ n \in 1..(Len(Handlers) + 1) /\ (n \in Hs => C(n) = Polled /\ n >= pos + 1)
        /\ \A h \in Hs : C(h) = Polled /\ h >= pos + 1 => h >= n
    BY NextHandlerFacts
  <1>d. MoveOn <=> IF n > Len(Handlers) THEN Advance
                   ELSE pos' = n /\ attempt' = 0 /\ step' = "dispatch" /\ UNCHANGED <<cursor, polled, page>>
    BY DEF MoveOn
  <1> HIDE DEF n
  <1>e. \A h \in Hs : C(h) = d /\ h < n => SettledFor(d, e, h)'
    <2> SUFFICES ASSUME NEW h \in Hs, C(h) = d, h < n PROVE SettledFor(d, e, h)'
      OBVIOUS
    <2>1. CASE h = g
      BY <2>1
    <2>2. CASE h < pos
      <3>1. SettledFor(d, e, h)
        BY <2>2 DEF ListenerInv, CursorBehindSettled
      <3> QED BY <1>a, <1>b, <3>1, SettledStays
    <2>3. pos \in Nat /\ h \in Nat /\ n \in Nat /\ ~(h >= pos + 1)
      BY <1>a, <1>c DEF LoopTyped
    <2> QED BY <2>1, <2>2, <2>3
  <1>1. CASE n > Len(Handlers)
    <2>1. \A h \in Hs : C(h) = d => SettledFor(d, e, h)'
      BY <1>1, <1>c, <1>e
    <2>2. Settled(d, e)'
      BY <2>1 DEF Settled, Kind
    <2> QED BY <1>1, <1>d, <2>2, AdvanceInv
  <1>2. CASE ~(n > Len(Handlers))
    <2>1. /\ pos' = n /\ attempt' = 0 /\ step' = "dispatch" /\ UNCHANGED <<cursor, polled, page>>
          /\ n \in Hs /\ C(n) = Polled /\ n >= pos + 1
      BY <1>2, <1>c, <1>d
    <2>2. Polled' = Polled /\ Here' = Here /\ Kind' = Kind /\ Offering'
      BY <2>1 DEF Polled, Here, Kind, Offering
    <2>3. LedgerTyped' /\ LoopTyped'
      BY <1>a, <1>c, <2>1, <2>2 DEF LedgerTyped, LoopTyped
    <2>4. PositionsRight'
      BY <1>a, <2>1, <2>2 DEF PositionsRight
    <2>5. CursorBehindSettled'
      <3>1. ASSUME NEW c \in Contract, NEW i \in 1..cursor'[c] PROVE Settled(c, i)'
        <4>1. i \in 1..MaxEffects[c] /\ i \in 1..cursor[c]
          BY <1>a, <2>1 DEF LedgerTyped, LoopTyped
        <4>2. Settled(c, i)
          BY <4>1 DEF ListenerInv, CursorBehindSettled
        <4> QED BY <4>1, <4>2, <1>a, SettledStays
      <3>2. \A h \in Hs : C(h) = Polled' /\ h < pos' => SettledFor(Polled, Here, h)'
        BY <1>e, <2>1, <2>2 DEF SettledFor, Finished
      <3> QED BY <3>1, <3>2 DEF CursorBehindSettled
    <2>6. OfferedOnce'
      <3> SUFFICES ASSUME NEW h \in Hs, NEW i \in Effect(h)
                   PROVE  delivered'[h][i] <= restarts \/ (Offered(h, i)' /\ delivered'[h][i] <= 1 + restarts)
        BY DEF OfferedOnce, Effect
      <3>1. delivered[h][i] \in Nat /\ restarts \in Nat
        BY <1>a DEF SinksTyped, CountsTyped
      <3>2. delivered[h][i] <= restarts \/ (Offered(h, i) /\ delivered[h][i] <= 1 + restarts)
        BY DEF ListenerInv, OfferedOnce
      <3>3. Offered(h, i) => Offered(h, i)'
        BY <1>c, <2>1, <2>2 DEF Offered
      <3>4. CASE delivered'[h][i] = delivered[h][i]
        BY <3>2, <3>3, <3>4
      <3>5. CASE h = pos /\ i = Here /\ delivered'[h][i] = delivered[h][i] + 1
        <4>1. C(h) = Polled
          BY <1>a, <3>5 DEF PositionsRight
        <4>2. ~Offered(h, i) /\ Offered(h, i)'
          BY <1>b, <2>1, <2>2, <3>5, <4>1 DEF Offered
        <4> QED BY <3>1, <3>2, <3>5, <4>2
      <3> QED BY <3>4, <3>5 DEF RecordsGrow
    <2> QED BY <1>a, <2>3, <2>4, <2>5, <2>6 DEF ListenerInv, ListenerTyped
  <1> QED BY <1>1, <1>2

(* captureFailure: the broken effect is in the dead-letter queue, or missed for good. *)
LEMMA CapturesFacts ==
  ASSUME ListenerInv, NEW x, Captures(x), x[1] \in Contract, x[2] \in 1..Len(ledger[x[1]]), x[3] \in Hs \cup {0},
         UNCHANGED <<ledger, health, delivered, restarts>>
  PROVE  SinksTyped' /\ CountsTyped' /\ RecordsGrow /\ x \in captured' \cup missed'
  <1>a. SinksTyped /\ CountsTyped
    BY DEF ListenerInv, ListenerTyped
  <1>b. /\ captured' \cup missed' = captured \cup missed \cup {x}
        /\ captured \subseteq captured' /\ missed \subseteq missed'
    BY DEF Captures
  <1>c. faults' = faults \/ (faults < MaxFaults /\ faults' = faults + 1)
    BY DEF Captures, Fault
  <1>1. SinksTyped'
    BY <1>a, <1>b DEF SinksTyped
  <1>2. CountsTyped'
    BY <1>a, <1>c, ContractFacts DEF CountsTyped
  <1> QED BY <1>1, <1>2, <1>b DEF RecordsGrow

LEMMA ParseFailureInv == ASSUME ListenerInv, ParseFailure PROVE ListenerInv'
  <1> DEFINE x == <<Polled, Here, 0>>
  <1>1. Offering /\ Kind = "malformed" /\ Captures(x) /\ Advance /\ UNCHANGED <<ledger, health, delivered, restarts>>
    BY DEF ParseFailure, Offering
  <1>2. x[1] \in Contract /\ x[2] \in 1..Len(ledger[x[1]]) /\ x[3] \in Hs \cup {0}
    BY <1>1, HereFacts DEF ListenerInv
  <1>3. PICK d, e : d = Polled /\ e = Here
    OBVIOUS
  <1>4. SinksTyped' /\ CountsTyped' /\ RecordsGrow /\ <<d, e, 0>> \in captured' \cup missed'
    <2> HIDE DEF x
    <2>1. SinksTyped' /\ CountsTyped' /\ RecordsGrow /\ x \in captured' \cup missed'
      BY <1>1, <1>2, CapturesFacts
    <2> QED BY <2>1, <1>3 DEF x
  <1>5. Settled(d, e)'
    BY <1>1, <1>3, <1>4 DEF Settled, Kind
  <1> QED BY <1>1, <1>3, <1>4, <1>5, AdvanceInv

(* Nobody wants the effect, or every handler of it is behind pos. *)
LEMMA IgnoreInv == ASSUME ListenerInv, Ignore PROVE ListenerInv'
  <1>1. /\ Offering /\ Advance /\ UNCHANGED <<ledger, health, delivered, captured, missed, restarts, faults>>
        /\ Kind = "other" \/ (Kind = "event" /\ pos > Len(Handlers))
    BY DEF Ignore, Offering, sinkVars
  <1>2. SinksTyped' /\ CountsTyped' /\ RecordsGrow
    BY <1>1 DEF ListenerInv, ListenerTyped, SinksTyped, CountsTyped, RecordsGrow
  <1>3. PICK d, e : d = Polled /\ e = Here
    OBVIOUS
  <1>4. Settled(d, e)
    <2>1. CASE Kind = "other"
      BY <1>3, <2>1 DEF Settled, Kind
    <2>2. CASE Kind = "event" /\ pos > Len(Handlers)
      <3>1. \A h \in Hs : h < pos
        BY <2>2, ContractFacts DEF ListenerInv, ListenerTyped, LoopTyped
      <3> QED BY <1>1, <1>3, <2>2, <3>1 DEF ListenerInv, CursorBehindSettled, Settled, Kind
    <2> QED BY <1>1, <2>1, <2>2
  <1>5. Settled(d, e)'
    BY <1>1, <1>4 DEF Settled, SettledFor, Finished
  <1> QED BY <1>1, <1>2, <1>3, <1>5, AdvanceInv

LEMMA HandledInv == ASSUME ListenerInv, Handled PROVE ListenerInv'
  <1> USE ContractFacts
  <1>1. /\ Offering /\ Kind = "event" /\ pos \in Hs /\ MoveOn
        /\ UNCHANGED <<ledger, health, captured, missed, restarts, faults>>
        /\ delivered' = [delivered EXCEPT ![pos][Here] = @ + 1]
    BY DEF Handled, Handling, Offering
  <1>2. SinksTyped /\ CountsTyped /\ PositionsRight /\ LoopTyped
    BY DEF ListenerInv, ListenerTyped
  <1>3. Here \in Effect(pos)
    BY <1>1, <1>2, HereFacts DEF ListenerInv, PositionsRight
  <1>4. /\ DOMAIN delivered' = Hs
        /\ \A h \in Hs : delivered'[h] = IF h = pos THEN [delivered[h] EXCEPT ![Here] = @ + 1] ELSE delivered[h]
    BY <1>1, <1>2 DEF SinksTyped
  <1>5. \A h \in Hs : /\ delivered'[h] \in [Effect(h) -> Nat]
                       /\ \A i \in Effect(h) : delivered'[h][i] = IF h = pos /\ i = Here THEN delivered[h][i] + 1
                                                                   ELSE delivered[h][i]
    BY <1>2, <1>3, <1>4 DEF SinksTyped
  <1>6. SinksTyped' /\ CountsTyped'
    BY <1>1, <1>2, <1>4, <1>5 DEF SinksTyped, CountsTyped, Effect
  <1>7. RecordsGrow
    BY <1>1, <1>5 DEF RecordsGrow
  <1>8. PICK d, e, g : d = Polled /\ e = Here /\ g = pos
    OBVIOUS
  <1>9. SettledFor(d, e, g)'
    <2>1. delivered[pos][Here] \in Nat
      BY <1>1, <1>2, <1>3 DEF SinksTyped
    <2>2. delivered'[g][e] > 0
      BY <1>1, <1>3, <1>5, <1>8, <2>1
    <2> QED BY <2>2 DEF SettledFor, Finished
  <1> QED BY <1>1, <1>6, <1>7, <1>8, <1>9, MoveOnInv

LEMMA DroppedInv == ASSUME ListenerInv, Dropped PROVE ListenerInv'
  <1> USE ContractFacts
  <1>1. /\ Offering /\ Kind = "event" /\ pos \in Hs /\ MoveOn
        /\ UNCHANGED <<ledger, health, delivered, captured, restarts>>
        /\ missed' = missed \cup {<<Polled, Here, pos>>}
        /\ faults < MaxFaults /\ faults' = faults + 1
    BY DEF Dropped, Handling, Offering, Fault
  <1>2. SinksTyped /\ CountsTyped
    BY DEF ListenerInv, ListenerTyped
  <1>3. PICK d, e, g : d = Polled /\ e = Here /\ g = pos
    OBVIOUS
  <1>4. d \in Contract /\ e \in 1..Len(ledger[d]) /\ g \in Hs /\ missed' = missed \cup {<<d, e, g>>}
    BY <1>1, <1>3, HereFacts DEF ListenerInv
  <1>5. SinksTyped' /\ CountsTyped' /\ RecordsGrow
    <2>1. CountsTyped' /\ RecordsGrow
      BY <1>1, <1>2 DEF CountsTyped, RecordsGrow
    <2>2. SinksTyped'
      BY <1>1, <1>2, <1>4 DEF SinksTyped
    <2> QED BY <2>1, <2>2
  <1>6. SettledFor(d, e, g)'
    BY <1>4 DEF SettledFor
  <1> QED BY <1>1, <1>3, <1>5, <1>6, MoveOnInv

LEMMA CaptureHandlerFailureInv == ASSUME ListenerInv, CaptureHandlerFailure PROVE ListenerInv'
  <1> DEFINE x == <<Polled, Here, pos>>
  <1>1. /\ Offering /\ Kind = "event" /\ pos \in Hs
        /\ Captures(x) /\ MoveOn /\ UNCHANGED <<ledger, health, delivered, restarts>>
    BY DEF CaptureHandlerFailure, Offering, ListenerInv, PositionsRight
  <1>2. x[1] \in Contract /\ x[2] \in 1..Len(ledger[x[1]]) /\ x[3] \in Hs \cup {0}
    BY <1>1, HereFacts DEF ListenerInv
  <1>3. PICK d, e, g : d = Polled /\ e = Here /\ g = pos
    OBVIOUS
  <1>4. SinksTyped' /\ CountsTyped' /\ RecordsGrow /\ <<d, e, g>> \in captured' \cup missed'
    <2> HIDE DEF x
    <2>1. SinksTyped' /\ CountsTyped' /\ RecordsGrow /\ x \in captured' \cup missed'
      BY <1>1, <1>2, CapturesFacts
    <2> QED BY <2>1, <1>3 DEF x
  <1>5. SettledFor(d, e, g)'
    BY <1>4 DEF SettledFor, Finished
  <1> QED BY <1>1, <1>3, <1>4, <1>5, MoveOnInv

LEMMA HandlerFailsInv == ASSUME ListenerInv, HandlerFails PROVE ListenerInv'
  <1> USE ContractFacts
  <1>1. /\ Offering /\ Kind = "event" /\ pos \in Hs
        /\ UNCHANGED <<ledger, cursor, polled, page, pos, health, delivered, captured, missed, restarts>>
        /\ faults < MaxFaults /\ faults' = faults + 1
    BY DEF HandlerFails, Handling, Offering, Fault, sinkVars
  <1>2. step' \in {"dispatch", "capture"} /\ attempt' \in {0, attempt + 1}
    BY DEF HandlerFails, Handling
  <1>3. Offering' /\ Polled' = Polled /\ Here' = Here /\ Kind' = Kind
    BY <1>1, <1>2 DEF Offering, Polled, Here, Kind
  <1>4. LedgerTyped' /\ SinksTyped' /\ CountsTyped'
    BY <1>1 DEF ListenerInv, ListenerTyped, LedgerTyped, SinksTyped, CountsTyped
  <1>5. LoopTyped'
    BY <1>1, <1>2, <1>3 DEF ListenerInv, ListenerTyped, LoopTyped
  <1>6. PositionsRight'
    BY <1>1, <1>2, <1>3 DEF ListenerInv, PositionsRight
  <1>7. CursorBehindSettled'
    BY <1>1, <1>3 DEF ListenerInv, CursorBehindSettled, Settled, SettledFor, Finished
  <1>8. OfferedOnce'
    BY <1>1, <1>3 DEF ListenerInv, OfferedOnce, Offered, Effect
  <1> QED BY <1>4, <1>5, <1>6, <1>7, <1>8 DEF ListenerInv, ListenerTyped

(* eventListener.ts: for any contracts, handlers, page size, retries and restarts, *)
(* the cursor never passes an effect that a handler of it has neither finished nor *)
(* lost in one of the two ways the code accepts, and only restarts repeat effects. *)
THEOREM CursorsAreSound == ListenerSpec => []CursorSound
  <1>1. ListenerInv /\ [ListenerNext]_listenerVars => ListenerInv'
    <2> SUFFICES ASSUME ListenerInv, [ListenerNext]_listenerVars PROVE ListenerInv'
      OBVIOUS
    <2>1. CASE UNCHANGED listenerVars
      <3>1. /\ UNCHANGED <<ledger, cursor, step, polled, page, pos, attempt, health, delivered, captured, missed,
                            restarts, faults>>
        BY <2>1 DEF listenerVars, loopVars, sinkVars
      <3>2. ListenerTyped'
        BY <3>1 DEF ListenerInv, ListenerTyped, LedgerTyped, LoopTyped, SinksTyped, CountsTyped, Polled, Effect
      <3>3. PositionsRight' /\ CursorBehindSettled'
        BY <3>1 DEF ListenerInv, PositionsRight, CursorBehindSettled, Settled, SettledFor, Finished, Offering,
                    Polled, Kind, Here
      <3>4. OfferedOnce'
        BY <3>1 DEF ListenerInv, OfferedOnce, Offered, Offering, Polled, Here, Effect
      <3> QED BY <3>2, <3>3, <3>4 DEF ListenerInv
    <2>2. CASE Listen \/ Restart
      BY <2>2, FetchInv, RetryInv, RestartInv, ParseFailureInv, IgnoreInv, HandledInv, DroppedInv,
         CaptureHandlerFailureInv, HandlerFailsInv DEF Listen
    <2> QED BY <2>1, <2>2, EmitInv DEF ListenerNext
  <1>2. ListenerInv => CursorSound
    <2> SUFFICES ASSUME ListenerInv PROVE CursorSound
      OBVIOUS
    <2>1. ListenerTypeOK
      BY TypedIsTypeOK DEF ListenerInv
    <2>2. \A c \in Contract : \A i \in 1..cursor[c] : ledger[c][i] \in Kinds /\ Settled(c, i)
      BY DEF ListenerInv, ListenerTyped, LedgerTyped, LoopTyped, CursorBehindSettled
    <2>3. \A c \in Contract : \A i \in 1..cursor[c] :
             CASE ledger[c][i] = "other"     -> TRUE
               [] ledger[c][i] = "malformed" -> <<c, i, 0>> \in captured \cup missed
               [] ledger[c][i] = "event"     -> \A h \in Hs : Handlers[h].contract = c =>
                                                   Finished(c, i, h) \/ <<c, i, h>> \in missed
      BY <2>2 DEF Settled, SettledFor, Kinds, C
    <2>4. \A h \in Hs : \A i \in Effect(h) : delivered[h][i] <= 1 + restarts
      <3> SUFFICES ASSUME NEW h \in Hs, NEW i \in Effect(h) PROVE delivered[h][i] <= 1 + restarts
        OBVIOUS
      <3>1. delivered[h][i] \in Nat /\ restarts \in Nat
        BY DEF ListenerInv, ListenerTyped, SinksTyped, CountsTyped
      <3> QED BY <3>1 DEF ListenerInv, OfferedOnce
    <2> QED BY <2>1, <2>3, <2>4 DEF CursorSound
  <1> QED BY <1>1, <1>2, ListenerInitInv, PTL DEF ListenerSpec
=============================================================================
