------------------------------- MODULE JobLock -------------------------------
(***************************************************************************)
(* utils/jobLock.ts, and the scheduled jobs (oracle update, salaries,      *)
(* rebalancing, yield accrual) that run under it: each instance of the     *)
(* backend tries the lock at every tick of its timer, works, and releases. *)
(* The lock is a MongoDB document named after the job; it does not name    *)
(* its owner, and a TTL index removes it once it expired.                  *)
(***************************************************************************)
EXTENDS Naturals, FiniteSets

CONSTANTS
    Instance,    \* instances of the backend
    None,
    Ttl,         \* LOCK_TTL_S, in ticks
    MaxRun,      \* how many ticks the work may take
    LockFaults,      \* kinds of fault: "mongo", "process"
    MaxLockFaults    \* bound: how many of them

ASSUME JobLockAssumption ==
    /\ None \notin Instance
    /\ Ttl \in Nat \ {0} /\ MaxRun \in Nat
    /\ LockFaults \subseteq {"mongo", "process"}
    /\ MaxLockFaults \in Nat

VARIABLES
    lock,      \* the job_locks document: the instance that inserted it, or None
    age,       \* ticks since it was inserted
    pc,        \* of an instance
    elapsed,   \* ticks its work has taken
    locked,    \* the instances whose acquire inserted the document
    overran,   \* history: some work took Ttl ticks or more
    mongoDown, \* history: some call failed
    lockFaults

runVars == <<pc, elapsed, locked>>
jobLockVars == <<lock, age, runVars, overran, mongoDown, lockFaults>>

JobLockTypeOK ==
    /\ lock \in Instance \cup {None}
    /\ age \in 0..Ttl
    /\ pc \in [Instance -> {"idle", "work", "release"}]
    /\ elapsed \in [Instance -> 0..MaxRun]
    /\ locked \subseteq Instance
    /\ overran \in BOOLEAN /\ mongoDown \in BOOLEAN
    /\ lockFaults \in 0..MaxLockFaults

JobLockInit ==
    /\ lock = None /\ age = 0
    /\ pc = [i \in Instance |-> "idle"]
    /\ elapsed = [i \in Instance |-> 0]
    /\ locked = {}
    /\ overran = FALSE /\ mongoDown = FALSE
    /\ lockFaults = 0

JobGoto(i, l) == pc' = [pc EXCEPT ![i] = l]

Mishap(kind) ==
    /\ kind \in LockFaults
    /\ lockFaults < MaxLockFaults
    /\ lockFaults' = lockFaults + 1

-----------------------------------------------------------------------------
(* findOneAndUpdate with $setOnInsert returns null: the document is new. *)
Acquired == lock = None

(* acquireJobLock; an instance that does not get it skips the run. *)
acquireJobLock(i) ==
    /\ pc[i] = "idle"
    /\ Acquired
    /\ lock' = i /\ age' = 0
    /\ locked' = locked \cup {i}
    /\ JobGoto(i, "work")
    /\ elapsed' = [elapsed EXCEPT ![i] = 0]
    /\ UNCHANGED <<overran, mongoDown, lockFaults>>

(* "Fail open": an error is taken for success. *)
FailOpen(i) ==
    /\ pc[i] = "idle"
    /\ Mishap("mongo")
    /\ mongoDown' = TRUE
    /\ JobGoto(i, "work")
    /\ elapsed' = [elapsed EXCEPT ![i] = 0]
    /\ UNCHANGED <<lock, age, locked, overran>>

(* The work ends or throws: finally. *)
EndWork(i) ==
    /\ pc[i] = "work"
    /\ JobGoto(i, "release")
    /\ UNCHANGED <<lock, age, elapsed, locked, overran, mongoDown, lockFaults>>

(* releaseJobLock: deleteOne by job name; an error is only logged. *)
releaseJobLock(i) ==
    /\ pc[i] = "release"
    /\ \/ lock' = None /\ UNCHANGED <<mongoDown, lockFaults>>
       \/ Mishap("mongo") /\ mongoDown' = TRUE /\ UNCHANGED lock
    /\ JobGoto(i, "idle")
    /\ locked' = locked \ {i}
    /\ UNCHANGED <<age, elapsed, overran>>

InstanceDies(i) ==
    /\ pc[i] # "idle"
    /\ Mishap("process")
    /\ JobGoto(i, "idle")
    /\ locked' = locked \ {i}
    /\ UNCHANGED <<lock, age, elapsed, overran, mongoDown>>

(* Mutation: the lock expires one tick early / never. *)
ExpiredEarly == age >= Ttl - 1
NeverExpired == FALSE

(* expiresAt is reached. *)
Expired == age >= Ttl

(* MongoDB's TTL monitor, at some time after the expiry. *)
Expire ==
    /\ lock # None /\ Expired
    /\ lock' = None
    /\ UNCHANGED <<age, runVars, overran, mongoDown, lockFaults>>

(* Time passes, for the document and for the work under way. *)
LockTick ==
    /\ \A i \in Instance : pc[i] # "idle" => elapsed[i] < MaxRun
    /\ age' = IF age < Ttl THEN age + 1 ELSE age
    /\ elapsed' = [i \in Instance |-> IF pc[i] # "idle" THEN elapsed[i] + 1 ELSE elapsed[i]]
    /\ overran' = (overran \/ \E i \in Instance : pc[i] # "idle" /\ elapsed'[i] >= Ttl)
    /\ UNCHANGED <<lock, pc, locked, mongoDown, lockFaults>>

JobLockNext ==
    \/ LockTick \/ Expire
    \/ \E i \in Instance : \/ acquireJobLock(i) \/ FailOpen(i) \/ EndWork(i)
                           \/ releaseJobLock(i) \/ InstanceDies(i)

JobLockSpec == JobLockInit /\ [][JobLockNext]_jobLockVars

(* Time passes, the TTL monitor runs, a job that started ends, and the timers *)
(* of the instances keep trying.                                              *)
JobLockFairSpec ==
    /\ JobLockSpec
    /\ WF_jobLockVars(LockTick) /\ WF_jobLockVars(Expire)
    /\ \A i \in Instance : WF_jobLockVars(EndWork(i) \/ releaseJobLock(i))
    /\ WF_jobLockVars(\E i \in Instance : acquireJobLock(i))

-----------------------------------------------------------------------------
Running == {i \in Instance : pc[i] = "work"}

(* "only one instance runs per tick" (salaryScheduleJob.ts:13), as long as no  *)
(* work outlives its lock and MongoDB answers, crashes included.               *)
OneRuns == JobLockTypeOK /\ (overran \/ mongoDown \/ Cardinality(Running) <= 1)

(* No crash and no failed release keeps the job from ever running again. *)
RunsAgain == []<>(Running # {})

(* jobLock.ts:64: "Release the lock held by this instance": an instance that    *)
(* got the lock and has not outlived it still has it.                          *)
HolderKeepsLock ==
    \A i \in locked : pc[i] = "work" /\ elapsed[i] < Ttl => lock = i
=============================================================================
