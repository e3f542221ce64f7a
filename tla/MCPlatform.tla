------------------------------ MODULE MCPlatform ------------------------------
(* The models of what every service stands on, for TLC in one run: the circuit  *)
(* breaker, the job lock, the event listener, the life of the process and its   *)
(* ids.  part says which of them moves.                                         *)
EXTENDS CircuitBreaker, JobLock, EventListener, Lifecycle, IdGenerator, TLC

CONSTANTS burning, vault

VARIABLE part

PlatformInit ==
    /\ part \in {"breaker", "lock", "events", "life", "ids"}
    /\ Init /\ JobLockInit /\ ListenerInit /\ LifecycleInit /\ IdGeneratorInit

PlatformNext ==
    /\ UNCHANGED part
    /\ \/ part = "breaker" /\ Next /\ UNCHANGED <<jobLockVars, listenerVars, lifeVars, idVars>>
       \/ part = "lock" /\ JobLockNext /\ UNCHANGED <<vars, listenerVars, lifeVars, idVars>>
       \/ part = "events" /\ ListenerNext /\ UNCHANGED <<vars, jobLockVars, lifeVars, idVars>>
       \/ part = "life" /\ LifecycleNext /\ UNCHANGED <<vars, jobLockVars, listenerVars, idVars>>
       \/ part = "ids" /\ IdGeneratorNext /\ UNCHANGED <<vars, jobLockVars, listenerVars, lifeVars>>

PlatformSpec ==
    /\ PlatformInit /\ [][PlatformNext]_<<part, vars, jobLockVars, listenerVars, lifeVars, idVars>>
    \* the fairness of the breaker's FairSpec, of JobLockFairSpec and of ListenerFairSpec
    /\ WF_vars(part = "breaker" /\ Tick)
    /\ \A c \in Caller : /\ WF_vars(part = "breaker" /\ (Admit(c) \/ Refuse(c)))
                         /\ WF_vars(part = "breaker" /\ Answer(c))
    /\ WF_jobLockVars(part = "lock" /\ LockTick) /\ WF_jobLockVars(part = "lock" /\ Expire)
    /\ \A i \in Instance : WF_jobLockVars(part = "lock" /\ (EndWork(i) \/ releaseJobLock(i)))
    /\ WF_jobLockVars(part = "lock" /\ \E i \in Instance : acquireJobLock(i))
    /\ WF_listenerVars(part = "events" /\ Listen)

(* A contract with two handlers, one of each kind, and one with a single one. *)
TwoContracts  == <<burning, vault>>
ThreeHandlers == <<[contract |-> burning, kind |-> "lookup"],
                   [contract |-> vault, kind |-> "swallow"],
                   [contract |-> burning, kind |-> "swallow"]>>

TwoAndOne == (burning :> 2 @@ vault :> 1)

(* RunsAgain, where the lock is the part that moves. *)
JobsRunAgain == part = "lock" => RunsAgain
===============================================================================
