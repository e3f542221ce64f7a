---------------------------- MODULE Allocation ----------------------------
(***************************************************************************)
(* Investment strategies: what is deployed in them, within their policy    *)
(* limits, and the yield accrued on it.  allocateToStrategy and            *)
(* deallocateFromStrategy read the row and write it back in a transaction  *)
(* that does not lock what it read.  The accrual job of every instance     *)
(* runs at start and then daily, under the job lock, which it gives back   *)
(* when it is done; it records each credit in memory, then as a row.       *)
(***************************************************************************)
EXTENDS Naturals, Sequences, FiniteSets

CONSTANTS
    Strategy,
    Change,      \* allocations and deallocations under way at the same time
    Server, NoServer,
    PolicyLimit, \* policyLimitUsd
    MaxLedger,   \* MAX_LEDGER_ENTRIES
    MaxPasses    \* bound: accrual passes in all

ASSUME AllocationAssumption ==
    /\ NoServer \notin Server /\ PolicyLimit \in Nat \ {0}
    /\ MaxLedger \in Nat \ {0} /\ MaxPasses \in Nat /\ IsFiniteSet(Strategy)

VARIABLES
    running,     \* the strategies with status "active"
    deployed,   \* deployedNotionalUsd
    xpc,        \* "new", "update", "done", "refused"
    change,     \* [kind, of, amount]
    was,        \* what the transaction read
    holder,     \* of the lock yield-accrual
    due,        \* servers whose scheduler is to run a pass
    left,       \* per server, the principals of the strategies its pass still has to credit
    posting,    \* per server, the strategy whose row is about to be created, or none: a set
    ledger,     \* the in-memory ledger of each server, of <<strategy, amount>>
    posted,     \* accrual rows of each strategy
    passes,
    \* what happened, for the properties
    granted,    \* allocated less released
    crossed,    \* strategies two changes of which overlapped
    credited    \* credits recorded in memory, by any server, for each strategy

allocationVars == <<running, deployed, xpc, change, was, holder, due, left, posting, ledger, posted, passes,
                    granted, crossed, credited>>

AllocationTypeOK ==
    /\ running \subseteq Strategy /\ crossed \subseteq Strategy /\ due \subseteq Server
    /\ deployed \in [Strategy -> Nat] /\ posted \in [Strategy -> Nat] /\ credited \in [Strategy -> Nat]
    /\ xpc \in [Change -> {"new", "update", "done", "refused"}]
    /\ holder \in Server \cup {NoServer} /\ passes \in 0..MaxPasses

AllocationInit ==
    /\ running = Strategy /\ deployed = [s \in Strategy |-> 0] /\ granted = deployed
    /\ xpc = [c \in Change |-> "new"] /\ was = [c \in Change |-> 0]
    /\ change \in [Change -> [kind : {"allocate", "deallocate"}, of : Strategy, amount : 0..PolicyLimit]]
    /\ holder = NoServer /\ due = Server /\ left = [v \in Server |-> <<>>] /\ posting = [v \in Server |-> {}]
    /\ ledger = [v \in Server |-> <<>>] /\ posted = deployed /\ credited = deployed /\ passes = 0 /\ crossed = {}

accrualVars == <<holder, due, left, posting, ledger, posted, passes, credited>>

-----------------------------------------------------------------------------
(* An administrator pauses or resumes a strategy. *)
PauseOrResume(s) ==
    /\ running' \in {running \cup {s}, running \ {s}} /\ running' # running
    /\ UNCHANGED <<deployed, xpc, change, was, granted, crossed>> /\ UNCHANGED accrualVars

(* Mutation: the limit is compared with what is deployed, without the amount. *)
BelowLimit(s, a) == deployed[s] <= PolicyLimit

Fits(s, a) == deployed[s] + a <= PolicyLimit

(* parseFiniteAmountUsd and the checks on the row as it is read. *)
allocateToStrategy(c) ==
    /\ xpc[c] = "new" /\ change[c].kind = "allocate"
    /\ LET s == change[c].of
       IN xpc' = [xpc EXCEPT ![c] =
             IF change[c].amount > 0 /\ s \in running /\ Fits(s, change[c].amount) THEN "update" ELSE "refused"]
    /\ was' = [was EXCEPT ![c] = deployed[change[c].of]]
    /\ UNCHANGED <<running, deployed, change, granted, crossed>> /\ UNCHANGED accrualVars

deallocateFromStrategy(c) ==
    /\ xpc[c] = "new" /\ change[c].kind = "deallocate"
    /\ xpc' = [xpc EXCEPT ![c] = IF change[c].amount > 0 THEN "update" ELSE "refused"]
    /\ was' = [was EXCEPT ![c] = deployed[change[c].of]]
    /\ UNCHANGED <<running, deployed, change, granted, crossed>> /\ UNCHANGED accrualVars

(* From n, allocated or released down to zero. *)
After(c, n) ==
    IF change[c].kind = "allocate" THEN n + change[c].amount
    ELSE IF change[c].amount > n THEN 0 ELSE n - change[c].amount

UpdateStrategy(c) ==
    /\ xpc[c] = "update" /\ xpc' = [xpc EXCEPT ![c] = "done"]
    /\ LET s == change[c].of
       IN /\ deployed' = [deployed EXCEPT ![s] = After(c, was[c])]
          /\ granted'  = [granted EXCEPT ![s] = After(c, @)]
          /\ crossed'  = IF was[c] # deployed[s] THEN crossed \cup {s} ELSE crossed
    /\ UNCHANGED <<running, change, was>> /\ UNCHANGED accrualVars

(* The transaction fails and is rolled back. *)
RollBack(c) ==
    /\ xpc[c] = "update" /\ xpc' = [xpc EXCEPT ![c] = "refused"]
    /\ UNCHANGED <<running, deployed, change, was, granted, crossed>> /\ UNCHANGED accrualVars

changeVars == <<running, deployed, xpc, change, was, granted, crossed>>

-----------------------------------------------------------------------------
(* runOnce without the lock. *)
SkipPass(v) ==
    /\ v \in due /\ holder # NoServer /\ left[v] = <<>> /\ posting[v] = {}
    /\ due' = due \ {v}
    /\ UNCHANGED <<holder, left, posting, ledger, posted, passes, credited>> /\ UNCHANGED changeVars

(* Mutation: every strategy accrues. *)
AnyStatus == Strategy

Accruing == {s \in running : deployed[s] > 0}

(* runOnce takes the lock and reads the strategies. *)
RunOnce(v) ==
    /\ v \in due /\ holder = NoServer /\ passes < MaxPasses
    /\ due' = due \ {v} /\ holder' = v /\ passes' = passes + 1
    /\ \E q \in [1..Cardinality(Accruing) -> Accruing] :
          /\ \A i, j \in DOMAIN q : q[i] = q[j] => i = j
          /\ left' = [left EXCEPT ![v] = [i \in DOMAIN q |-> <<q[i], deployed[q[i]]>>]]
    /\ UNCHANGED <<posting, ledger, posted, credited>> /\ UNCHANGED changeVars

(* recordYield keeps the newest MAX_LEDGER_ENTRIES. *)
recordYield(l, e) == IF Len(l) = MaxLedger THEN Append(Tail(l), e) ELSE Append(l, e)

(* accrueFromStrategies: the credit goes into the ledger first. *)
accrueFromStrategies(v) ==
    /\ left[v] # <<>> /\ posting[v] = {}
    /\ LET e == Head(left[v])
       IN /\ ledger' = [ledger EXCEPT ![v] = recordYield(@, e)]
          /\ credited' = [credited EXCEPT ![e[1]] = @ + 1]
          /\ posting' = [posting EXCEPT ![v] = {e[1]}]
    /\ left' = [left EXCEPT ![v] = Tail(@)]
    /\ UNCHANGED <<holder, due, posted, passes>> /\ UNCHANGED changeVars

(* The accrual row is created, or the error is logged and the pass goes on. *)
PersistAccrual(v) ==
    /\ posting[v] # {} /\ posting' = [posting EXCEPT ![v] = {}]
    /\ \/ posted' = [s \in Strategy |-> IF s \in posting[v] THEN posted[s] + 1 ELSE posted[s]]
       \/ UNCHANGED posted
    /\ UNCHANGED <<holder, due, left, ledger, passes, credited>> /\ UNCHANGED changeVars

(* releaseJobLock, also when reading the strategies failed. *)
EndPass(v) ==
    /\ holder = v /\ left[v] = <<>> /\ posting[v] = {}
    /\ holder' = NoServer
    /\ UNCHANGED <<due, left, posting, ledger, posted, passes, credited>> /\ UNCHANGED changeVars

(* A day later, or, for one server, after a restart: a pass that was under way *)
(* and the ledger are gone, its lock expires.                                  *)
DayPasses ==
    /\ due # Server /\ holder = NoServer /\ due' = Server
    /\ UNCHANGED <<holder, left, posting, ledger, posted, passes, credited>> /\ UNCHANGED changeVars

RestartServer(v) ==
    /\ passes > 0 /\ (v \notin due \/ holder = v)
    /\ due' = due \cup {v} /\ left' = [left EXCEPT ![v] = <<>>] /\ posting' = [posting EXCEPT ![v] = {}]
    /\ ledger' = [ledger EXCEPT ![v] = <<>>]
    /\ \/ holder = v /\ holder' = NoServer
       \/ UNCHANGED holder
    /\ UNCHANGED <<posted, passes, credited>> /\ UNCHANGED changeVars

AllocationNext ==
    \/ \E s \in Strategy : PauseOrResume(s)
    \/ \E c \in Change : allocateToStrategy(c) \/ deallocateFromStrategy(c) \/ UpdateStrategy(c) \/ RollBack(c)
    \/ \E v \in Server : SkipPass(v) \/ RunOnce(v) \/ accrueFromStrategies(v) \/ PersistAccrual(v) \/ EndPass(v)
    \/ DayPasses \/ \E v \in Server : RestartServer(v)

AllocationSpec == AllocationInit /\ [][AllocationNext]_allocationVars

-----------------------------------------------------------------------------
(* A strategy never has more deployed than its policy allows, and, unless two    *)
(* changes of it overlapped, exactly what was allocated less what was released;  *)
(* a strategy gets at most one credit from a pass, each row of it has its credit *)
(* in memory, no credit is for more than the limit, and the ledger stays         *)
(* within its size, whichever servers run their passes, fail and restart.        *)
DeploymentSound ==
    /\ AllocationTypeOK
    /\ \A s \in Strategy :
          /\ deployed[s] <= PolicyLimit
          /\ s \notin crossed => deployed[s] = granted[s]
          /\ posted[s] <= credited[s] /\ credited[s] <= passes
    /\ \A v \in Server :
          /\ Len(ledger[v]) <= MaxLedger
          /\ \A i \in DOMAIN ledger[v] : ledger[v][i][2] \in 1..PolicyLimit
============================================================================
