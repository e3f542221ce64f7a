---------------------------- MODULE BasketProofs ----------------------------
(***************************************************************************)
(* The models around the basket, for any number of rows, requests and      *)
(* faults.                                                                 *)
(***************************************************************************)
EXTENDS BasketMint, Allocation, Reserves, Oracle, Treasury, BasketDistribution, BasketWeights, Sums,
        FiniteSetTheorems, SequenceTheorems, TLAPS

(* The requests past the creation of the row, or past the claim. *)
Working == {"invoke", "complete", "audit", "svcFail", "fail"}

(* A request has its row from its arrival on, and minted before it completes. *)
RequestsRight ==
    \A h \in Handler : /\ pc[h] # "new" => tx[h] \in Tx
                       /\ pc[h] \in {"complete", "audit"} => h \in minted
                       /\ h \in minted => pc[h] \in (Working \ {"invoke"}) \cup {"done"}
                       /\ pc[h] = "claim" => h \notin Deposits

(* One deposit has created the row, and may mint for it or has. *)
Creator(d, t) == d \in Deposits /\ tx[d] = t /\ (pc[d] \in Working \/ d \in minted)
OneCreator ==
    \A t \in Tx : \A d \in Handler : Creator(d, t) =>
        status[t] # "none" /\ \A e \in Handler : Creator(e, t) => e = d

CompletedIsMinted == \A t \in Tx : status[t] = "completed" => \E h \in minted : tx[h] = t

(* Whoever is at audit has left the row completed. *)
ProcessingIsWorked ==
    \A t \in Tx : status[t] = "processing" /\ t \notin lost =>
        \E h \in Handler : tx[h] = t /\ pc[h] \in Working \ {"audit"}

MintInv == TypeOK /\ RequestsRight /\ OneCreator /\ CompletedIsMinted /\ ProcessingIsWorked

-----------------------------------------------------------------------------
LEMMA MintInitInv == Init => MintInv
  <1> SUFFICES ASSUME Init PROVE MintInv
    OBVIOUS
  <1> USE BasketAssumption DEF BasketAssumption, Init
  <1>1. paused \in BOOLEAN
    OBVIOUS
  <1>2. TypeOK
    BY <1>1 DEF TypeOK, Statuses, Steps
  <1>3. RequestsRight /\ OneCreator
    BY DEF RequestsRight, OneCreator, Creator, Working
  <1> QED BY <1>2, <1>3 DEF MintInv, CompletedIsMinted, ProcessingIsWorked

(* What a step of request h does, seen from the invariant: only h moves, and it     *)
(* writes at most the status of its row.                                           *)
StepOf(h) ==
    /\ UNCHANGED <<paused, tx>>
    /\ \E s \in Steps : Goto(h, s)
    /\ minted' \in {minted, minted \cup {h}}
    /\ UNCHANGED status \/ \E st \in Statuses \ {"none"} : SetStatus(h, st)
    /\ lost' \in {lost, lost \cup {tx[h]}} /\ faults' \in {faults, faults + 1} /\ faults' <= MaxFaults

LEMMA StepType == ASSUME TypeOK, NEW h \in Handler, tx[h] \in Tx, StepOf(h) PROVE TypeOK'
  <1> USE BasketAssumption DEF BasketAssumption, TypeOK
  <1>1. paused' \in BOOLEAN
    BY DEF StepOf
  <1>2. /\ pc' \in [Handler -> Steps] /\ tx' \in [Handler -> Tx \cup {NoTx}]
        /\ minted' \subseteq Handler /\ lost' \subseteq Tx
    BY DEF StepOf, Goto
  <1>3. status' \in [Tx -> Statuses]
    BY DEF StepOf, SetStatus
  <1>4. faults' \in 0..MaxFaults
    BY DEF StepOf
  <1> QED BY <1>1, <1>2, <1>3, <1>4

(* Every step of a request is one of these, and keeps the rest of the invariant. *)
LEMMA HandleStep == ASSUME MintInv, NEW h \in Handler, Handle(h) \/ Crash(h) PROVE StepOf(h) /\ tx[h] \in Tx
  <1> USE BasketAssumption DEF BasketAssumption, Goto, Steps, Statuses, faultVars
  <1>a. TypeOK /\ pc[h] # "new" /\ tx[h] \in Tx
    BY DEF MintInv, RequestsRight, Handle, CheckPaused, Find, CreateTx, MarkProcessing, Invoke, Complete, Audit,
           ServiceFail, FailTx, Crash
  <1>b. /\ faults \in 0..MaxFaults
        /\ \A k : Fault(k, h) => lost' \in {lost, lost \cup {tx[h]}} /\ faults' \in {faults, faults + 1}
                                 /\ faults' <= MaxFaults
        /\ UNCHANGED <<lost, faults>> => lost' \in {lost, lost \cup {tx[h]}} /\ faults' \in {faults, faults + 1}
                                 /\ faults' <= MaxFaults
    BY <1>a DEF Fault, TypeOK
  <1>1. CASE CheckPaused(h) \/ Find(h)
    BY <1>a, <1>b, <1>1 DEF StepOf, CheckPaused, Find
  <1>2. CASE CreateTx(h) \/ MarkProcessing(h)
    BY <1>a, <1>b, <1>2 DEF StepOf, CreateTx, MarkProcessing
  <1>3. CASE Invoke(h)
    BY <1>a, <1>b, <1>3 DEF StepOf, Invoke
  <1>4. CASE Complete(h) \/ Audit(h)
    BY <1>a, <1>b, <1>4 DEF StepOf, Complete, Audit
  <1>5. CASE ServiceFail(h) \/ FailTx(h)
    BY <1>a, <1>b, <1>5 DEF StepOf, ServiceFail, FailTx
  <1>6. CASE Crash(h)
    BY <1>a, <1>b, <1>6 DEF StepOf, Crash
  <1> QED BY <1>a, <1>1, <1>2, <1>3, <1>4, <1>5, <1>6 DEF Handle

LEMMA HandleRequests == ASSUME MintInv, NEW h \in Handler, Handle(h) \/ Crash(h) PROVE RequestsRight'
  <1> USE BasketAssumption DEF BasketAssumption, Goto, Working
  <1>a. TypeOK /\ RequestsRight /\ pc \in [Handler -> Steps] /\ UNCHANGED tx
    BY HandleStep DEF MintInv, TypeOK, StepOf
  <1>b. \A g \in Handler \ {h} : pc'[g] = pc[g] /\ (g \in minted' <=> g \in minted)
    BY <1>a, HandleStep DEF StepOf
  <1>c. pc[h] # "new"
    BY DEF Handle, CheckPaused, Find, CreateTx, MarkProcessing, Invoke, Complete, Audit, ServiceFail, FailTx, Crash
  <1>1. /\ pc'[h] \in {"complete", "audit"} => h \in minted'
        /\ h \in minted' => pc'[h] \in (Working \ {"invoke"}) \cup {"done"}
        /\ pc'[h] = "claim" => h \notin Deposits
    <2> USE <1>a DEF RequestsRight
    <2>1. CASE CheckPaused(h) \/ Find(h)
      BY <2>1 DEF CheckPaused, Find
    <2>2. CASE CreateTx(h) \/ MarkProcessing(h)
      BY <2>2 DEF CreateTx, MarkProcessing
    <2>3. CASE Invoke(h)
      BY <2>3 DEF Invoke
    <2>4. CASE Complete(h) \/ Audit(h)
      BY <2>4 DEF Complete, Audit
    <2>5. CASE ServiceFail(h) \/ FailTx(h) \/ Crash(h)
      BY <2>5 DEF ServiceFail, FailTx, Crash
    <2> QED BY <2>1, <2>2, <2>3, <2>4, <2>5 DEF Handle
  <1> QED BY <1>a, <1>b, <1>c, <1>1 DEF RequestsRight

(* A deposit becomes the row's creator only by creating it. *)
LEMMA HandleCreators == ASSUME MintInv, NEW h \in Handler, Handle(h) \/ Crash(h) PROVE OneCreator'
  <1> USE BasketAssumption DEF BasketAssumption, Goto, Working
  <1>a. /\ RequestsRight /\ OneCreator /\ UNCHANGED tx /\ pc \in [Handler -> Steps] /\ tx[h] \in Tx
        /\ status \in [Tx -> Statuses]
    BY HandleStep DEF MintInv, TypeOK, StepOf
  <1>b. \A g \in Handler \ {h} : \A t \in Tx : Creator(g, t)' <=> Creator(g, t)
    BY <1>a, HandleStep DEF StepOf, Creator
  <1>c. \A t \in Tx : status[t] # "none" => status'[t] # "none"
    BY <1>a, HandleStep DEF StepOf, SetStatus
  <1>1. \A t \in Tx : Creator(h, t)' =>
           Creator(h, t) \/ (status[t] = "none" /\ status'[t] = "pending")
    <2> SUFFICES ASSUME NEW t \in Tx, Creator(h, t)', ~Creator(h, t)
                 PROVE  status[t] = "none" /\ status'[t] = "pending"
      OBVIOUS
    <2>1. h \in Deposits /\ tx[h] = t /\ pc[h] \notin Working /\ h \notin minted
      BY <1>a DEF Creator
    <2>2. (pc'[h] \in Working \/ h \in minted') /\ pc[h] # "claim"
      BY <1>a, <2>1 DEF Creator, RequestsRight
    <2>3. CreateTx(h) /\ pc'[h] \in Working
      BY <1>a, <2>1, <2>2 DEF Handle, CheckPaused, Find, CreateTx, MarkProcessing, Invoke, Complete, Audit, ServiceFail,
         FailTx, Crash
    <2> QED BY <1>a, <2>1, <2>3 DEF CreateTx, SetStatus
  <1> SUFFICES ASSUME NEW t \in Tx, NEW d \in Handler, Creator(d, t)'
               PROVE  status'[t] # "none" /\ \A e \in Handler : Creator(e, t)' => e = d
    BY DEF OneCreator
  <1>2. CASE Creator(h, t)' /\ ~Creator(h, t)
    <2>1. \A e \in Handler : ~Creator(e, t)
      BY <1>1, <1>2, <1>a DEF OneCreator
    <2> QED BY <1>1, <1>2, <1>b, <2>1
  <1>3. CASE Creator(h, t)' => Creator(h, t)
    <2>1. \A e \in Handler : Creator(e, t)' => Creator(e, t)
      BY <1>3, <1>b
    <2> QED BY <2>1, <1>a, <1>c DEF OneCreator
  <1> QED BY <1>2, <1>3

(* What the row says, the requests bear out. *)
LEMMA HandleRows ==
  ASSUME MintInv, NEW h \in Handler, Handle(h) \/ Crash(h)
  PROVE  CompletedIsMinted' /\ ProcessingIsWorked'
  <1> USE BasketAssumption DEF BasketAssumption, Goto, Working
  <1>a. /\ RequestsRight /\ UNCHANGED tx /\ pc \in [Handler -> Steps] /\ tx[h] \in Tx
        /\ status \in [Tx -> Statuses] /\ minted \subseteq minted' /\ lost \subseteq lost'
    BY HandleStep DEF MintInv, TypeOK, StepOf
  <1>b. \A g \in Handler \ {h} : pc'[g] = pc[g]
    BY <1>a, HandleStep DEF StepOf
  <1>c. \A t \in Tx \ {tx[h]} : status'[t] = status[t]
    BY <1>a, HandleStep DEF StepOf, SetStatus
  <1>1. status'[tx[h]] = "completed" => status[tx[h]] = "completed" \/ h \in minted
    BY <1>a DEF RequestsRight, SetStatus, Handle, CheckPaused, Find, CreateTx, MarkProcessing, Invoke, Complete, Audit,
       ServiceFail, FailTx, Crash
  <1>2. CompletedIsMinted'
    BY <1>a, <1>c, <1>1 DEF MintInv, CompletedIsMinted
  <1>3. status'[tx[h]] = "processing" /\ tx[h] \notin lost' =>
           \/ pc'[h] \in Working \ {"audit"}
           \/ status[tx[h]] = "processing" /\ pc[h] \notin Working \ {"audit"}
    <2> USE <1>a DEF SetStatus, Fault
    <2>1. CASE CheckPaused(h) \/ Find(h)
      BY <2>1 DEF CheckPaused, Find
    <2>2. CASE CreateTx(h) \/ MarkProcessing(h)
      BY <2>2 DEF CreateTx, MarkProcessing
    <2>3. CASE Invoke(h)
      BY <2>3 DEF Invoke
    <2>4. CASE Complete(h) \/ Audit(h)
      BY <2>4 DEF Complete, Audit
    <2>5. CASE ServiceFail(h) \/ FailTx(h)
      BY <2>5 DEF ServiceFail, FailTx
    <2>6. CASE Crash(h)
      BY <2>6 DEF Crash
    <2> QED BY <2>1, <2>2, <2>3, <2>4, <2>5, <2>6 DEF Handle
  <1>4. ProcessingIsWorked'
    <2> SUFFICES ASSUME NEW t \in Tx, status'[t] = "processing", t \notin lost'
                 PROVE  \E g \in Handler : tx[g] = t /\ pc'[g] \in Working \ {"audit"}
      BY <1>a DEF ProcessingIsWorked
    <2>1. CASE t = tx[h] /\ pc'[h] \in Working \ {"audit"}
      BY <2>1
    <2>2. CASE t # tx[h] \/ (status[t] = "processing" /\ pc[h] \notin Working \ {"audit"})
      <3>1. PICK g \in Handler : tx[g] = t /\ pc[g] \in Working \ {"audit"}
        BY <1>a, <1>c, <2>2 DEF MintInv, ProcessingIsWorked
      <3>2. g # h
        BY <2>2, <3>1
      <3> QED BY <1>b, <3>1, <3>2
    <2> QED BY <1>3, <2>1, <2>2
  <1> QED BY <1>2, <1>4

LEMMA ArriveInv == ASSUME MintInv, NEW h \in Handler, NEW t \in Tx, Arrive(h, t) PROVE MintInv'
  <1> USE BasketAssumption DEF BasketAssumption, Goto, Working
  <1>a. /\ TypeOK /\ RequestsRight /\ UNCHANGED <<status, paused, minted, lost, faults>>
        /\ tx' = [tx EXCEPT ![h] = t] /\ pc[h] = "new" /\ h \notin minted
        /\ \/ pc' = [pc EXCEPT ![h] = "paused"]
           \/ pc' = [pc EXCEPT ![h] = "find"]
    BY DEF MintInv, RequestsRight, Arrive, faultVars
  <1>b. /\ \A g \in Handler \ {h} : tx'[g] = tx[g] /\ pc'[g] = pc[g]
        /\ tx'[h] = t /\ pc'[h] \in {"paused", "find"}
    BY <1>a DEF TypeOK
  <1>1. TypeOK'
    <2>1. paused' \in BOOLEAN
      BY <1>a DEF TypeOK
    <2>2. pc' \in [Handler -> Steps] /\ tx' \in [Handler -> Tx \cup {NoTx}]
      BY <1>a DEF TypeOK, Steps
    <2> QED BY <1>a, <2>1, <2>2 DEF TypeOK
  <1>2. RequestsRight'
    BY <1>a, <1>b DEF RequestsRight
  <1>3. \A g \in Handler, u \in Tx : Creator(g, u)' => Creator(g, u)
    BY <1>a, <1>b DEF Creator
  <1>4. OneCreator'
    BY <1>3, <1>a DEF MintInv, OneCreator
  <1>5. CompletedIsMinted' /\ ProcessingIsWorked'
    BY <1>a, <1>b DEF MintInv, TypeOK, CompletedIsMinted, ProcessingIsWorked
  <1> QED BY <1>1, <1>2, <1>4, <1>5 DEF MintInv

LEMMA MintNextInv == MintInv /\ [Next]_vars => MintInv'
  <1> SUFFICES ASSUME MintInv, [Next]_vars PROVE MintInv'
    OBVIOUS
  <1>1. ASSUME NEW h \in Handler, Handle(h) \/ Crash(h) PROVE MintInv'
    <2>1. TypeOK'
      BY <1>1, HandleStep, StepType DEF MintInv
    <2> QED BY <1>1, <2>1, HandleRequests, HandleCreators, HandleRows DEF MintInv
  <1>2. CASE TogglePause \/ UNCHANGED vars
    <2>1. UNCHANGED <<status, pc, tx, minted, lost, faults>>
      BY <1>2 DEF TogglePause, vars, faultVars
    <2>2. paused' \in BOOLEAN
      BY <1>2 DEF TogglePause, vars, MintInv, TypeOK
    <2>3. TypeOK'
      BY <2>1, <2>2 DEF MintInv, TypeOK
    <2>4. RequestsRight' /\ OneCreator' /\ CompletedIsMinted' /\ ProcessingIsWorked'
      BY <2>1 DEF MintInv, RequestsRight, OneCreator, Creator, CompletedIsMinted, ProcessingIsWorked
    <2> QED BY <2>3, <2>4 DEF MintInv
  <1> QED BY <1>1, <1>2, ArriveInv DEF Next

(* mintController.ts: for any overlap of deposits, confirmations, retries and      *)
(* faults, a deposit is minted at most once by the deposit path, a completed row   *)
(* has ACBU on chain, and only a lost database call or a crash strands a row.      *)
THEOREM BasketMintsAccounted == Spec => []MintsAccounted
  <1>1. MintInv => MintsAccounted
    <2> SUFFICES ASSUME MintInv, NEW t \in Tx
                 PROVE  /\ Cardinality(Mints(t) \cap Deposits) <= 1
                        /\ status[t] = "completed" => Mints(t) # {}
                        /\ status[t] = "processing" /\ t \notin lost =>
                              \E h \in Handler : tx[h] = t /\ pc[h] \in {"invoke", "complete", "audit", "svcFail", "fail"}
      BY DEF MintsAccounted, MintInv
    <2>1. Cardinality(Mints(t) \cap Deposits) <= 1
      <3>1. \A d, e \in Mints(t) \cap Deposits : d = e
        BY DEF MintInv, OneCreator, Creator, Mints, Handler
      <3>2. CASE Mints(t) \cap Deposits = {}
        BY <3>2, FS_EmptySet
      <3>3. CASE Mints(t) \cap Deposits # {}
        <4>1. PICK d : d \in Mints(t) \cap Deposits
          BY <3>3
        <4>2. Mints(t) \cap Deposits = {d}
          BY <3>1, <4>1
        <4>3. Cardinality({d}) = 1
          BY FS_Singleton
        <4> QED BY <4>2, <4>3
      <3> QED BY <3>2, <3>3
    <2>2. status[t] = "completed" => Mints(t) # {}
      BY DEF MintInv, CompletedIsMinted, Mints
    <2> QED BY <2>1, <2>2 DEF MintInv, ProcessingIsWorked, Working
  <1> QED BY <1>1, MintInitInv, MintNextInv, PTL DEF Spec

-----------------------------------------------------------------------------
(* Investment strategies. *)

Credit == Strategy \X (1 .. PolicyLimit)

(* A change that is to raise a strategy read a value it fits on; a strategy whose *)
(* changes did not overlap has what was granted.                                  *)
ChangesSound ==
    /\ running \subseteq Strategy /\ crossed \subseteq Strategy
    /\ deployed \in [Strategy -> 0 .. PolicyLimit] /\ granted \in [Strategy -> Nat]
    /\ xpc \in [Change -> {"new", "update", "done", "refused"}] /\ was \in [Change -> 0 .. PolicyLimit]
    /\ change \in [Change -> [kind : {"allocate", "deallocate"}, of : Strategy, amount : 0 .. PolicyLimit]]
    /\ \A c \in Change : xpc[c] = "update" /\ change[c].kind = "allocate" =>
          was[c] + change[c].amount <= PolicyLimit
    /\ \A s \in Strategy : s \notin crossed => deployed[s] = granted[s]

AccrualTyped ==
    /\ holder \in Server \cup {NoServer} /\ passes \in 0 .. MaxPasses /\ due \subseteq Server
    /\ left \in [Server -> Seq(Credit)] /\ posting \in [Server -> SUBSET Strategy]
    /\ ledger \in [Server -> Seq(Credit)] /\ \A v \in Server : Len(ledger[v]) <= MaxLedger
    /\ posted \in [Strategy -> Nat] /\ credited \in [Strategy -> Nat]

(* A pass runs under the lock; a strategy it has still to credit had no credit    *)
(* from it, and one whose row it is about to create has a credit without a row.   *)
PassSound(v) ==
    /\ left[v] # <<>> \/ posting[v] # {} => holder = v
    /\ \A i \in 1 .. Len(left[v]) : credited[left[v][i][1]] < passes
    /\ \A i, j \in 1 .. Len(left[v]) : left[v][i][1] = left[v][j][1] => i = j
    /\ \A s \in posting[v] : posted[s] < credited[s]

AccrualSound ==
    /\ AccrualTyped
    /\ \A v \in Server : PassSound(v)
    /\ \A s \in Strategy : posted[s] <= credited[s] /\ credited[s] <= passes

AllocationInv == ChangesSound /\ AccrualSound

LEMMA AllocationFacts ==
  /\ NoServer \notin Server /\ PolicyLimit \in Nat \ {0} /\ MaxLedger \in Nat \ {0} /\ MaxPasses \in Nat
  /\ IsFiniteSet(Strategy)
  BY AllocationAssumption

LEMMA AllocationInitInv == AllocationInit => AllocationInv
  <1> SUFFICES ASSUME AllocationInit PROVE AllocationInv
    OBVIOUS
  <1> USE AllocationFacts
  <1>1. ChangesSound
    BY DEF AllocationInit, ChangesSound
  <1>2. <<>> \in Seq(Credit) /\ Len(<<>>) = 0
    BY EmptySeq
  <1>3. AccrualTyped
    BY <1>2 DEF AllocationInit, AccrualTyped
  <1>4. ASSUME NEW v \in Server PROVE PassSound(v)
    BY <1>2 DEF AllocationInit, PassSound
  <1>5. \A s \in Strategy : posted[s] <= credited[s] /\ credited[s] <= passes
    BY DEF AllocationInit
  <1> QED BY <1>1, <1>3, <1>4, <1>5 DEF AccrualSound, AllocationInv

(* What a change makes of a value within the limit. *)
LEMMA AfterFacts ==
  ASSUME ChangesSound, NEW c \in Change, NEW n \in Nat
  PROVE  /\ After(c, n) \in Nat
         /\ (change[c].kind = "allocate" => n + change[c].amount <= PolicyLimit) /\ n <= PolicyLimit =>
               After(c, n) \in 0 .. PolicyLimit
  <1> USE AllocationFacts
  <1>1. change[c].amount \in Nat /\ change[c].kind \in {"allocate", "deallocate"}
    BY DEF ChangesSound
  <1> PICK a \in Nat : a = change[c].amount
    BY <1>1
  <1>2. CASE change[c].kind = "allocate"
    BY <1>2 DEF After
  <1>3. CASE change[c].kind # "allocate"
    BY <1>3 DEF After
  <1> QED BY <1>2, <1>3

LEMMA ReadKeeps ==
  ASSUME ChangesSound, NEW c \in Change, allocateToStrategy(c) \/ deallocateFromStrategy(c)
  PROVE  ChangesSound'
  <1> USE AllocationFacts
  <1> PICK s \in Strategy : s = change[c].of
    BY DEF ChangesSound
  <1> PICK d \in 0 .. PolicyLimit : d = deployed[s]
    BY DEF ChangesSound
  <1>1. /\ UNCHANGED <<running, deployed, change, granted, crossed>> /\ was' = [was EXCEPT ![c] = d]
    BY DEF allocateToStrategy, deallocateFromStrategy
  <1>2. PICK p \in {"update", "refused"} : xpc' = [xpc EXCEPT ![c] = p]
    BY DEF allocateToStrategy, deallocateFromStrategy
  <1>3. change[c].kind = "allocate" /\ p = "update" => d + change[c].amount <= PolicyLimit
    <2> SUFFICES ASSUME change[c].kind = "allocate", p = "update" PROVE d + change[c].amount <= PolicyLimit
      OBVIOUS
    <2>1. xpc'[c] = "update"
      BY <1>2 DEF ChangesSound
    <2>2. allocateToStrategy(c)
      BY DEF deallocateFromStrategy
    <2> QED BY <2>1, <2>2 DEF allocateToStrategy, Fits, ChangesSound
  <1>4. /\ was' \in [Change -> 0 .. PolicyLimit] /\ xpc' \in [Change -> {"new", "update", "done", "refused"}]
    BY <1>1, <1>2 DEF ChangesSound
  <1>5. \A e \in Change : xpc'[e] = "update" /\ change'[e].kind = "allocate" =>
          was'[e] + change'[e].amount <= PolicyLimit
    BY <1>1, <1>2, <1>3 DEF ChangesSound
  <1> QED BY <1>1, <1>4, <1>5 DEF ChangesSound

LEMMA UpdateStrategyKeeps ==
  ASSUME ChangesSound, NEW c \in Change, UpdateStrategy(c)
  PROVE  ChangesSound'
  <1> USE AllocationFacts
  <1> PICK s \in Strategy : s = change[c].of
    BY DEF ChangesSound
  <1>1. /\ xpc[c] = "update" /\ xpc' = [xpc EXCEPT ![c] = "done"]
        /\ deployed' = [deployed EXCEPT ![s] = After(c, was[c])]
        /\ granted'  = [granted EXCEPT ![s] = After(c, granted[s])]
        /\ crossed'  = IF was[c] # deployed[s] THEN crossed \cup {s} ELSE crossed
        /\ UNCHANGED <<running, change, was>>
    BY DEF UpdateStrategy
  <1>2. was[c] \in 0 .. PolicyLimit /\ granted[s] \in Nat /\ deployed[s] \in 0 .. PolicyLimit
    BY DEF ChangesSound
  <1>3. was[c] \in Nat /\ was[c] <= PolicyLimit
    BY <1>2
  <1>4. change[c].kind = "allocate" => was[c] + change[c].amount <= PolicyLimit
    BY <1>1 DEF ChangesSound
  <1>5. After(c, was[c]) \in 0 .. PolicyLimit /\ After(c, granted[s]) \in Nat
    BY <1>2, <1>3, <1>4, AfterFacts
  <1>6. deployed' \in [Strategy -> 0 .. PolicyLimit] /\ granted' \in [Strategy -> Nat]
    BY <1>1, <1>5 DEF ChangesSound
  <1>7. ASSUME NEW t \in Strategy, t \notin crossed' PROVE deployed'[t] = granted'[t]
    <2>1. CASE t # s
      BY <1>1, <1>7, <2>1 DEF ChangesSound
    <2>2. CASE t = s
      <3>1. was[c] = deployed[s] /\ s \notin crossed
        BY <1>1, <1>7, <2>2
      <3>2. was[c] = granted[s]
        BY <3>1 DEF ChangesSound
      <3> QED BY <1>1, <2>2, <3>2 DEF ChangesSound
    <2> QED BY <2>1, <2>2
  <1>8. crossed' \subseteq Strategy /\ xpc' \in [Change -> {"new", "update", "done", "refused"}]
    BY <1>1 DEF ChangesSound
  <1>9. \A e \in Change : xpc'[e] = "update" => xpc[e] = "update"
    BY <1>1 DEF ChangesSound
  <1> QED BY <1>1, <1>6, <1>7, <1>8, <1>9 DEF ChangesSound

LEMMA OtherChangesKeep ==
  ASSUME ChangesSound,
         \/ \E s \in Strategy : PauseOrResume(s)
         \/ \E c \in Change : RollBack(c)
         \/ UNCHANGED changeVars
  PROVE  ChangesSound'
  <1>1. CASE \E s \in Strategy : PauseOrResume(s)
    BY <1>1 DEF PauseOrResume, ChangesSound
  <1>2. CASE \E c \in Change : RollBack(c)
    <2> PICK c \in Change : RollBack(c)
      BY <1>2
    <2>1. /\ xpc' = [xpc EXCEPT ![c] = "refused"] /\ UNCHANGED <<running, deployed, change, was, granted, crossed>>
      BY DEF RollBack
    <2>2. /\ xpc' \in [Change -> {"new", "update", "done", "refused"}]
          /\ \A e \in Change : xpc'[e] = "update" => xpc[e] = "update"
      BY <2>1 DEF ChangesSound
    <2> QED BY <2>1, <2>2 DEF ChangesSound
  <1>3. CASE UNCHANGED changeVars
    BY <1>3 DEF changeVars, ChangesSound
  <1> QED BY <1>1, <1>2, <1>3

-----------------------------------------------------------------------------
(* The accrual passes. *)
LEMMA RestingPass ==
  ASSUME NEW v, left'[v] = <<>>, posting'[v] = {}
  PROVE  PassSound(v)'
  <1>1. Len(left'[v]) = 0
    BY EmptySeq
  <1> QED BY <1>1 DEF PassSound

LEMMA OneRunsAPass ==
  ASSUME AccrualSound, NEW v \in Server, NEW w \in Server, v # w,
         left[v] # <<>> \/ posting[v] # {} \/ holder = v
  PROVE  left[w] = <<>> /\ posting[w] = {}
  BY DEF AccrualSound, PassSound

LEMMA SchedulesKeep ==
  ASSUME AccrualSound,
         \/ UNCHANGED accrualVars
         \/ \E v \in Server : SkipPass(v)
         \/ DayPasses
  PROVE  AccrualSound'
  <1>1. UNCHANGED <<holder, left, posting, ledger, posted, passes, credited>> /\ due' \subseteq Server
    BY DEF accrualVars, SkipPass, DayPasses, AccrualSound, AccrualTyped
  <1>2. \A v \in Server : PassSound(v)'
    BY <1>1 DEF AccrualSound, PassSound
  <1> QED BY <1>1, <1>2 DEF AccrualSound, AccrualTyped

LEMMA RunOnceKeeps ==
  ASSUME ChangesSound, AccrualSound, NEW v \in Server, RunOnce(v)
  PROVE  AccrualSound'
  <1> USE AllocationFacts
  <1>1. Accruing \subseteq Strategy /\ \A s \in Accruing : deployed[s] \in 1 .. PolicyLimit
    BY DEF Accruing, ChangesSound
  <1>2. Cardinality(Accruing) \in Nat
    BY <1>1, FS_Subset, FS_CardinalityType
  <1> PICK n \in Nat : n = Cardinality(Accruing)
    BY <1>2
  <1> PICK q \in [1 .. n -> Accruing] :
          /\ \A i, j \in DOMAIN q : q[i] = q[j] => i = j
          /\ left' = [left EXCEPT ![v] = [i \in DOMAIN q |-> <<q[i], deployed[q[i]]>>]]
    BY DEF RunOnce
  <1>3. PICK l \in Seq(Credit) :
           /\ l = [i \in 1 .. n |-> <<q[i], deployed[q[i]]>>] /\ Len(l) = n
           /\ \A i \in 1 .. n : l[i][1] = q[i]
    <2>1. \A i \in 1 .. n : <<q[i], deployed[q[i]]>> \in Credit
      BY <1>1 DEF Credit
    <2>2. [i \in 1 .. n |-> <<q[i], deployed[q[i]]>>] \in [1 .. n -> Credit]
      BY <2>1
    <2> DEFINE l == [i \in 1 .. n |-> <<q[i], deployed[q[i]]>>]
    <2>3. /\ l \in Seq(Credit) /\ DOMAIN l = 1 .. n
          /\ \A i \in 1 .. n : l[i][1] = q[i]
      BY <2>2, SeqDef
    <2> HIDE DEF l
    <2>4. Len(l) = n
      BY <2>3, LenProperties
    <2> QED BY <2>3, <2>4 DEF l
  <1>4. left' = [left EXCEPT ![v] = l] /\ \A i, j \in 1 .. n : q[i] = q[j] => i = j
    BY <1>3
  <1>5. /\ v \in due /\ holder = NoServer /\ passes < MaxPasses /\ holder' = v /\ passes' = passes + 1
        /\ due' = due \ {v} /\ UNCHANGED <<posting, ledger, posted, credited>>
    BY DEF RunOnce
  <1>6. \A w \in Server : left[w] = <<>> /\ posting[w] = {}
    BY <1>5 DEF AccrualSound, PassSound
  <1>7. AccrualTyped'
    <2>1. left' \in [Server -> Seq(Credit)]
      BY <1>4 DEF AccrualSound, AccrualTyped
    <2> QED BY <2>1, <1>5 DEF AccrualSound, AccrualTyped
  <1>8. \A s \in Strategy : posted'[s] <= credited'[s] /\ credited'[s] <= passes'
    BY <1>5 DEF AccrualSound, AccrualTyped
  <1>9. ASSUME NEW w \in Server PROVE PassSound(w)'
    <2>1. CASE w # v
      <3>1. left'[w] = <<>> /\ posting'[w] = {}
        BY <1>4, <1>5, <1>6, <2>1 DEF AccrualSound, AccrualTyped
      <3> QED BY <3>1, RestingPass
    <2>2. CASE w = v
      <3>1. left'[w] = l /\ posting'[w] = {}
        BY <1>4, <1>5, <1>6, <2>2 DEF AccrualSound, AccrualTyped
      <3>2. \A i \in 1 .. n : l[i][1] \in Strategy
        BY <1>1, <1>3
      <3>3. \A i \in 1 .. n : credited'[l[i][1]] < passes'
        BY <3>2, <1>5 DEF AccrualSound, AccrualTyped
      <3>4. \A i, j \in 1 .. n : l[i][1] = l[j][1] => i = j
        BY <1>3, <1>4
      <3> QED BY <1>3, <1>5, <2>2, <3>1, <3>3, <3>4 DEF PassSound
    <2> QED BY <2>1, <2>2
  <1> QED BY <1>7, <1>8, <1>9 DEF AccrualSound

LEMMA RecordYieldFacts ==
  ASSUME NEW l \in Seq(Credit), Len(l) <= MaxLedger, NEW e \in Credit
  PROVE  recordYield(l, e) \in Seq(Credit) /\ Len(recordYield(l, e)) <= MaxLedger
  <1> USE AllocationFacts
  <1>1. Len(l) \in Nat
    BY LenProperties
  <1>2. CASE Len(l) = MaxLedger
    <2>1. l # <<>>
      BY <1>2, EmptySeq
    <2>2. Tail(l) \in Seq(Credit) /\ Len(Tail(l)) = Len(l) - 1
      BY <2>1, HeadTailProperties
    <2>3. Append(Tail(l), e) \in Seq(Credit) /\ Len(Append(Tail(l), e)) = Len(Tail(l)) + 1
      BY <2>2, AppendProperties
    <2> QED BY <1>1, <1>2, <2>2, <2>3 DEF recordYield
  <1>3. CASE Len(l) # MaxLedger
    <2>1. Append(l, e) \in Seq(Credit) /\ Len(Append(l, e)) = Len(l) + 1
      BY AppendProperties
    <2> QED BY <1>1, <1>3, <2>1 DEF recordYield
  <1> QED BY <1>2, <1>3

LEMMA AccrueKeeps ==
  ASSUME AccrualSound, NEW v \in Server, accrueFromStrategies(v)
  PROVE  AccrualSound'
  <1> USE AllocationFacts
  <1> PICK l \in Seq(Credit) : l = left[v]
    BY DEF AccrualSound, AccrualTyped
  <1>1. l # <<>> /\ posting[v] = {} /\ PassSound(v)
    BY DEF accrueFromStrategies, AccrualSound
  <1>2. /\ Head(l) \in Credit /\ Tail(l) \in Seq(Credit) /\ Len(Tail(l)) = Len(l) - 1
        /\ \A i \in 1 .. Len(Tail(l)) : Tail(l)[i] = l[i + 1]
    BY <1>1, HeadTailProperties
  <1>3. Head(l) = l[1] /\ Len(l) \in Nat \ {0}
    BY <1>1, EmptySeq
  <1> PICK e \in Credit : e = Head(l)
    BY <1>2
  <1> PICK s \in Strategy : s = e[1]
    BY DEF Credit
  <1> PICK t \in Seq(Credit) : t = Tail(l)
    BY <1>2
  <1> PICK b \in Seq(Credit) : b = ledger[v] /\ Len(b) <= MaxLedger
    BY DEF AccrualSound, AccrualTyped
  <1> PICK r \in Seq(Credit) : r = recordYield(b, e) /\ Len(r) <= MaxLedger
    BY RecordYieldFacts
  <1>4. /\ ledger' = [ledger EXCEPT ![v] = r] /\ credited' = [credited EXCEPT ![s] = credited[s] + 1]
        /\ posting' = [posting EXCEPT ![v] = {s}] /\ left' = [left EXCEPT ![v] = t]
        /\ UNCHANGED <<holder, due, posted, passes>>
    BY DEF accrueFromStrategies
  <1>5. holder = v /\ credited[s] < passes
    BY <1>1, <1>3 DEF PassSound
  <1>6. /\ holder \in Server \cup {NoServer} /\ passes \in 0 .. MaxPasses /\ due \subseteq Server
        /\ left \in [Server -> Seq(Credit)] /\ posting \in [Server -> SUBSET Strategy]
        /\ ledger \in [Server -> Seq(Credit)] /\ \A w \in Server : Len(ledger[w]) <= MaxLedger
        /\ posted \in [Strategy -> Nat] /\ credited \in [Strategy -> Nat]
        /\ \A x \in Strategy : posted[x] <= credited[x] /\ credited[x] <= passes
    BY DEF AccrualSound, AccrualTyped
  <1>7. AccrualTyped'
    <2>1. left' \in [Server -> Seq(Credit)] /\ posting' \in [Server -> SUBSET Strategy]
      BY <1>4, <1>6
    <2>2. ledger' \in [Server -> Seq(Credit)] /\ \A w \in Server : Len(ledger'[w]) <= MaxLedger
      BY <1>4, <1>6
    <2>3. credited' \in [Strategy -> Nat]
      BY <1>4, <1>6
    <2> QED BY <2>1, <2>2, <2>3, <1>4, <1>6 DEF AccrualTyped
  <1>8. \A x \in Strategy : credited'[x] = (IF x = s THEN credited[x] + 1 ELSE credited[x])
    BY <1>4, <1>6
  <1>9. \A x \in Strategy : posted'[x] <= credited'[x] /\ credited'[x] <= passes'
    BY <1>4, <1>5, <1>6, <1>8
  <1>10. ASSUME NEW w \in Server PROVE PassSound(w)'
    <2>1. CASE w # v
      <3>1. left[w] = <<>> /\ posting[w] = {}
        BY <1>5, <2>1, OneRunsAPass
      <3>2. left'[w] = <<>> /\ posting'[w] = {}
        BY <1>4, <1>6, <2>1, <3>1
      <3> QED BY <3>2, RestingPass
    <2>2. CASE w = v
      <3>1. left'[w] = t /\ posting'[w] = {s} /\ holder' = w /\ posted' = posted /\ passes' = passes
        BY <1>4, <1>5, <1>6, <2>2
      <3>2. \A i \in 1 .. Len(t) : i + 1 \in 1 .. Len(l) /\ i + 1 # 1 /\ t[i] = l[i + 1]
        BY <1>2, <1>3
      <3>3. \A i \in 1 .. Len(l) : l[i] \in Credit /\ l[i][1] \in Strategy
        BY ElementOfSeq DEF Credit
      <3>4. \A i \in 1 .. Len(t) : t[i][1] \in Strategy /\ t[i][1] # s /\ credited[t[i][1]] < passes
        BY <1>1, <1>3, <3>2, <3>3 DEF PassSound
      <3>5. \A i \in 1 .. Len(t) : credited'[t[i][1]] < passes'
        BY <3>1, <3>4, <1>8
      <3>6. \A i, j \in 1 .. Len(t) : t[i][1] = t[j][1] => i = j
        <4> SUFFICES ASSUME NEW i \in 1 .. Len(t), NEW j \in 1 .. Len(t), t[i][1] = t[j][1] PROVE i = j
          OBVIOUS
        <4>1. i + 1 = j + 1
          BY <1>1, <3>2 DEF PassSound
        <4> QED BY <4>1
      <3>7. posted'[s] < credited'[s]
        BY <1>6, <1>8, <3>1
      <3> QED BY <3>1, <3>5, <3>6, <3>7 DEF PassSound
    <2> QED BY <2>1, <2>2
  <1> QED BY <1>7, <1>9, <1>10 DEF AccrualSound

LEMMA PersistAccrualKeeps ==
  ASSUME AccrualSound, NEW v \in Server, PersistAccrual(v)
  PROVE  AccrualSound'
  <1>1. /\ posting[v] # {} /\ posting' = [posting EXCEPT ![v] = {}]
        /\ UNCHANGED <<holder, due, left, ledger, passes, credited>>
    BY DEF PersistAccrual
  <1>2. AccrualTyped
    BY DEF AccrualSound
  <1>3. /\ posted' \in [Strategy -> Nat]
        /\ \A s \in Strategy : posted'[s] <= credited[s]
    <2>1. CASE posted' = [s \in Strategy |-> IF s \in posting[v] THEN posted[s] + 1 ELSE posted[s]]
      <3>1. \A s \in Strategy : posted[s] \in Nat /\ credited[s] \in Nat /\ posted[s] <= credited[s]
        BY DEF AccrualSound, AccrualTyped
      <3>2. \A s \in posting[v] : posted[s] < credited[s]
        BY DEF AccrualSound, PassSound
      <3> QED BY <2>1, <3>1, <3>2
    <2>2. CASE posted' = posted
      BY <2>2 DEF AccrualSound, AccrualTyped
    <2> QED BY <2>1, <2>2 DEF PersistAccrual
  <1>4. AccrualTyped'
    BY <1>1, <1>2, <1>3 DEF AccrualTyped
  <1>5. ASSUME NEW w \in Server PROVE PassSound(w)'
    <2>1. CASE w # v
      <3>1. left[w] = <<>> /\ posting[w] = {}
        BY <1>1, <2>1, OneRunsAPass
      <3>2. left'[w] = <<>> /\ posting'[w] = {}
        BY <1>1, <1>2, <2>1, <3>1 DEF AccrualTyped
      <3> QED BY <3>2, RestingPass
    <2>2. CASE w = v
      <3>1. posting'[w] = {}
        BY <1>1, <1>2, <2>2 DEF AccrualTyped
      <3>2. PassSound(w)
        BY DEF AccrualSound
      <3> QED BY <1>1, <3>1, <3>2 DEF PassSound
    <2> QED BY <2>1, <2>2
  <1> QED BY <1>1, <1>3, <1>4, <1>5 DEF AccrualSound

LEMMA EndPassKeeps ==
  ASSUME AccrualSound, NEW v \in Server, EndPass(v)
  PROVE  AccrualSound'
  <1>1. /\ holder = v /\ left[v] = <<>> /\ posting[v] = {} /\ holder' = NoServer
        /\ UNCHANGED <<due, left, posting, ledger, posted, passes, credited>>
    BY DEF EndPass
  <1>2. \A w \in Server : left'[w] = <<>> /\ posting'[w] = {}
    BY <1>1, OneRunsAPass
  <1>3. \A w \in Server : PassSound(w)'
    BY <1>2, RestingPass
  <1> QED BY <1>1, <1>3 DEF AccrualSound, AccrualTyped

LEMMA RestartServerKeeps ==
  ASSUME AccrualSound, NEW v \in Server, RestartServer(v)
  PROVE  AccrualSound'
  <1>1. /\ due' = due \cup {v} /\ left' = [left EXCEPT ![v] = <<>>] /\ posting' = [posting EXCEPT ![v] = {}]
        /\ ledger' = [ledger EXCEPT ![v] = <<>>]
        /\ holder' = holder \/ (holder = v /\ holder' = NoServer)
        /\ UNCHANGED <<posted, passes, credited>>
    BY DEF RestartServer
  <1>2. AccrualTyped
    BY DEF AccrualSound
  <1>3. <<>> \in Seq(Credit) /\ Len(<<>>) = 0
    BY EmptySeq
  <1>4. AccrualTyped'
    <2>1. left' \in [Server -> Seq(Credit)] /\ posting' \in [Server -> SUBSET Strategy]
      BY <1>1, <1>2, <1>3 DEF AccrualTyped
    <2>2. ledger' \in [Server -> Seq(Credit)] /\ \A w \in Server : Len(ledger'[w]) <= MaxLedger
      BY <1>1, <1>2, <1>3, AllocationFacts DEF AccrualTyped
    <2> QED BY <1>1, <1>2, <2>1, <2>2 DEF AccrualTyped
  <1>5. ASSUME NEW w \in Server PROVE PassSound(w)'
    <2>1. CASE w = v
      <3>1. left'[w] = <<>> /\ posting'[w] = {}
        BY <1>1, <1>2, <2>1 DEF AccrualTyped
      <3> QED BY <3>1, RestingPass
    <2>2. CASE w # v
      <3>1. left'[w] = left[w] /\ posting'[w] = posting[w]
        BY <1>1, <1>2, <2>2 DEF AccrualTyped
      <3>2. CASE left[w] = <<>> /\ posting[w] = {}
        BY <3>1, <3>2, RestingPass
      <3>3. CASE ~(left[w] = <<>> /\ posting[w] = {})
        <4>1. PassSound(w) /\ holder = w
          BY <3>3 DEF AccrualSound, PassSound
        <4>2. holder' = holder
          BY <1>1, <2>2, <4>1
        <4> QED BY <1>1, <3>1, <4>1, <4>2 DEF PassSound
      <3> QED BY <3>2, <3>3
    <2> QED BY <2>1, <2>2
  <1> QED BY <1>1, <1>4, <1>5 DEF AccrualSound

LEMMA AllocationNextInv == AllocationInv /\ [AllocationNext]_allocationVars => AllocationInv'
  <1> SUFFICES ASSUME AllocationInv, [AllocationNext]_allocationVars PROVE AllocationInv'
    OBVIOUS
  <1>0. ChangesSound /\ AccrualSound
    BY DEF AllocationInv
  <1>1. CASE \/ \E s \in Strategy : PauseOrResume(s)
             \/ \E c \in Change : allocateToStrategy(c) \/ deallocateFromStrategy(c) \/ UpdateStrategy(c) \/ RollBack(c)
             \/ UNCHANGED allocationVars
    <2>1. UNCHANGED accrualVars
      BY <1>1 DEF PauseOrResume, allocateToStrategy, deallocateFromStrategy, UpdateStrategy, RollBack,
                  allocationVars, accrualVars
    <2>2. ChangesSound'
      BY <1>0, <1>1, ReadKeeps, UpdateStrategyKeeps, OtherChangesKeep DEF allocationVars, changeVars
    <2> QED BY <1>0, <2>1, <2>2, SchedulesKeep DEF AllocationInv
  <1>2. CASE \/ \E v \in Server : SkipPass(v) \/ RunOnce(v) \/ accrueFromStrategies(v) \/ PersistAccrual(v) \/ EndPass(v)
             \/ DayPasses \/ \E v \in Server : RestartServer(v)
    <2>1. UNCHANGED changeVars
      BY <1>2 DEF SkipPass, RunOnce, accrueFromStrategies, PersistAccrual, EndPass, DayPasses, RestartServer
    <2>2. AccrualSound'
      BY <1>0, <1>2, SchedulesKeep, RunOnceKeeps, AccrueKeeps, PersistAccrualKeeps, EndPassKeeps, RestartServerKeeps
    <2> QED BY <1>0, <2>1, <2>2, OtherChangesKeep DEF AllocationInv
  <1> QED BY <1>1, <1>2 DEF AllocationNext

(* allocationService and yieldAccrualJob: for any strategies, changes, servers and *)
(* restarts a strategy stays within its policy limit and, unless changes of it     *)
(* overlapped, has what was granted; a pass credits it at most once, every row has *)
(* its credit, and the ledger stays within its size.                               *)
THEOREM DeploymentIsSound == AllocationSpec => []DeploymentSound
  <1>1. AllocationInv => DeploymentSound
    <2> SUFFICES ASSUME AllocationInv PROVE DeploymentSound
      OBVIOUS
    <2> USE AllocationFacts
    <2>1. AllocationTypeOK
      BY DEF AllocationInv, ChangesSound, AccrualSound, AccrualTyped, AllocationTypeOK
    <2>2. \A s \in Strategy :
             /\ deployed[s] <= PolicyLimit
             /\ s \notin crossed => deployed[s] = granted[s]
             /\ posted[s] <= credited[s] /\ credited[s] <= passes
      BY DEF AllocationInv, ChangesSound, AccrualSound
    <2>3. ASSUME NEW v \in Server
          PROVE  /\ Len(ledger[v]) <= MaxLedger
                 /\ \A i \in DOMAIN ledger[v] : ledger[v][i][2] \in 1 .. PolicyLimit
      <3>1. ledger[v] \in Seq(Credit) /\ Len(ledger[v]) <= MaxLedger
        BY DEF AllocationInv, AccrualSound, AccrualTyped
      <3>2. \A i \in DOMAIN ledger[v] : ledger[v][i] \in Credit
        BY <3>1, LenProperties
      <3> QED BY <3>1, <3>2 DEF Credit
    <2> QED BY <2>1, <2>2, <2>3 DEF DeploymentSound
  <1> QED BY <1>1, AllocationInitInv, AllocationNextInv, PTL DEF AllocationSpec

-----------------------------------------------------------------------------
(* Reserves *)
ReserveRow == {NoRow} \cup [value : Nat, weight : Nat]
TrackingRound ==
    [at : {"idle", "read", "balance", "store", "push"}, i : 1..Basket + 1, rate : Nat, value : Nat,
     real : BOOLEAN, clean : BOOLEAN]

ReservesTyped ==
    /\ usdRate \in [Currency -> Nat] /\ holding \in [Currency -> Nat] /\ chain \in [Currency -> Nat]
    /\ newest \in [Currency -> ReserveRow] /\ round \in [Tracker -> TrackingRound]
    /\ had \in [Currency -> SUBSET [rate : Nat, units : Nat]]
    /\ \A t \in Tracker : round[t].at \in {"balance", "store", "push"} => round[t].i \in Currency
    /\ event.status = "pending" <=> event.moves # {}
    /\ alert \in BOOLEAN /\ calm \in 0..2 /\ troubles \in 0..MaxTroubles

(* A rate that a round has read is one the currency had, and still has, unless it *)
(* moved since; a balance that a round takes for custody was that.                *)
Now(c) == [rate |-> usdRate[c], units |-> holding[c]]
RateHeld(t) ==
    /\ \E h \in had[round[t].i] : h.rate = round[t].rate
    /\ round[t].rate = usdRate[round[t].i] \/ round[t].i \in blended
ValueHeld(t) ==
    /\ round[t].at = "balance" => RateHeld(t)
    /\ round[t].at \in {"store", "push"} /\ round[t].real => round[t].value \in held[round[t].i]
    /\ round[t].at \in {"idle", "read", "balance"} => ~round[t].real
ValuesHeld ==
    /\ \A c \in Currency : chain[c] \in held[c] /\ Now(c) \in had[c]
    /\ \A t \in Tracker : ValueHeld(t)

(* Round t has stored the row of currency c. *)
HasStored(t, c) == c < round[t].i \/ (c = round[t].i /\ round[t].at = "push")

(* A round without trouble is alone, and the rows behind it are custody's; their   *)
(* weights too, when the rows it began with were.                                  *)
CleanRound(t) ==
    /\ \A u \in Tracker : u # t => round[u].at = "idle"
    /\ round[t].at = "balance" => round[t].rate = usdRate[round[t].i]
    /\ round[t].at = "store" => round[t].value = custody[round[t].i]
    /\ \A c \in Currency : HasStored(t, c) =>
          newest[c].value = custody[c] /\ (calm >= 1 => newest[c] = TrueRows[c])
CleanRounds == \A t \in Tracker : round[t].at # "idle" /\ round[t].clean => CleanRound(t)

CalmRows ==
    /\ calm >= 1 => /\ \A t \in Tracker : round[t].at # "idle" => round[t].clean
                    /\ \A c \in Currency : newest[c].value = custody[c]
    /\ calm = 2 => newest = TrueRows

ReservesInv == ReservesTyped /\ ValuesHeld /\ CleanRounds /\ CalmRows /\ event.warranted

-----------------------------------------------------------------------------
LEMMA ReservesFacts ==
  /\ Basket \in Nat \ {0} /\ MaxRate \in Nat \ {0} /\ MaxHolding \in Nat /\ MaxTroubles \in Nat
  /\ Currency = 1..Basket /\ IsFiniteSet(Currency)
  <1>1. Basket \in Nat \ {0} /\ MaxRate \in Nat \ {0} /\ MaxHolding \in Nat /\ MaxTroubles \in Nat
    BY ReservesAssumption
  <1>2. IsFiniteSet(1..Basket)
    BY <1>1, FS_Interval
  <1> QED BY <1>1, <1>2 DEF Currency

(* The product of two numbers is one. *)
LEMMA ValueTyped == ASSUME NEW r \in Nat, NEW u \in Nat PROVE r * u \in Nat
  OBVIOUS

LEMMA CustodyTyped == ReservesTyped => custody \in [Currency -> Nat]
  <1> SUFFICES ASSUME ReservesTyped PROVE \A c \in Currency : usdRate[c] * holding[c] \in Nat
    BY DEF custody
  <1> TAKE c \in Currency
  <1>1. usdRate[c] \in Nat /\ holding[c] \in Nat
    BY DEF ReservesTyped
  <1> QED BY <1>1, ValueTyped

(* What a round can make of what a currency had. *)
LEMMA HeldValue ==
  ASSUME NEW c \in Currency, NEW g \in had[c], NEW h \in had[c], g = h \/ c \in blended
  PROVE  g.rate * h.units \in held[c]
  <1> DEFINE pairs == {q \in had[c] \X had[c] : q[1] = q[2] \/ c \in blended}
  <1>1. held[c] = {p[1].rate * p[2].units : p \in pairs}
    BY DEF held
  <1>2. <<g, h>> \in pairs
    OBVIOUS
  <1> HIDE DEF pairs
  <1> QED BY <1>1, <1>2

LEMMA HeldGrows ==
  ASSUME NEW c \in Currency, had[c] \subseteq had'[c], blended \subseteq blended'
  PROVE  held[c] \subseteq held'[c]
  <1> DEFINE pairs == {q \in had[c] \X had[c] : q[1] = q[2] \/ c \in blended}
             later == {q \in had'[c] \X had'[c] : q[1] = q[2] \/ c \in blended'}
  <1>1. held[c] = {p[1].rate * p[2].units : p \in pairs}
    BY DEF held
  <1>2. held'[c] = {p[1].rate * p[2].units : p \in later}
    BY DEF held
  <1>3. pairs \subseteq later
    OBVIOUS
  <1> HIDE DEF pairs, later
  <1> QED BY <1>1, <1>2, <1>3

LEMMA CustodyHeld == ASSUME ReservesTyped, NEW c \in Currency, Now(c) \in had[c] PROVE custody[c] \in held[c]
  <1>1. Now(c).rate * Now(c).units \in held[c]
    BY HeldValue
  <1>2. Now(c).rate = usdRate[c] /\ Now(c).units = holding[c] /\ custody[c] = usdRate[c] * holding[c]
    BY DEF Now, custody
  <1> QED BY <1>1, <1>2

LEMMA OnChainStays ==
  UNCHANGED onChain => UNCHANGED <<usdRate, holding, had, blended, custody, held>>
  BY DEF onChain, custody, held

(* The weight of a row is a number, and a row is one. *)
LEMMA SnapshotTyped ==
  ASSUME ReservesTyped, NEW c, NEW v \in Nat
  PROVE  [value |-> v, weight |-> actualWeight(c, v)] \in ReserveRow
  <1> DEFINE values == [d \in Currency |-> newest[d].value]
             total  == SumFunction(values)
  <1>1. \A d \in Currency : values[d] \in Int
    BY ReservesFacts DEF ReservesTyped, ReserveRow, NoRow
  <1>2. DOMAIN values = Currency
    OBVIOUS
  <1> HIDE DEF values
  <1>3. total \in Int
    BY <1>1, <1>2, ReservesFacts, SumTyped, SumIsOnDomain
  <1>4. total = getTotalReserveValue(newest)
    BY DEF getTotalReserveValue, values
  <1> HIDE DEF total
  <1>5. total > 0 => (v * 100) \div total \in Nat
    BY <1>3
  <1>6. actualWeight(c, v) \in Nat
    BY <1>4, <1>5 DEF actualWeight
  <1> QED BY <1>6 DEF ReserveRow

(* Over rows that have custody's values a weight is the share of custody. *)
LEMMA SnapshotTrue ==
  ASSUME ReservesTyped, \A c \in Currency : newest[c].value = custody[c], NEW c \in Currency
  PROVE  [value |-> custody[c], weight |-> actualWeight(c, custody[c])] = TrueRows[c]
  <1>1. [d \in Currency |-> newest[d].value] = custody
    BY CustodyTyped
  <1>2. getTotalReserveValue(newest) = SumFunction(custody)
    BY <1>1 DEF getTotalReserveValue
  <1> QED BY <1>2 DEF actualWeight, TrueRows

LEMMA TrueRowsValue == ASSUME ReservesTyped, NEW c \in Currency PROVE TrueRows[c].value = custody[c]
  BY DEF TrueRows

LEMMA TrueRowsStay == custody' = custody => TrueRows' = TrueRows
  BY DEF TrueRows

LEMMA ReservesInitInv == ReservesInit => ReservesInv
  <1> SUFFICES ASSUME ReservesInit PROVE ReservesInv
    OBVIOUS
  <1> USE ReservesFacts
  <1>1. ReservesTyped
    <2>1. Idle \in TrackingRound /\ NoRow \in ReserveRow
      BY DEF Idle, TrackingRound, ReserveRow
    <2>2. alert \in BOOLEAN /\ (event.status = "pending" <=> event.moves # {})
      BY DEF ReservesInit, NoEvent
    <2>3. \A t \in Tracker : round[t].at = "idle"
      BY DEF ReservesInit, Idle
    <2>4. usdRate \in [Currency -> Nat] /\ holding \in [Currency -> Nat]
      BY DEF ReservesInit
    <2>5. chain \in [Currency -> Nat]
      <3>1. \A c \in Currency : usdRate[c] * holding[c] \in Nat
        BY <2>4, ValueTyped
      <3> QED BY <3>1 DEF ReservesInit, custody
    <2>6. had \in [Currency -> SUBSET [rate : Nat, units : Nat]]
      BY <2>4 DEF ReservesInit
    <2>7. calm \in 0..2 /\ troubles \in 0..MaxTroubles
      BY DEF ReservesInit
    <2> QED BY <2>1, <2>2, <2>3, <2>4, <2>5, <2>6, <2>7 DEF ReservesInit, ReservesTyped
  <1>2. \A c \in Currency : Now(c) \in had[c]
    BY DEF ReservesInit, Now
  <1>3. \A c \in Currency : chain[c] \in held[c]
    BY <1>1, <1>2, CustodyHeld DEF ReservesInit
  <1>4. \A t \in Tracker : round[t].at = "idle" /\ ~round[t].real
    BY DEF ReservesInit, Idle
  <1>5. calm = 0 /\ event.warranted
    BY DEF ReservesInit, NoEvent
  <1> QED BY <1>1, <1>2, <1>3, <1>4, <1>5 DEF ReservesInv, ValuesHeld, ValueHeld, CleanRounds, CalmRows

(* What a round becomes, and what the others are. *)
LEMMA GoesTo ==
  ASSUME ReservesTyped, NEW t \in Tracker, NEW r, Goes(t, r)
  PROVE  round'[t] = r /\ \A u \in Tracker : u # t => round'[u] = round[u]
  BY DEF ReservesTyped, Goes

LEMMA RoundKinds ==
  ASSUME ReservesTyped, NEW t \in Tracker
  PROVE  /\ round[t].at \in {"idle", "read", "balance", "store", "push"} /\ round[t].i \in 1..Basket + 1
         /\ round[t].rate \in Nat /\ round[t].value \in Nat
         /\ round[t].real \in BOOLEAN /\ round[t].clean \in BOOLEAN
         /\ round[t] \in TrackingRound
  BY DEF ReservesTyped, TrackingRound

LEMMA StartTrackingInv == ASSUME ReservesInv, NEW t \in Tracker, StartTracking(t) PROVE ReservesInv'
  <1> USE ReservesFacts DEF ReservesInv
  <1> DEFINE alone == \A u \in Tracker : round[u].at = "idle"
  <1>1. /\ round[t].at = "idle" /\ calm' = (IF alone THEN calm ELSE 0)
        /\ UNCHANGED <<newest, chain, alert, event, troubles>> /\ UNCHANGED <<usdRate, holding, had, blended, custody, held>>
    BY OnChainStays DEF StartTracking
  <1>2. /\ round'[t] = [Idle EXCEPT !.at = "read", !.clean = alone]
        /\ \A u \in Tracker : u # t => round'[u] = [round[u] EXCEPT !.clean = FALSE]
        /\ round' = [u \in Tracker |-> round'[u]]
    BY DEF StartTracking
  <1>3. alone \in BOOLEAN /\ (alone => \A u \in Tracker : round[u].at = "idle")
    OBVIOUS
  <1> HIDE DEF alone
  <1>4. /\ round'[t] \in TrackingRound /\ round'[t].at = "read" /\ round'[t].i = 1
        /\ ~round'[t].real /\ (round'[t].clean => alone) /\ (alone => round'[t].clean)
    <2>1. round'[t] = [at |-> "read", i |-> 1, rate |-> 0, value |-> 0, real |-> FALSE, clean |-> alone]
      BY <1>2 DEF Idle
    <2>2. 0 \in Nat /\ 1 \in 1..Basket + 1 /\ FALSE \in BOOLEAN
      OBVIOUS
    <2> QED BY ONLY <2>1, <2>2, <1>3 DEF TrackingRound
  <1>5. ASSUME NEW u \in Tracker, u # t
        PROVE  /\ round'[u] \in TrackingRound /\ round'[u].at = round[u].at
               /\ round'[u].i = round[u].i /\ round'[u].rate = round[u].rate
               /\ round'[u].value = round[u].value /\ round'[u].real = round[u].real /\ ~round'[u].clean
    <2>1. round'[u] = [round[u] EXCEPT !.clean = FALSE] /\ round[u] \in TrackingRound
      BY <1>2, <1>5, RoundKinds
    <2> QED BY ONLY <2>1 DEF TrackingRound
  <1>6. \A u \in Tracker : round'[u] \in TrackingRound
    BY <1>4, <1>5
  <1>7. round' \in [Tracker -> TrackingRound]
    BY <1>2, <1>6
  <1> USE <1>1, <1>4, <1>5
  <1>8. ReservesTyped'
    <2>1. \A u \in Tracker : round'[u].at \in {"balance", "store", "push"} => round'[u].i \in Currency
      BY DEF ReservesTyped
    <2>2. calm' \in 0..2
      BY DEF ReservesTyped
    <2> QED BY <1>7, <2>1, <2>2 DEF ReservesTyped
  <1>9. ValuesHeld' /\ event'.warranted
    <2>1. ValueHeld(t)'
      BY DEF ValueHeld
    <2>2. ASSUME NEW u \in Tracker, u # t PROVE ValueHeld(u)'
      BY <2>2 DEF ValuesHeld, ValueHeld, RateHeld
    <2> QED BY <2>1, <2>2 DEF ValuesHeld, Now
  <1>10. CleanRounds'
    <2> SUFFICES ASSUME NEW u \in Tracker, round'[u].at # "idle", round'[u].clean PROVE CleanRound(u)'
      BY DEF CleanRounds
    <2>1. u = t /\ \A v \in Tracker : round[v].at = "idle"
      BY <1>3
    <2>2. \A v \in Tracker : v # t => round'[v].at = "idle"
      BY <2>1
    <2> QED BY <2>1, <2>2 DEF CleanRound, HasStored
  <1>11. CalmRows'
    <2>1. CASE alone
      <3>1. calm' = calm /\ (\A u \in Tracker : u # t => round'[u].at = "idle") /\ TrueRows' = TrueRows
        BY <2>1, <1>3, TrueRowsStay
      <3> QED BY <2>1, <3>1 DEF CalmRows
    <2>2. CASE ~alone
      BY <2>2 DEF CalmRows
    <2> QED BY <2>1, <2>2
  <1> QED BY <1>8, <1>9, <1>10, <1>11

(* What another round holds, stays. *)
LEMMA OthersHold ==
  ASSUME ReservesInv, NEW u \in Tracker, round'[u] = round[u], UNCHANGED <<usdRate, had, blended, held>>
  PROVE  ValueHeld(u)'
  BY DEF ReservesInv, ValuesHeld, ValueHeld, RateHeld

LEMMA NextRound ==
  ASSUME NEW n, NEW b, NEW next, next = [Idle EXCEPT !.at = "read", !.i = n, !.clean = b]
  PROVE  next = [at |-> "read", i |-> n, rate |-> 0, value |-> 0, real |-> FALSE, clean |-> b]
  BY DEF Idle

LEMMA SkippedRound ==
  ASSUME NEW n, NEW next, next = [Idle EXCEPT !.at = "read", !.i = n]
  PROVE  next = [Idle EXCEPT !.at = "read", !.i = n, !.clean = FALSE]
  <1>1. next = [at |-> "read", i |-> n, rate |-> 0, value |-> 0, real |-> FALSE, clean |-> FALSE]
    BY DEF Idle
  <1> QED BY <1>1, NextRound

(* A round that goes on with the next currency. *)
LEMMA NextCurrency ==
  ASSUME ReservesTyped, NEW t \in Tracker, round[t].i \in Currency, NEW clean \in BOOLEAN,
         Goes(t, [Idle EXCEPT !.at = "read", !.i = round[t].i + 1, !.clean = clean])
  PROVE  /\ round' \in [Tracker -> TrackingRound] /\ \A u \in Tracker : u # t => round'[u] = round[u]
         /\ round'[t].at = "read" /\ round'[t].i = round[t].i + 1 /\ ~round'[t].real
         /\ (round'[t].clean => clean) /\ (clean => round'[t].clean)
  <1> USE ReservesFacts
  <1> DEFINE next == [Idle EXCEPT !.at = "read", !.i = round[t].i + 1, !.clean = clean]
  <1>1. round[t].i + 1 \in 1..Basket + 1 /\ 0 \in Nat
    OBVIOUS
  <1>2. next = [at |-> "read", i |-> round[t].i + 1, rate |-> 0, value |-> 0, real |-> FALSE, clean |-> clean]
    BY NextRound
  <1> HIDE DEF next
  <1>3. /\ next \in TrackingRound /\ next.at = "read" /\ next.i = round[t].i + 1 /\ ~next.real
        /\ (next.clean => clean) /\ (clean => next.clean)
    BY ONLY <1>1, <1>2, clean \in BOOLEAN DEF TrackingRound
  <1>4. Goes(t, next)
    BY DEF next
  <1>5. round'[t] = next /\ \A u \in Tracker : u # t => round'[u] = round[u]
    BY <1>4, GoesTo
  <1>6. round' \in [Tracker -> TrackingRound]
    BY <1>3, <1>4 DEF Goes, ReservesTyped
  <1> QED BY <1>3, <1>5, <1>6

(* The currency is skipped: whatever the round did so far is in trouble. *)
LEMMA SkipKeeps ==
  ASSUME ReservesInv, NEW t \in Tracker, round[t].at # "idle", round[t].i \in Currency, SkipTo(t),
         UNCHANGED <<newest, chain, alert, event>>, UNCHANGED <<usdRate, holding, had, blended, custody, held>>
  PROVE  ReservesInv'
  <1> USE ReservesFacts DEF ReservesInv
  <1>1. /\ troubles' \in 0..MaxTroubles /\ calm' = 0
        /\ Goes(t, [Idle EXCEPT !.at = "read", !.i = round[t].i + 1])
    BY DEF SkipTo, Troubled, ReservesTyped
  <1>2. [Idle EXCEPT !.at = "read", !.i = round[t].i + 1] = [Idle EXCEPT !.at = "read", !.i = round[t].i + 1, !.clean = FALSE]
    BY SkippedRound
  <1>3. Goes(t, [Idle EXCEPT !.at = "read", !.i = round[t].i + 1, !.clean = FALSE])
    BY <1>1, <1>2
  <1>4. /\ round' \in [Tracker -> TrackingRound] /\ \A u \in Tracker : u # t => round'[u] = round[u]
        /\ round'[t].at = "read" /\ ~round'[t].real /\ ~round'[t].clean
    BY <1>3, NextCurrency
  <1>5. ReservesTyped'
    <2>1. \A u \in Tracker : round'[u].at \in {"balance", "store", "push"} => round'[u].i \in Currency
      BY <1>4 DEF ReservesTyped
    <2> QED BY <1>1, <1>4, <2>1 DEF ReservesTyped
  <1>6. ValuesHeld' /\ event'.warranted
    <2>1. ValueHeld(t)'
      BY <1>4 DEF ValueHeld
    <2>2. \A u \in Tracker : u # t => ValueHeld(u)'
      BY <1>4, OthersHold
    <2> QED BY <2>1, <2>2 DEF ValuesHeld, Now
  <1>7. CleanRounds'
    <2> SUFFICES ASSUME NEW u \in Tracker, round'[u].at # "idle", round'[u].clean PROVE FALSE
      BY DEF CleanRounds
    <2>1. u # t /\ round[u].at # "idle" /\ round[u].clean
      BY <1>4
    <2> QED BY <2>1 DEF CleanRounds, CleanRound
  <1>8. CalmRows'
    BY <1>1 DEF CalmRows
  <1> QED BY <1>5, <1>6, <1>7, <1>8

(* A round that took a rate or a value goes on with the same currency. *)
LEMMA TakesValue ==
  ASSUME ReservesInv, NEW t \in Tracker, round[t].at \in {"read", "balance"}, round[t].i \in Currency,
         UNCHANGED <<newest, chain, alert, event>>, UNCHANGED <<usdRate, holding, had, blended, custody, held>>,
         NEW next \in TrackingRound, Goes(t, next), next.at \in {"balance", "store"}, next.i = round[t].i,
         ValueHeld(t)', next.clean => round[t].clean,
         next.clean /\ next.at = "balance" => next.rate = usdRate[next.i],
         next.clean /\ next.at = "store" => next.value = custody[next.i],
         troubles' \in 0..MaxTroubles, calm' \in {0, calm}, calm' # 0 => (next.clean <=> round[t].clean)
  PROVE  ReservesInv'
  <1> USE ReservesFacts DEF ReservesInv
  <1>1. round'[t] = next /\ \A u \in Tracker : u # t => round'[u] = round[u]
    BY GoesTo
  <1>2. round' \in [Tracker -> TrackingRound]
    BY DEF Goes, ReservesTyped
  <1>3. calm' \in 0..2 /\ TrueRows' = TrueRows
    BY TrueRowsStay DEF ReservesTyped
  <1>4. ReservesTyped'
    <2>1. \A u \in Tracker : round'[u].at \in {"balance", "store", "push"} => round'[u].i \in Currency
      BY <1>1 DEF ReservesTyped
    <2> QED BY <1>2, <1>3, <2>1 DEF ReservesTyped
  <1>5. ValuesHeld' /\ event'.warranted
    <2>1. \A u \in Tracker : u # t => ValueHeld(u)'
      BY <1>1, OthersHold
    <2> QED BY <2>1 DEF ValuesHeld, Now
  <1>6. CleanRounds'
    <2> SUFFICES ASSUME NEW u \in Tracker, round'[u].at # "idle", round'[u].clean PROVE CleanRound(u)'
      BY DEF CleanRounds
    <2>1. CASE u = t
      <3>1. CleanRound(t) /\ next.clean
        BY <1>1, <2>1 DEF CleanRounds
      <3>2. \A w \in Tracker : w # t => round'[w].at = "idle"
        BY <1>1, <3>1 DEF CleanRound
      <3>3. /\ round'[t].at = "balance" => round'[t].rate = usdRate'[round'[t].i]
            /\ round'[t].at = "store" => round'[t].value = custody'[round'[t].i]
        BY <1>1, <3>1
      <3>4. ASSUME NEW c \in Currency, HasStored(t, c)'
            PROVE  newest'[c].value = custody'[c] /\ (calm' >= 1 => newest'[c] = TrueRows'[c])
        <4>1. HasStored(t, c)
          BY <1>1, <3>4 DEF HasStored
        <4> QED BY <1>3, <3>1, <4>1 DEF CleanRound
      <3> QED BY <2>1, <3>2, <3>3, <3>4 DEF CleanRound
    <2>2. CASE u # t
      BY <1>1, <2>2 DEF CleanRounds, CleanRound
    <2> QED BY <2>1, <2>2
  <1>7. CalmRows'
    <2>1. CASE calm' = 0
      BY <2>1 DEF CalmRows
    <2>2. CASE calm' # 0
      <3>1. calm' = calm
        BY <2>2
      <3>2. calm >= 1 => \A u \in Tracker : round'[u].at # "idle" => round'[u].clean
        BY <1>1, <2>2 DEF CalmRows
      <3> QED BY <1>3, <3>1, <3>2 DEF CalmRows
    <2> QED BY <2>1, <2>2
  <1> QED BY <1>4, <1>5, <1>6, <1>7

(* The rate that a round reads is the currency's. *)
LEMMA ReadRateInv == ASSUME ReservesInv, NEW t \in Tracker, ReadRate(t) PROVE ReservesInv'
  <1> USE ReservesFacts DEF ReservesInv
  <1> DEFINE i    == round[t].i
             next == [round[t] EXCEPT !.at = "balance", !.rate = usdRate[i]]
  <1>1. /\ round[t].at = "read" /\ i \in Currency /\ Goes(t, next) /\ calm' = calm /\ troubles' \in 0..MaxTroubles
        /\ UNCHANGED <<newest, chain, alert, event>> /\ UNCHANGED <<usdRate, holding, had, blended, custody, held>>
    BY OnChainStays DEF ReadRate, Steady, ReservesTyped
  <1>2. round[t] \in TrackingRound /\ usdRate[i] \in Nat
    BY <1>1, RoundKinds DEF ReservesTyped
  <1>3. /\ next \in TrackingRound /\ next.at = "balance" /\ next.i = i /\ next.rate = usdRate[i]
        /\ next.clean = round[t].clean /\ next.real = round[t].real
    BY ONLY <1>2 DEF TrackingRound
  <1> HIDE DEF next
  <1>4. round'[t] = next
    BY <1>1, GoesTo
  <1>5. ValueHeld(t)'
    <2>1. ~next.real
      BY <1>1, <1>3 DEF ValuesHeld, ValueHeld
    <2>2. Now(i) \in had[i] /\ Now(i).rate = usdRate[i]
      BY <1>1 DEF ValuesHeld, Now
    <2>3. RateHeld(t)'
      BY <1>1, <1>3, <1>4, <2>2 DEF RateHeld
    <2> QED BY <1>3, <1>4, <2>1, <2>3 DEF ValueHeld
  <1>6. next.clean => next.rate = usdRate[next.i]
    BY <1>3
  <1> HIDE DEF i
  <1>7. round[t].i \in Currency /\ next.i = round[t].i
    BY <1>1, <1>3 DEF i
  <1>8. next.at \in {"balance", "store"} /\ next.at # "store" /\ (next.clean <=> round[t].clean)
    BY <1>3
  <1> QED BY <1>1, <1>3, <1>5, <1>6, <1>7, <1>8, TakesValue

(* The value of a round is made of a rate and a holding of custody, or, in trouble, *)
(* it is a partner's.                                                               *)
LEMMA ReadBalanceInv == ASSUME ReservesInv, NEW t \in Tracker, ReadBalance(t) PROVE ReservesInv'
  <1> USE ReservesFacts DEF ReservesInv
  <1>1. /\ round[t].at = "balance" /\ round[t].i \in Currency
        /\ UNCHANGED <<newest, chain, alert, event>> /\ UNCHANGED <<usdRate, holding, had, blended, custody, held>>
    BY OnChainStays DEF ReadBalance, ReservesTyped
  <1>2. CASE SkipTo(t)
    BY <1>1, <1>2, SkipKeeps
  <1> DEFINE i == round[t].i
             v == readOnChainCustody(t)
  <1>3. /\ round[t] \in TrackingRound /\ ~round[t].real /\ RateHeld(t) /\ v \in Nat
        /\ v = round[t].rate * holding[i]
    <2>1. round[t].rate \in Nat /\ holding[i] \in Nat /\ round[t] \in TrackingRound
      BY <1>1, RoundKinds DEF ReservesTyped
    <2>2. v = round[t].rate * holding[i]
      BY DEF readOnChainCustody
    <2>3. ValueHeld(t)
      BY DEF ValuesHeld
    <2> QED BY <1>1, <2>1, <2>2, <2>3, ValueTyped DEF ValueHeld
  <1>4. v \in held[i]
    <2>1. PICK g \in had[i] : g.rate = round[t].rate
      BY <1>3 DEF RateHeld
    <2>2. Now(i) \in had[i] /\ Now(i).rate = usdRate[i] /\ Now(i).units = holding[i]
      BY <1>1 DEF ValuesHeld, Now
    <2>3. CASE i \in blended
      <3>1. g.rate * Now(i).units \in held[i]
        BY <1>1, <2>2, <2>3, HeldValue
      <3> QED BY <1>3, <2>1, <2>2, <3>1
    <2>4. CASE round[t].rate = usdRate[i]
      <3>1. Now(i).rate * Now(i).units \in held[i]
        BY <1>1, <2>2, HeldValue
      <3> QED BY <1>3, <2>2, <2>4, <3>1
    <2> QED BY <1>3, <2>3, <2>4 DEF RateHeld
  <1>5. round[t].clean => v = custody[i]
    <2> SUFFICES ASSUME round[t].clean PROVE round[t].rate = usdRate[i]
      BY <1>1, <1>3 DEF custody
    <2> QED BY <1>1 DEF CleanRounds, CleanRound
  <1> HIDE DEF v
  <1>6. CASE Steady /\ Goes(t, [round[t] EXCEPT !.at = "store", !.rate = 0, !.value = v, !.real = TRUE])
    <2> DEFINE next == [round[t] EXCEPT !.at = "store", !.rate = 0, !.value = v, !.real = TRUE]
    <2>1. 0 \in Nat
      OBVIOUS
    <2>2. /\ next \in TrackingRound /\ next.at = "store" /\ next.i = round[t].i /\ next.value = v
          /\ next.clean = round[t].clean
      BY ONLY <1>3, <2>1 DEF TrackingRound
    <2>3. Goes(t, next)
      BY <1>6
    <2> HIDE DEF next
    <2>4. round'[t] = next
      BY <2>3, GoesTo
    <2>5. ValueHeld(t)'
      BY <1>1, <1>4, <2>2, <2>4 DEF ValueHeld
    <2>6. troubles' \in 0..MaxTroubles /\ calm' \in {0, calm}
      BY <1>6 DEF Steady, ReservesTyped
    <2>7. /\ next.at \in {"balance", "store"} /\ next.at # "balance" /\ (next.clean <=> round[t].clean)
          /\ (next.clean => next.value = custody[next.i])
      BY <1>5, <2>2
    <2>8. round[t].at \in {"read", "balance"}
      BY <1>1
    <2> HIDE DEF i
    <2> QED BY <1>1, <2>2, <2>3, <2>5, <2>6, <2>7, <2>8, TakesValue
  <1>7. CASE Troubled /\ \E w \in 0..MaxRate * MaxHolding :
                Goes(t, [round[t] EXCEPT !.at = "store", !.rate = 0, !.value = w, !.clean = FALSE])
    <2>1. PICK w \in 0..MaxRate * MaxHolding :
                Goes(t, [round[t] EXCEPT !.at = "store", !.rate = 0, !.value = w, !.clean = FALSE])
      BY <1>7
    <2> DEFINE next == [round[t] EXCEPT !.at = "store", !.rate = 0, !.value = w, !.clean = FALSE]
    <2>2. w \in Nat /\ 0 \in Nat
      <3>1. MaxRate * MaxHolding \in Nat
        BY ValueTyped
      <3> QED BY <3>1
    <2>3. /\ next \in TrackingRound /\ next.at = "store" /\ next.i = round[t].i /\ next.real = round[t].real
          /\ ~next.clean
      BY ONLY <1>3, <2>2 DEF TrackingRound
    <2>4. Goes(t, next)
      BY <2>1
    <2> HIDE DEF next
    <2>5. round'[t] = next
      BY <2>4, GoesTo
    <2>6. ValueHeld(t)'
      BY <1>3, <2>3, <2>5 DEF ValueHeld
    <2>7. troubles' \in 0..MaxTroubles /\ calm' = 0
      BY <1>7 DEF Troubled, ReservesTyped
    <2>8. next.at \in {"balance", "store"} /\ round[t].at \in {"read", "balance"}
      BY <1>1, <2>3
    <2> HIDE DEF i
    <2> QED BY <1>1, <2>3, <2>4, <2>6, <2>7, <2>8, TakesValue
  <1> QED BY <1>2, <1>6, <1>7 DEF ReadBalance, v

(* The row that is stored. *)
LEMMA StoreSnapshotInv == ASSUME ReservesInv, NEW t \in Tracker, StoreSnapshot(t) PROVE ReservesInv'
  <1> USE ReservesFacts DEF ReservesInv
  <1>1. /\ round[t].at = "store" /\ round[t].i \in Currency
        /\ UNCHANGED <<chain, alert, event>> /\ UNCHANGED <<usdRate, holding, had, blended, custody, held>>
    BY OnChainStays DEF StoreSnapshot, ReservesTyped
  <1>2. CASE SkipTo(t) /\ UNCHANGED newest
    BY <1>1, <1>2, SkipKeeps
  <1> DEFINE i == round[t].i
             row == [value |-> round[t].value, weight |-> actualWeight(i, round[t].value)]
  <1>3. CASE newest' = [newest EXCEPT ![i] = row] /\ Goes(t, [round[t] EXCEPT !.at = "push"]) /\ Steady
    <2>1. /\ round'[t] = [round[t] EXCEPT !.at = "push"]
          /\ \A u \in Tracker : u # t => round'[u] = round[u]
          /\ round[t] \in TrackingRound
      BY <1>3, GoesTo, RoundKinds
    <2>2. /\ round'[t] \in TrackingRound /\ round'[t].at = "push" /\ round'[t].i = round[t].i
          /\ round'[t].value = round[t].value /\ round'[t].real = round[t].real /\ round'[t].clean = round[t].clean
      BY ONLY <2>1 DEF TrackingRound
    <2>3. \A u \in Tracker : u # t => round'[u] = round[u]
      BY <2>1
    <2>4. round' \in [Tracker -> TrackingRound]
      BY <1>3, <2>2 DEF Goes, ReservesTyped
    <2>5. calm' = calm /\ troubles' = troubles /\ TrueRows' = TrueRows
      BY <1>1, <1>3, TrueRowsStay DEF Steady
    <2>6. row \in ReserveRow /\ row.value = round[t].value
      BY RoundKinds, SnapshotTyped
    <2>7. round[t].clean => CleanRound(t) /\ row.value = custody[i]
      BY <1>1, <2>6 DEF CleanRounds, CleanRound
    <2>8. calm >= 1 => round[t].clean /\ row = TrueRows[i]
      <3> SUFFICES ASSUME calm >= 1 PROVE round[t].clean /\ row = TrueRows[i]
        OBVIOUS
      <3>1. round[t].clean /\ \A c \in Currency : newest[c].value = custody[c]
        BY <1>1 DEF CalmRows
      <3>2. round[t].value = custody[i]
        BY <2>6, <2>7, <3>1
      <3> QED BY <1>1, <3>1, <3>2, SnapshotTrue
    <2> HIDE DEF row
    <2>9. newest'[i] = row /\ \A c \in Currency : c # i => newest'[c] = newest[c]
      BY <1>1, <1>3 DEF ReservesTyped
    <2>10. ReservesTyped'
      <3>1. \A u \in Tracker : round'[u].at \in {"balance", "store", "push"} => round'[u].i \in Currency
        BY <1>1, <2>2, <2>3 DEF ReservesTyped
      <3>2. newest' \in [Currency -> ReserveRow]
        BY <1>1, <1>3, <2>6 DEF ReservesTyped
      <3> QED BY <1>1, <2>4, <2>5, <3>1, <3>2 DEF ReservesTyped
    <2>11. ValuesHeld' /\ event'.warranted
      <3>1. ValueHeld(t)'
        BY <1>1, <2>2 DEF ValuesHeld, ValueHeld
      <3>2. \A u \in Tracker : u # t => ValueHeld(u)'
        BY <1>1, <2>3, OthersHold
      <3> QED BY <1>1, <3>1, <3>2 DEF ValuesHeld, Now
    <2>12. CleanRounds'
      <3> SUFFICES ASSUME NEW u \in Tracker, round'[u].at # "idle", round'[u].clean PROVE CleanRound(u)'
        BY DEF CleanRounds
      <3>1. u = t
        BY <1>1, <2>3 DEF CleanRounds, CleanRound
      <3>2. CleanRound(t) /\ row.value = custody[i]
        BY <2>2, <2>7, <3>1
      <3>3. \A w \in Tracker : w # t => round'[w].at = "idle"
        BY <2>3, <3>2 DEF CleanRound
      <3>4. ASSUME NEW c \in Currency, HasStored(t, c)' PROVE newest'[c].value = custody'[c] /\ (calm' >= 1 => newest'[c] = TrueRows'[c])
        <4>1. CASE c = i
          BY <1>1, <2>5, <2>8, <2>9, <3>2, <4>1
        <4>2. CASE c # i
          <5>1. HasStored(t, c) /\ newest'[c] = newest[c]
            BY <2>2, <2>9, <3>4, <4>2 DEF HasStored
          <5> QED BY <1>1, <2>5, <3>2, <5>1 DEF CleanRound
        <4> QED BY <4>1, <4>2
      <3> QED BY <2>2, <3>1, <3>3, <3>4 DEF CleanRound
    <2>13. CalmRows'
      <3>1. calm >= 1 => \A u \in Tracker : round'[u].at # "idle" => round'[u].clean
        BY <1>1, <2>2, <2>3 DEF CalmRows
      <3>2. calm >= 1 => \A c \in Currency : newest'[c].value = custody[c]
        BY <2>7, <2>8, <2>9 DEF CalmRows
      <3>3. calm = 2 => newest' = TrueRows
        <4> SUFFICES ASSUME calm = 2 PROVE newest' = newest
          BY DEF CalmRows
        <4>1. newest = TrueRows /\ row = TrueRows[i]
          BY <2>8 DEF CalmRows
        <4> QED BY <1>1, <1>3, <4>1 DEF ReservesTyped
      <3> QED BY <1>1, <2>5, <3>1, <3>2, <3>3 DEF CalmRows
    <2> QED BY <2>10, <2>11, <2>12, <2>13
  <1> QED BY <1>2, <1>3 DEF StoreSnapshot

(* What is reported to the contract was custody's. *)
LEMMA UpdateReserveInv == ASSUME ReservesInv, NEW t \in Tracker, UpdateReserve(t) PROVE ReservesInv'
  <1> USE ReservesFacts DEF ReservesInv
  <1>1. /\ round[t].at = "push" /\ round[t].i \in Currency
        /\ Goes(t, [Idle EXCEPT !.at = "read", !.i = round[t].i + 1, !.clean = round[t].clean])
        /\ UNCHANGED <<newest, alert, event, calm, troubles>> /\ UNCHANGED <<usdRate, holding, had, blended, custody, held>>
    BY OnChainStays DEF UpdateReserve, ReservesTyped
  <1>2. round[t].clean \in BOOLEAN
    BY RoundKinds
  <1>3. /\ round' \in [Tracker -> TrackingRound] /\ round'[t].at = "read" /\ round'[t].i = round[t].i + 1
        /\ ~round'[t].real /\ (round'[t].clean => round[t].clean) /\ (round[t].clean => round'[t].clean)
    BY <1>1, <1>2, NextCurrency
  <1>4. \A u \in Tracker : u # t => round'[u] = round[u]
    BY <1>1, <1>2, NextCurrency
  <1>5. round' \in [Tracker -> TrackingRound]
    BY <1>3
  <1>6. TrueRows' = TrueRows
    BY <1>1, TrueRowsStay
  <1>7. /\ chain' \in [Currency -> Nat]
        /\ \A c \in Currency : chain'[c] \in held[c]
    <2>1. CASE UNCHANGED chain
      BY <2>1 DEF ReservesTyped, ValuesHeld
    <2>2. CASE hasRealBalance(t) /\ chain' = [chain EXCEPT ![round[t].i] = round[t].value]
      <3>1. round[t].value \in held[round[t].i] /\ round[t].value \in Nat
        BY <1>1, <2>2, RoundKinds DEF ValuesHeld, ValueHeld, hasRealBalance
      <3> QED BY <1>1, <2>2, <3>1 DEF ReservesTyped, ValuesHeld
    <2> QED BY <2>1, <2>2 DEF UpdateReserve
  <1>8. ReservesTyped'
    <2>1. \A u \in Tracker : round'[u].at \in {"balance", "store", "push"} => round'[u].i \in Currency
      BY <1>3, <1>4 DEF ReservesTyped
    <2> QED BY <1>1, <1>5, <1>7, <2>1 DEF ReservesTyped
  <1>9. ValuesHeld' /\ event'.warranted
    <2>1. ValueHeld(t)'
      BY <1>3 DEF ValueHeld
    <2>2. \A u \in Tracker : u # t => ValueHeld(u)'
      BY <1>1, <1>4, OthersHold
    <2> QED BY <1>1, <1>7, <2>1, <2>2 DEF ValuesHeld, Now
  <1>10. CleanRounds'
    <2> SUFFICES ASSUME NEW u \in Tracker, round'[u].at # "idle", round'[u].clean PROVE CleanRound(u)'
      BY DEF CleanRounds
    <2>1. u = t /\ CleanRound(t)
      BY <1>1, <1>3, <1>4 DEF CleanRounds, CleanRound
    <2>2. \A w \in Tracker : w # t => round'[w].at = "idle"
      BY <1>4, <2>1 DEF CleanRound
    <2>3. \A c \in Currency : HasStored(t, c)' => HasStored(t, c)
      BY <1>1, <1>3, RoundKinds DEF HasStored
    <2> QED BY <1>1, <1>3, <1>6, <2>1, <2>2, <2>3 DEF CleanRound
  <1>11. CalmRows'
    BY <1>1, <1>3, <1>4, <1>6 DEF CalmRows
  <1> QED BY <1>8, <1>9, <1>10, <1>11

(* A round that ends without trouble has renewed every row. *)
LEMMA CheckHealthInv == ASSUME ReservesInv, NEW t \in Tracker, CheckHealth(t) PROVE ReservesInv'
  <1> USE ReservesFacts DEF ReservesInv
  <1>1. /\ round[t].at = "read" /\ round[t].i > Basket /\ Goes(t, Idle)
        /\ calm' = (IF round[t].clean /\ calm < 2 THEN calm + 1 ELSE calm)
        /\ UNCHANGED <<newest, chain, event, troubles>> /\ UNCHANGED <<usdRate, holding, had, blended, custody, held>>
    BY OnChainStays DEF CheckHealth
  <1>2. round'[t].at = "idle" /\ ~round'[t].real /\ \A u \in Tracker : u # t => round'[u] = round[u]
    BY <1>1, GoesTo DEF Idle
  <1>3. round' \in [Tracker -> TrackingRound]
    <2>1. Idle \in TrackingRound
      BY DEF Idle, TrackingRound
    <2> QED BY <1>1, <2>1 DEF Goes, ReservesTyped
  <1>4. alert' \in BOOLEAN
    <2>1. alert' = TRUE \/ alert' = alert
      BY DEF CheckHealth
    <2> QED BY <2>1 DEF ReservesTyped
  <1>5. calm' \in 0..2 /\ TrueRows' = TrueRows
    BY <1>1, TrueRowsStay DEF ReservesTyped
  <1>6. ReservesTyped'
    <2>1. \A u \in Tracker : round'[u].at \in {"balance", "store", "push"} => round'[u].i \in Currency
      BY <1>2 DEF ReservesTyped
    <2> QED BY <1>1, <1>3, <1>4, <1>5, <2>1 DEF ReservesTyped
  <1>7. ValuesHeld' /\ event'.warranted
    <2>1. ValueHeld(t)'
      BY <1>2 DEF ValueHeld
    <2>2. \A u \in Tracker : u # t => ValueHeld(u)'
      BY <1>1, <1>2, OthersHold
    <2> QED BY <1>1, <2>1, <2>2 DEF ValuesHeld, Now
  <1>8. round[t].clean => CleanRound(t) /\ \A c \in Currency : HasStored(t, c)
    BY <1>1, RoundKinds DEF CleanRounds, HasStored
  <1>9. CleanRounds'
    <2> SUFFICES ASSUME NEW u \in Tracker, round'[u].at # "idle", round'[u].clean PROVE FALSE
      BY DEF CleanRounds
    <2>1. u # t /\ round[u].at # "idle" /\ round[u].clean
      BY <1>2
    <2> QED BY <1>1, <2>1 DEF CleanRounds, CleanRound
  <1>10. CalmRows'
    <2>1. CASE round[t].clean
      <3>1. \A u \in Tracker : round'[u].at = "idle"
        BY <1>2, <1>8, <2>1 DEF CleanRound
      <3>2. \A c \in Currency : newest[c].value = custody[c] /\ (calm >= 1 => newest[c] = TrueRows[c])
        BY <1>8, <2>1 DEF CleanRound
      <3>3. calm >= 1 => newest = TrueRows
        <4>1. newest = [c \in Currency |-> newest[c]] /\ TrueRows = [c \in Currency |-> TrueRows[c]]
          BY DEF ReservesTyped, TrueRows
        <4> QED BY <3>2, <4>1
      <3>4. calm' = 2 => calm >= 1
        BY <1>1 DEF ReservesTyped
      <3> QED BY <1>1, <1>5, <3>1, <3>2, <3>3, <3>4 DEF CalmRows
    <2>2. CASE ~round[t].clean
      <3>1. calm' = calm /\ calm = 0
        BY <1>1, <2>2 DEF CalmRows, ReservesTyped
      <3> QED BY <3>1 DEF CalmRows
    <2> QED BY <2>1, <2>2
  <1> QED BY <1>6, <1>7, <1>9, <1>10

(* After two calm rounds the rows that decide the moves are true. *)
LEMMA RebalanceInv == ASSUME ReservesInv, Rebalance PROVE ReservesInv'
  <1> USE DEF ReservesInv
  <1>1. UNCHANGED <<newest, chain, round, alert, calm, troubles>> /\ UNCHANGED <<usdRate, holding, had, blended, custody, held>>
    BY OnChainStays DEF Rebalance
  <1>2. PICK moves \in SUBSET (Overweight(newest) \X Underweight(newest)) :
          event' = [status    |-> IF moves # {} THEN "pending" ELSE "completed",
                    moves     |-> moves,
                    warranted |-> calm = 2 => moves \subseteq Overweight(TrueRows) \X Underweight(TrueRows)]
    BY DEF Rebalance
  <1>3. calm = 2 => moves \subseteq Overweight(TrueRows) \X Underweight(TrueRows)
    BY <1>2 DEF CalmRows
  <1>4. event'.warranted
    BY <1>2, <1>3
  <1>5. event'.moves = moves /\ event'.status = IF moves # {} THEN "pending" ELSE "completed"
    BY <1>2
  <1>6. event'.status = "pending" <=> event'.moves # {}
    BY ONLY <1>5
  <1>7. ReservesTyped'
    BY <1>1, <1>6 DEF ReservesTyped
  <1>8. TrueRows' = TrueRows
    BY <1>1, TrueRowsStay
  <1>9. ValuesHeld' /\ CalmRows' /\ CleanRounds'
    BY <1>1, <1>8 DEF ValuesHeld, ValueHeld, RateHeld, Now, CalmRows, CleanRounds, CleanRound, HasStored
  <1> QED BY <1>4, <1>7, <1>9

(* What moves is recorded, with what lay in between; a round that is between its *)
(* reads of the currency now holds a rate that may be gone.                      *)
LEMMA CustodyMovesInv == ASSUME ReservesInv, NEW c \in Currency, CustodyMoves(c) PROVE ReservesInv'
  <1> USE ReservesFacts DEF ReservesInv
  <1>1. /\ round' = [t \in Tracker |-> [round[t] EXCEPT !.clean = FALSE]]
        /\ troubles' \in 0..MaxTroubles /\ calm' = 0
        /\ UNCHANGED <<newest, chain, alert, event>>
    BY DEF CustodyMoves, Troubled, ReservesTyped
  <1>2. PICK r \in 1..MaxRate, h \in 0..MaxHolding :
          /\ usdRate' = [usdRate EXCEPT ![c] = r] /\ holding' = [holding EXCEPT ![c] = h]
          /\ \E between \in {[rate |-> usdRate[c], units |-> h], [rate |-> r, units |-> holding[c]]} :
                had' = [had EXCEPT ![c] = @ \cup {between, [rate |-> r, units |-> h]}]
    BY DEF CustodyMoves
  <1>3. PICK between \in {[rate |-> usdRate[c], units |-> h], [rate |-> r, units |-> holding[c]]} :
          had' = [had EXCEPT ![c] = had[c] \cup {between, [rate |-> r, units |-> h]}]
    BY <1>2
  <1>4. r \in Nat /\ h \in Nat /\ usdRate[c] \in Nat /\ holding[c] \in Nat
    BY DEF ReservesTyped
  <1>5. between \in [rate : Nat, units : Nat] /\ [rate |-> r, units |-> h] \in [rate : Nat, units : Nat]
    BY <1>4
  <1>6. /\ usdRate' \in [Currency -> Nat] /\ holding' \in [Currency -> Nat]
        /\ usdRate'[c] = r /\ holding'[c] = h
        /\ \A d \in Currency : d # c => usdRate'[d] = usdRate[d] /\ holding'[d] = holding[d]
    BY <1>2, <1>4 DEF ReservesTyped
  <1>7. /\ had'[c] = had[c] \cup {between, [rate |-> r, units |-> h]}
        /\ \A d \in Currency : d # c => had'[d] = had[d]
    BY <1>3 DEF ReservesTyped
  <1>8. had' \in [Currency -> SUBSET [rate : Nat, units : Nat]]
    <2> DEFINE more == had[c] \cup {between, [rate |-> r, units |-> h]}
    <2>1. more \subseteq [rate : Nat, units : Nat]
      BY <1>5 DEF ReservesTyped
    <2>2. had' = [had EXCEPT ![c] = more]
      BY <1>3
    <2> HIDE DEF more
    <2> QED BY <2>1, <2>2 DEF ReservesTyped
  <1>9. \A d \in Currency : had[d] \subseteq had'[d]
    BY <1>7
  <1>10. /\ blended \subseteq blended'
         /\ usdRate'[c] # usdRate[c] /\ (\E t \in Tracker : round[t].at = "balance" /\ round[t].i = c) => c \in blended'
    BY DEF CustodyMoves
  <1>11. \A d \in Currency : held[d] \subseteq held'[d]
    BY <1>9, <1>10, HeldGrows
  <1>12. ASSUME NEW d \in Currency PROVE Now(d)' \in had'[d]
    <2>1. CASE d = c
      BY <1>6, <1>7, <2>1 DEF Now
    <2>2. CASE d # c
      BY <1>6, <1>7, <2>2 DEF Now, ValuesHeld
    <2> QED BY <2>1, <2>2
  <1>13. ASSUME NEW t \in Tracker
         PROVE  /\ round'[t] \in TrackingRound /\ round'[t].at = round[t].at /\ round'[t].i = round[t].i
                /\ round'[t].rate = round[t].rate /\ round'[t].value = round[t].value
                /\ round'[t].real = round[t].real /\ ~round'[t].clean
    <2>1. round'[t] = [round[t] EXCEPT !.clean = FALSE] /\ round[t] \in TrackingRound
      BY <1>1, RoundKinds
    <2> QED BY ONLY <2>1 DEF TrackingRound
  <1>14. round' \in [Tracker -> TrackingRound]
    BY <1>1, <1>13
  <1>15. ReservesTyped'
    <2>1. \A u \in Tracker : round'[u].at \in {"balance", "store", "push"} => round'[u].i \in Currency
      BY <1>13 DEF ReservesTyped
    <2> QED BY <1>1, <1>6, <1>8, <1>14, <2>1 DEF ReservesTyped
  <1>16. ASSUME NEW u \in Tracker PROVE ValueHeld(u)'
    <2> DEFINE d == round[u].i
    <2>1. /\ round'[u].at = round[u].at /\ round'[u].i = d /\ round'[u].rate = round[u].rate
          /\ round'[u].value = round[u].value /\ round'[u].real = round[u].real /\ ValueHeld(u)
      BY <1>13 DEF ValuesHeld
    <2>2. round[u].at \in {"balance", "store", "push"} => d \in Currency
      BY DEF ReservesTyped
    <2>3. ASSUME round[u].at = "balance" PROVE RateHeld(u)'
      <3>1. RateHeld(u) /\ d \in Currency
        BY <2>1, <2>2, <2>3 DEF ValueHeld
      <3>2. \E g \in had'[d] : g.rate = round[u].rate
        BY <1>9, <3>1 DEF RateHeld
      <3>3. round[u].rate = usdRate'[d] \/ d \in blended'
        <4>1. CASE d \in blended
          BY <1>10, <4>1
        <4>2. CASE round[u].rate = usdRate[d] /\ d # c
          BY <1>6, <3>1, <4>2
        <4>3. CASE round[u].rate = usdRate[d] /\ d = c
          BY <1>10, <2>3, <4>3
        <4> QED BY <3>1, <4>1, <4>2, <4>3 DEF RateHeld
      <3> QED BY <2>1, <3>2, <3>3 DEF RateHeld
    <2>4. round[u].at \in {"store", "push"} /\ round[u].real => round[u].value \in held'[d]
      BY <1>11, <2>1, <2>2 DEF ValueHeld
    <2>5. round[u].at \in {"idle", "read", "balance"} => ~round[u].real
      BY <2>1 DEF ValueHeld
    <2> QED BY <2>1, <2>3, <2>4, <2>5 DEF ValueHeld
  <1>17. ValuesHeld' /\ event'.warranted
    <2>1. \A d \in Currency : chain'[d] \in held'[d]
      BY <1>1, <1>11 DEF ValuesHeld
    <2> QED BY <1>1, <1>12, <1>16, <2>1 DEF ValuesHeld
  <1>18. CleanRounds'
    BY <1>13 DEF CleanRounds
  <1>19. CalmRows'
    BY <1>1 DEF CalmRows
  <1> QED BY <1>15, <1>17, <1>18, <1>19

(* Pauses, moves, totals and the contract's holdings rest on what custody was, for *)
(* any number of tracking runs that overlap and fail.                              *)
THEOREM ReservesAreSound == ReservesSpec => []ReservesSound
  <1>1. ReservesInv /\ [ReservesNext]_reservesVars => ReservesInv'
    <2> SUFFICES ASSUME ReservesInv, [ReservesNext]_reservesVars PROVE ReservesInv'
      OBVIOUS
    <2>1. CASE UNCHANGED reservesVars
      <3>1. UNCHANGED <<usdRate, holding, had, blended, custody, held>> /\ TrueRows' = TrueRows
        BY <2>1, OnChainStays, TrueRowsStay DEF reservesVars
      <3> QED BY <2>1, <3>1 DEF reservesVars, ReservesInv, ReservesTyped, ValuesHeld, ValueHeld, RateHeld, Now,
                                CleanRounds, CleanRound, HasStored, CalmRows
    <2> QED BY <2>1, StartTrackingInv, ReadRateInv, ReadBalanceInv, StoreSnapshotInv, UpdateReserveInv, CheckHealthInv,
               RebalanceInv, CustodyMovesInv DEF ReservesNext
  <1>2. ReservesInv => ReservesSound
    <2> SUFFICES ASSUME ReservesInv PROVE ReservesSound
      OBVIOUS
    <2> USE ReservesFacts
    <2>1. /\ ReservesTyped /\ event.warranted /\ \A c \in Currency : chain[c] \in held[c]
      BY DEF ReservesInv, ValuesHeld
    <2>2. ReservesTypeOK
      <3>1. \A c \in Currency : newest[c] # NoRow => newest[c].value >= 0 /\ newest[c].weight >= 0
        BY <2>1 DEF ReservesTyped, ReserveRow
      <3> QED BY <2>1, <3>1, RoundKinds DEF ReservesTyped, ReservesTypeOK
    <2>3. calm >= 1 => getTotalReserveValue(newest) = getTotalReserveValue(TrueRows)
      <3> SUFFICES ASSUME calm >= 1 PROVE [c \in Currency |-> newest[c].value] = [c \in Currency |-> TrueRows[c].value]
        BY DEF getTotalReserveValue
      <3> QED BY <2>1, TrueRowsValue DEF ReservesInv, CalmRows
    <2>4. calm = 2 => newest = TrueRows
      BY DEF ReservesInv, CalmRows
    <2> QED BY <2>1, <2>2, <2>3, <2>4 DEF ReservesSound
  <1> QED BY <1>1, <1>2, ReservesInitInv, PTL DEF ReservesSpec

-----------------------------------------------------------------------------
(* BasketDistribution *)
Baskets == UNION {[1..n -> 0..MaxWeight] : n \in 0..MaxBasket}

SplitInv ==
    /\ amount \in Nat /\ basket \in Baskets
    /\ state = "returned" => ~Throws(amount, basket) /\ shares = Distribution(amount, basket)
    /\ state # "returned" => shares = <<>>

(* The comparator as a relation. *)
Comparator(total, b) == {p \in (DOMAIN b) \X (DOMAIN b) : Precedes(total, b, p[1], p[2])}

LEMMA BasketShape ==
  ASSUME NEW b \in Baskets
  PROVE  /\ Len(b) \in Nat /\ DOMAIN b = 1..Len(b) /\ IsFiniteSet(DOMAIN b) /\ Cardinality(DOMAIN b) = Len(b)
         /\ \A i \in DOMAIN b : b[i] \in Nat
  <1>1. MaxBasket \in Nat /\ MaxWeight \in Nat
    BY DistributionAssumption
  <1>2. PICK n \in 0..MaxBasket : b \in [1..n -> 0..MaxWeight]
    BY DEF Baskets
  <1>3. n \in Nat /\ b \in Seq(Nat) /\ Len(b) = n /\ DOMAIN b = 1..n
    <2>1. n \in Nat /\ b \in [1..n -> Nat]
      BY <1>1, <1>2
    <2> QED BY <2>1
  <1>4. IsFiniteSet(1..n) /\ Cardinality(1..n) = n
    <2>1. 1 \in Int /\ n \in Int
      BY <1>3
    <2>2. IsFiniteSet(1..n) /\ Cardinality(1..n) = IF 1 > n THEN 0 ELSE n - 1 + 1
      BY ONLY <2>1, FS_Interval
    <2> QED BY <1>3, <2>2
  <1> QED BY <1>1, <1>2, <1>3, <1>4

LEMMA WeightTyped ==
  ASSUME NEW b \in Baskets
  PROVE  totalWeight(b) \in Int /\ totalWeight(b) = SumFunctionOnSet(b, DOMAIN b)
  <1>1. \A i \in DOMAIN b : b[i] \in Int
    BY BasketShape
  <1>2. IsFiniteSet(DOMAIN b)
    BY BasketShape
  <1> QED BY <1>1, <1>2, SumTyped, SumIsOnDomain DEF totalWeight

(* Truncation to whole stroops. *)
LEMMA WholeStroops ==
  ASSUME NEW a \in Nat
  PROVE  totalAtomic(a) \in Nat /\ totalAtomic(a) * Sub <= a /\ a < (totalAtomic(a) + 1) * Sub
  <1>1. Sub \in Nat /\ Sub > 0
    BY DistributionAssumption
  <1>2. a = Sub * (a \div Sub) + (a % Sub) /\ a % Sub \in 0..Sub - 1 /\ a \div Sub \in Nat
    BY <1>1
  <1>3. PICK q \in Nat, r \in 0..Sub - 1 : q = a \div Sub /\ a = Sub * q + r
    BY <1>2
  <1>4. q * Sub <= a /\ a < (q + 1) * Sub
    BY <1>1, <1>3
  <1> QED BY <1>3, <1>4 DEF totalAtomic

LEMMA ComparatorOrders ==
  ASSUME NEW b \in Baskets, NEW total \in Nat, totalWeight(b) > 0
  PROVE  /\ Orders(Comparator(total, b), DOMAIN b)
         /\ \A i, j \in DOMAIN b : remainder(total, b, i) > remainder(total, b, j) => <<i, j>> \in Comparator(total, b)
  <1> DEFINE rest == [i \in DOMAIN b |-> remainder(total, b, i)]
  <1>1. \A i \in DOMAIN b : rest[i] \in Int /\ b[i] \in Int /\ i \in Int
    <2> TAKE i \in DOMAIN b
    <2>1. b[i] \in Nat /\ i \in Int /\ totalWeight(b) \in Int
      BY BasketShape, WeightTyped
    <2>2. (total * b[i]) % totalWeight(b) \in Int
      <3>1. PICK p \in Nat : p = total * b[i]
        BY <2>1
      <3> QED BY <2>1, <3>1
    <2> QED BY <2>1, <2>2 DEF remainder
  <1>2. \A i, j \in DOMAIN b : <<i, j>> \in Comparator(total, b) <=>
            \/ rest[i] > rest[j]
            \/ rest[i] = rest[j] /\ b[i] > b[j]
            \/ rest[i] = rest[j] /\ b[i] = b[j] /\ i < j
    BY DEF Comparator, Precedes
  <1>3. \A i \in DOMAIN b : rest[i] = remainder(total, b, i)
    OBVIOUS
  <1> HIDE DEF rest
  <1>4. Orders(Comparator(total, b), DOMAIN b)
    <2>1. \A x \in DOMAIN b : <<x, x>> \notin Comparator(total, b)
      BY <1>1, <1>2
    <2>2. \A x, y \in DOMAIN b : x # y => <<x, y>> \in Comparator(total, b) \/ <<y, x>> \in Comparator(total, b)
      BY <1>1, <1>2
    <2>3. \A x, y, z \in DOMAIN b : <<x, y>> \in Comparator(total, b) /\ <<y, z>> \in Comparator(total, b)
                                       => <<x, z>> \in Comparator(total, b)
      BY <1>1, <1>2
    <2> QED BY <2>1, <2>2, <2>3 DEF Orders
  <1> QED BY <1>2, <1>3, <1>4

(* The place in the sorted indices is the rank in the comparator's order. *)
LEMMA PlaceIsRank ==
  ASSUME NEW b \in Baskets, NEW total \in Nat, totalWeight(b) > 0, NEW i \in DOMAIN b
  PROVE  Place(total, b, i) = Rank(Comparator(total, b), DOMAIN b, i)
  <1>1. <<i, i>> \notin Comparator(total, b)
    BY ComparatorOrders DEF Orders
  <1>2. {j \in DOMAIN b : j # i /\ Precedes(total, b, j, i)} = {j \in DOMAIN b : <<j, i>> \in Comparator(total, b)}
    BY <1>1 DEF Comparator
  <1> QED BY <1>2 DEF Place, Rank

(* Each place below the residual is met once by the loop, when the residual is no more *)
(* than the entries.                                                                   *)
LEMMA LoopGivesOne ==
  ASSUME NEW n \in Nat, NEW missing \in 0..n, NEW place \in 0..n - 1
  PROVE  Cardinality({k \in 0..missing - 1 : k % n = place}) = IF place < missing THEN 1 ELSE 0
  <1> DEFINE met == {k \in 0..missing - 1 : k % n = place}
  <1>1. \A k \in 0..missing - 1 : k % n = k
    <2> TAKE k \in 0..missing - 1
    <2>1. k \in Nat /\ n > 0 /\ k < n
      OBVIOUS
    <2> QED BY ONLY <2>1, n \in Nat
  <1>2. CASE place < missing
    <2>1. met = {place}
      BY <1>1, <1>2
    <2> HIDE DEF met
    <2> QED BY <1>2, <2>1, FS_Singleton DEF met
  <1>3. CASE ~(place < missing)
    <2>1. met = {}
      BY <1>1, <1>3
    <2> HIDE DEF met
    <2> QED BY <1>3, <2>1, FS_EmptySet DEF met
  <1> QED BY <1>2, <1>3

(* Two or more entries: the shares add up to the total, each is its quota rounded  *)
(* down or up, and they follow the weights.                                        *)
LEMMA SharesFair ==
  ASSUME NEW b \in Baskets, NEW total \in Nat, totalWeight(b) > 0, NEW s,
         s = [i \in DOMAIN b |-> finalAtomic(total, b, i)]
  PROVE  /\ SumFunction(s) = total
         /\ \A i \in DOMAIN b : /\ s[i] * totalWeight(b) > total * b[i] - totalWeight(b)
                                /\ s[i] * totalWeight(b) < total * b[i] + totalWeight(b)
         /\ \A i, j \in DOMAIN b : b[i] > b[j] \/ (b[i] = b[j] /\ i < j) => s[i] >= s[j]
  <1> DEFINE S == DOMAIN b
             W == totalWeight(b)
             R == Comparator(total, b)
             base == [i \in S |-> baseAtomic(total, b, i)]
             rest == [i \in S |-> remainder(total, b, i)]
             missing == residual(total, b)
  <1>1. IsFiniteSet(S) /\ W \in Nat /\ W > 0 /\ W = SumFunctionOnSet(b, S) /\ Len(b) \in Nat /\ Cardinality(S) = Len(b)
    BY BasketShape, WeightTyped
  <1>2. Quotas(S, b, total, W, base, rest)
    BY BasketShape DEF Quotas, baseAtomic, remainder
  <1>3. Orders(R, S) /\ \A i, j \in S : rest[i] > rest[j] => <<i, j>> \in R
    BY ComparatorOrders
  <1>4. missing = total - SumFunctionOnSet(base, S)
    <2>1. DOMAIN base = S /\ missing = total - SumFunction(base)
      BY DEF residual
    <2> HIDE DEF base, missing
    <2> QED BY <2>1, SumIsOnDomain
  <1>5. missing \in 0..Cardinality(S)
    <2>1. total - SumFunctionOnSet(base, S) \in 0..Cardinality({x \in S : rest[x] > 0})
      <3> HIDE DEF S, W, base, rest
      <3> QED BY <1>1, <1>2, MissingBounded
    <2>2. /\ Cardinality({x \in S : rest[x] > 0}) <= Cardinality(S) /\ Cardinality({x \in S : rest[x] > 0}) \in Nat
          /\ Cardinality(S) \in Nat
      <3>1. {x \in S : rest[x] > 0} \subseteq S
        OBVIOUS
      <3> HIDE DEF S, rest
      <3> QED BY <1>1, <3>1, FS_Subset, FS_CardinalityType
    <2> HIDE DEF S, rest, base, missing
    <2> QED BY <1>4, <2>1, <2>2
  <1>6. \A i \in S : s[i] = base[i] + IF Rank(R, S, i) < missing THEN 1 ELSE 0
    <2> TAKE i \in S
    <2>1. Place(total, b, i) = Rank(R, S, i) /\ Rank(R, S, i) \in 0..Len(b) - 1
      <3>1. Rank(R, S, i) \in 0..Cardinality(S) - 1
        <4> HIDE DEF S, R
        <4> QED BY <1>1, <1>3, RankBelow
      <3> QED BY <1>1, <3>1, PlaceIsRank
    <2>2. s[i] = base[i] + Cardinality({k \in 0..missing - 1 : k % Len(b) = Place(total, b, i)})
      BY DEF finalAtomic
    <2>3. missing \in 0..Len(b) /\ Len(b) \in Nat
      BY <1>1, <1>5
    <2> HIDE DEF missing, base, R, S
    <2>4. Cardinality({k \in 0..missing - 1 : k % Len(b) = Rank(R, S, i)}) = IF Rank(R, S, i) < missing THEN 1 ELSE 0
      BY ONLY <2>1, <2>3, LoopGivesOne
    <2> QED BY <2>1, <2>2, <2>4, Zenon
  <1>7. DOMAIN s = S
    OBVIOUS
  <1>a. \A i \in S : i \in Int /\ b[i] \in Nat
    BY BasketShape
  <1>b. \A i, j \in S : <<i, j>> \in R <=>
            \/ rest[i] > rest[j]
            \/ rest[i] = rest[j] /\ b[i] > b[j]
            \/ rest[i] = rest[j] /\ b[i] = b[j] /\ i < j
    BY DEF Comparator, Precedes
  <1> HIDE DEF S, W, R, base, rest, missing
  <1>c. Apportions(s, S, b, total, W, base, rest, R)
    <2>1. \A i \in S : s[i] = base[i] + IF Rank(R, S, i) < total - SumFunctionOnSet(base, S) THEN 1 ELSE 0
      BY <1>4, <1>6, Zenon
    <2> QED BY <1>1, <1>2, <1>3, <2>1, Zenon DEF Apportions
  <1>8. /\ SumFunctionOnSet(s, S) = total
        /\ \A x \in S : s[x] * W > total * b[x] - W /\ s[x] * W < total * b[x] + W
        /\ \A x, y \in S : b[x] >= b[y] /\ (rest[x] >= rest[y] => <<x, y>> \in R) => s[x] >= s[y]
        /\ \A x \in S : s[x] \in Nat /\ rest[x] \in Nat /\ base[x] \in Nat
    BY ONLY <1>c, SharesRight, Zenon
  <1>9. SumFunction(s) = total
    BY <1>7, <1>8, SumIsOnDomain
  <1>10. ASSUME NEW i \in S, NEW j \in S, b[i] > b[j] \/ (b[i] = b[j] /\ i < j)
         PROVE  s[i] >= s[j]
    <2>1. b[i] >= b[j]
      BY <1>a, <1>10
    <2>2. rest[i] >= rest[j] => <<i, j>> \in R
      <3>1. rest[i] \in Nat /\ rest[j] \in Nat /\ b[i] \in Nat /\ b[j] \in Nat
        BY <1>8, <1>a
      <3>2. ASSUME rest[i] >= rest[j]
            PROVE  \/ rest[i] > rest[j]
                   \/ rest[i] = rest[j] /\ b[i] > b[j]
                   \/ rest[i] = rest[j] /\ b[i] = b[j] /\ i < j
        <4>1. rest[i] > rest[j] \/ rest[i] = rest[j]
          BY <3>1, <3>2
        <4> QED BY ONLY <1>10, <4>1
      <3> QED BY <1>b, <3>2, Zenon
    <2> QED BY <1>8, <2>1, <2>2
  <1> QED BY <1>8, <1>9, <1>10 DEF S, W

LEMMA SplitInitInv == DistributionInit => SplitInv
  BY DEF DistributionInit, SplitInv, Baskets

LEMMA SplitNextInv ==
  ASSUME SplitInv, [calculateBasketDistribution]_distributionVars
  PROVE  SplitInv'
  <1>1. CASE calculateBasketDistribution
    BY <1>1, Zenon DEF SplitInv, calculateBasketDistribution
  <1>2. CASE UNCHANGED distributionVars
    BY <1>2 DEF SplitInv, distributionVars
  <1> QED BY <1>1, <1>2

LEMMA SplitInvFair ==
  ASSUME SplitInv
  PROVE  FairShares
  <1> SUFFICES ASSUME state = "returned", shares # <<>>
               PROVE  LET sum == SumFunction(shares)
                          W   == totalWeight(basket)
                      IN /\ sum * Sub <= amount /\ amount < (sum + 1) * Sub
                         /\ Len(basket) > 1 => \A i \in DOMAIN basket :
                               /\ shares[i] * W > sum * basket[i] - W
                               /\ shares[i] * W < sum * basket[i] + W
                         /\ \A i, j \in DOMAIN basket :
                               basket[i] > basket[j] \/ (basket[i] = basket[j] /\ i < j) => shares[i] >= shares[j]
    BY DEF FairShares, Split
  <1> DEFINE total == totalAtomic(amount)
  <1>1. amount \in Nat /\ basket \in Baskets /\ ~Throws(amount, basket) /\ shares = Distribution(amount, basket)
    BY DEF SplitInv
  <1>2. total \in Nat /\ total * Sub <= amount /\ amount < (total + 1) * Sub
    BY <1>1, WholeStroops
  <1>3. /\ Len(basket) \in Nat /\ DOMAIN basket = 1..Len(basket)
        /\ totalWeight(basket) \in Int
        /\ \A i \in DOMAIN basket : i \in Int /\ basket[i] \in Nat
    BY <1>1, BasketShape, WeightTyped
  <1>4. Len(basket) # 0 /\ total > 0
    BY <1>1, <1>2, <1>3 DEF Distribution
  <1>5. CASE Len(basket) = 1
    <2>1. shares = <<total>>
      BY <1>1, <1>2, <1>4, <1>5 DEF Distribution
    <2>2. DOMAIN shares = {1} /\ shares[1] = total /\ DOMAIN basket = {1}
      BY <1>3, <1>5, <2>1
    <2>3. SumFunctionOnSet(shares, {1}) = total
      <3> HIDE DEF total
      <3>0. total \in Int
        BY <1>2
      <3>1. IsFiniteSet({1}) /\ (\A x \in {1} : shares[x] \in Int) /\ 1 \in {1} /\ {1} \ {1} = {}
        <4>1. IsFiniteSet({1})
          BY FS_Singleton
        <4> QED BY <2>2, <3>0, <4>1
      <3>2. SumFunctionOnSet(shares, {1}) = shares[1] + SumFunctionOnSet(shares, {1} \ {1})
        BY ONLY <3>1, SumRemove
      <3>3. SumFunctionOnSet(shares, {1} \ {1}) = 0
        BY <3>1, SumEmpty
      <3> QED BY <1>2, <2>2, <3>2, <3>3
    <2>4. SumFunction(shares) = total
      BY <2>2, <2>3, SumIsOnDomain
    <2>5. \A i, j \in DOMAIN basket :
                basket[i] > basket[j] \/ (basket[i] = basket[j] /\ i < j) => shares[i] >= shares[j]
      <3>1. \A i, j \in DOMAIN basket : i = 1 /\ j = 1
        BY <2>2
      <3>2. basket[1] \in Nat
        BY <1>3, <2>2
      <3> QED BY <3>1, <3>2
    <2> HIDE DEF total
    <2> QED BY <1>2, <1>5, <2>4, <2>5
  <1>6. CASE Len(basket) > 1
    <2>1. totalWeight(basket) > 0
      BY <1>1, <1>2, <1>3, <1>4, <1>6 DEF Throws
    <2>2. shares = [i \in DOMAIN basket |-> finalAtomic(total, basket, i)]
      <3>1. ~(Len(basket) = 0 \/ total <= 0) /\ ~(Len(basket) = 1)
        <4> HIDE DEF total
        <4>1. ~(total <= 0)
          BY <1>2, <1>4
        <4>2. ~(Len(basket) = 1)
          BY <1>3, <1>6
        <4> QED BY <1>4, <4>1, <4>2
      <3> QED BY <1>1, <3>1, Zenon DEF Distribution
    <2> HIDE DEF total
    <2>3. /\ SumFunction(shares) = total
          /\ \A i \in DOMAIN basket :
                /\ shares[i] * totalWeight(basket) > total * basket[i] - totalWeight(basket)
                /\ shares[i] * totalWeight(basket) < total * basket[i] + totalWeight(basket)
          /\ \A i, j \in DOMAIN basket :
                basket[i] > basket[j] \/ (basket[i] = basket[j] /\ i < j) => shares[i] >= shares[j]
      BY <1>1, <1>2, <2>1, <2>2, SharesFair
    <2> QED BY <1>2, <2>3, Zenon
  <1> QED BY <1>3, <1>4, <1>5, <1>6

(* calculateBasketDistribution of jobs/usdcConversionJob.ts: for any basket, amount *)
(* and weights the shares add up to the whole stroops of the amount, each is its    *)
(* exact quota rounded down or up, and no currency gets less than a lighter one, or *)
(* than a later one of its weight.                                                  *)
THEOREM SharesAreFair == DistributionSpec => []FairShares
  <1>1. DistributionInit => SplitInv
    BY SplitInitInv
  <1>2. SplitInv /\ [calculateBasketDistribution]_distributionVars => SplitInv'
    BY SplitNextInv
  <1>3. SplitInv => FairShares
    BY SplitInvFair
  <1> QED BY <1>1, <1>2, <1>3, PTL DEF DistributionSpec

-----------------------------------------------------------------------------
(* BasketWeights *)

(* The row that process j creates for currency c. *)
ProposedRow(j, c) == [from |-> from[j], coin |-> c, weight |-> rounded[c], by |-> j]

WeightsTyped ==
    /\ gdp \in [Coin -> Nat] /\ trade \in [Coin -> Nat] /\ day \in 1..MaxDay
    /\ wpos \in [Proposer -> 0..Cardinality(Coin)] /\ from \in [Proposer -> 0..MaxDay]
    /\ active \subseteq proposed

(* Who creates rows has begun, and not later than now. *)
PassesBegun == \A j \in Proposer : from[j] <= day /\ (wpos[j] # 0 => from[j] # 0)

(* A row is what its process creates, for ever: it runs no second pass. *)
RowsMade == \A r \in proposed : \E j \in Proposer : \E c \in Coin : from[j] # 0 /\ r = ProposedRow(j, c)

(* The instant of a pass tells whose it is. *)
InstantsTell ==
    collided \in BOOLEAN /\ (~collided => \A j, k \in Proposer : from[j] = from[k] /\ from[j] # 0 => j = k)

WeightsInv == WeightsTyped /\ PassesBegun /\ RowsMade /\ InstantsTell

-----------------------------------------------------------------------------
LEMMA WeightsFacts ==
  /\ IsFiniteSet(Coin) /\ Coin = 1..Cardinality(Coin) /\ Coin # {} /\ Cardinality(Coin) \in Nat \ {0}
  /\ BasisPoints \in Nat /\ MaxDay \in Nat \ {0} /\ MaxGdp \in Nat /\ MaxTrade \in Nat
  /\ \A c \in Coin : c \in Nat \ {0}
  <1>1. IsFiniteSet(Coin) /\ Coin = 1..Cardinality(Coin) /\ Coin # {}
    BY BasketWeightsAssumption
  <1>2. Cardinality(Coin) \in Nat
    BY <1>1, FS_CardinalityType
  <1> QED BY <1>1, <1>2, BasketWeightsAssumption

(* The scores: every currency has some, for its liquidity. *)
LEMMA ScoreTyped ==
  ASSUME NEW x \in Nat, NEW y \in Nat, NEW g \in Nat \ {0}, NEW t \in Nat \ {0}, NEW n \in Nat
  PROVE  4 * x * t * n + 3 * y * g * n + 3 * g * t \in Nat \ {0}
  <1>1. 4 * x * t \in Nat /\ 3 * y * g \in Nat /\ 3 * g \in Nat \ {0}
    OBVIOUS
  <1>2. PICK a \in Nat, b \in Nat, d \in Nat \ {0} : a = 4 * x * t /\ b = 3 * y * g /\ d = 3 * g
    BY <1>1
  <1>3. a * n \in Nat /\ b * n \in Nat /\ d * t \in Nat \ {0}
    OBVIOUS
  <1> QED BY <1>2, <1>3

LEMMA ScoresPositive ==
  ASSUME gdp \in [Coin -> Nat], trade \in [Coin -> Nat]
  PROVE  /\ DOMAIN proposedWeightRaw = Coin /\ \A c \in Coin : proposedWeightRaw[c] \in Nat \ {0}
         /\ Total(proposedWeightRaw) \in Nat \ {0}
         /\ Total(proposedWeightRaw) = SumFunctionOnSet(proposedWeightRaw, Coin)
  <1> DEFINE w == proposedWeightRaw
  <1>1. Total(gdp) \in Nat /\ Total(trade) \in Nat
    <2>1. Total(gdp) = SumFunctionOnSet(gdp, Coin) /\ Total(trade) = SumFunctionOnSet(trade, Coin)
      <3>1. DOMAIN gdp = Coin /\ DOMAIN trade = Coin
        OBVIOUS
      <3> QED BY <3>1, SumIsOnDomain DEF Total
    <2>2. (\A c \in Coin : gdp[c] \in Nat) /\ (\A c \in Coin : trade[c] \in Nat) /\ IsFiniteSet(Coin)
      BY WeightsFacts
    <2> QED BY <2>1, <2>2, SumNat
  <1>2. OrOne(Total(gdp)) \in Nat \ {0} /\ OrOne(Total(trade)) \in Nat \ {0}
    BY <1>1 DEF OrOne
  <1>3. PICK g \in Nat \ {0}, t \in Nat \ {0}, n \in Nat :
            g = OrOne(Total(gdp)) /\ t = OrOne(Total(trade)) /\ n = Cardinality(Coin)
    BY <1>2, WeightsFacts
  <1>4. w = [c \in Coin |-> 4 * gdp[c] * t * n + 3 * trade[c] * g * n + 3 * g * t]
    BY <1>3, Zenon DEF proposedWeightRaw
  <1>5. DOMAIN w = Coin /\ \A c \in Coin : w[c] \in Nat \ {0}
    <2>1. \A c \in Coin : gdp[c] \in Nat /\ trade[c] \in Nat
      OBVIOUS
    <2>2. \A c \in Coin : 4 * gdp[c] * t * n + 3 * trade[c] * g * n + 3 * g * t \in Nat \ {0}
      BY ONLY <2>1, <1>3, ScoreTyped
    <2> HIDE DEF w
    <2> QED BY <1>4, <2>2
  <1> HIDE DEF w
  <1>6. Total(w) = SumFunctionOnSet(w, Coin)
    BY <1>5, SumIsOnDomain DEF Total
  <1>7. SumFunctionOnSet(w, Coin) \in Nat /\ \A c \in Coin : w[c] <= SumFunctionOnSet(w, Coin)
    <2>1. IsFiniteSet(Coin) /\ \A c \in Coin : w[c] \in Nat
      BY <1>5, WeightsFacts
    <2> QED BY ONLY <2>1, SumNat
  <1>8. SumFunctionOnSet(w, Coin) # 0
    <2>1. PICK c \in Coin : TRUE
      BY WeightsFacts
    <2> QED BY <1>5, <1>7, <2>1
  <1> QED BY <1>5, <1>6, <1>7, <1>8 DEF w

(* The order of the sort by falling remainder. *)
FallingRest(rest) == {p \in Coin \X Coin : rest[p[1]] > rest[p[2]] \/ (rest[p[1]] = rest[p[2]] /\ p[1] < p[2])}

LEMMA FallingRestOrders ==
  ASSUME NEW rest, \A c \in Coin : rest[c] \in Int
  PROVE  /\ Orders(FallingRest(rest), Coin)
         /\ \A c, d \in Coin : rest[c] > rest[d] => <<c, d>> \in FallingRest(rest)
         /\ \A c \in Coin : Before(rest, c) = Rank(FallingRest(rest), Coin, c)
  <1>1. \A c, d \in Coin : <<c, d>> \in FallingRest(rest) <=> rest[c] > rest[d] \/ (rest[c] = rest[d] /\ c < d)
    BY DEF FallingRest
  <1>2. \A c \in Coin : c \in Nat
    BY WeightsFacts
  <1>3. Orders(FallingRest(rest), Coin)
    <2>1. \A x \in Coin : <<x, x>> \notin FallingRest(rest)
      BY <1>1, <1>2
    <2>2. \A x, y \in Coin : x # y => <<x, y>> \in FallingRest(rest) \/ <<y, x>> \in FallingRest(rest)
      BY <1>1, <1>2
    <2>3. \A x, y, z \in Coin : <<x, y>> \in FallingRest(rest) /\ <<y, z>> \in FallingRest(rest)
                                  => <<x, z>> \in FallingRest(rest)
      BY <1>1, <1>2
    <2> QED BY <2>1, <2>2, <2>3 DEF Orders
  <1>4. \A c \in Coin : Before(rest, c) = Rank(FallingRest(rest), Coin, c)
    <2> TAKE c \in Coin
    <2>1. {d \in Coin : rest[d] > rest[c] \/ (rest[d] = rest[c] /\ d < c)} = {d \in Coin : <<d, c>> \in FallingRest(rest)}
      BY <1>1
    <2> QED BY <2>1 DEF Before, Rank
  <1> QED BY <1>1, <1>3, <1>4

LEMMA RoundedApportions ==
  ASSUME gdp \in [Coin -> Nat], trade \in [Coin -> Nat]
  PROVE  Apportions(rounded, Coin, proposedWeightRaw, BasisPoints, Total(proposedWeightRaw),
                    floored(proposedWeightRaw), fraction(proposedWeightRaw),
                    FallingRest(fraction(proposedWeightRaw)))
  <1> DEFINE w == proposedWeightRaw
             W == Total(w)
             base == floored(w)
             rest == fraction(w)
             R == FallingRest(rest)
  <1>1. (\A c \in Coin : w[c] \in Nat) /\ W \in Nat /\ W > 0 /\ W = SumFunctionOnSet(w, Coin)
        /\ BasisPoints \in Nat /\ IsFiniteSet(Coin)
    BY ScoresPositive, WeightsFacts
  <1>2. \A c \in Coin : base[c] = (w[c] * BasisPoints) \div W /\ rest[c] = (w[c] * BasisPoints) % W
    BY DEF floored, fraction
  <1>3. DOMAIN base = Coin
    BY DEF floored
  <1>4. \A c \in Coin : rounded[c] = base[c] + IF Before(rest, c) < BasisPoints - Total(base) THEN 1 ELSE 0
    BY DEF rounded, roundWeightsToExactBasisPoints
  <1> HIDE DEF w, W, base, rest
  <1>5. Quotas(Coin, w, BasisPoints, W, base, rest)
    <2> SUFFICES ASSUME NEW c \in Coin
                 PROVE  w[c] \in Nat /\ base[c] = (BasisPoints * w[c]) \div W /\ rest[c] = (BasisPoints * w[c]) % W
      BY DEF Quotas
    <2>1. w[c] * BasisPoints = BasisPoints * w[c]
      BY <1>1
    <2> QED BY <1>1, <1>2, <2>1
  <1>6. Total(base) = SumFunctionOnSet(base, Coin)
    BY <1>3, SumIsOnDomain DEF Total
  <1>7. \A c \in Coin : rest[c] \in Int
    <2>1. BasisPoints \in Nat /\ W \in Nat /\ W > 0
      BY <1>1
    <2>2. \A c \in Coin : rest[c] \in 0..W - 1
      BY ONLY <1>5, <2>1, QuotaTyped
    <2> QED BY <2>1, <2>2
  <1>8. /\ Orders(R, Coin) /\ (\A c, d \in Coin : rest[c] > rest[d] => <<c, d>> \in R)
        /\ \A c \in Coin : Before(rest, c) = Rank(R, Coin, c)
    BY <1>7, FallingRestOrders
  <1> HIDE DEF R
  <1>9. \A c \in Coin : rounded[c] = base[c] + IF Rank(R, Coin, c) < BasisPoints - SumFunctionOnSet(base, Coin) THEN 1 ELSE 0
    BY <1>4, <1>6, <1>8, Zenon
  <1>10. Apportions(rounded, Coin, w, BasisPoints, W, base, rest, R)
    BY <1>1, <1>5, <1>8, <1>9, Zenon DEF Apportions
  <1> QED BY <1>10 DEF w, W, base, rest, R

LEMMA RoundedRight ==
  ASSUME gdp \in [Coin -> Nat], trade \in [Coin -> Nat]
  PROVE  /\ DOMAIN rounded = Coin /\ (\A c \in Coin : rounded[c] \in 0..BasisPoints)
         /\ SumFunctionOnSet(rounded, Coin) = BasisPoints /\ Total(rounded) = BasisPoints
         /\ \A c \in Coin : rounded[c] \in {floored(proposedWeightRaw)[c], floored(proposedWeightRaw)[c] + 1}
         /\ \A c, d \in Coin : proposedWeightRaw[c] > proposedWeightRaw[d] => rounded[c] >= rounded[d]
  <1> DEFINE w == proposedWeightRaw
             W == Total(w)
             base == floored(w)
             rest == fraction(w)
             R == FallingRest(rest)
  <1>1. Apportions(rounded, Coin, w, BasisPoints, W, base, rest, R)
    BY RoundedApportions
  <1>2. DOMAIN rounded = Coin
    BY DEF rounded, roundWeightsToExactBasisPoints
  <1> HIDE DEF w, W, base, rest, R
  <1>3. SumFunctionOnSet(rounded, Coin) = BasisPoints /\ \A c \in Coin : rounded[c] \in Nat /\ base[c] \in Nat
    BY ONLY <1>1, SharesRight
  <1>4. \A c \in Coin : rounded[c] \in 0..BasisPoints
    <2>1. IsFiniteSet(Coin) /\ \A c \in Coin : rounded[c] \in Nat
      BY <1>3, WeightsFacts
    <2>2. \A c \in Coin : rounded[c] <= SumFunctionOnSet(rounded, Coin)
      BY ONLY <2>1, SumNat
    <2> QED BY <1>3, <2>1, <2>2, WeightsFacts
  <1>5. \A c \in Coin : rounded[c] \in {base[c], base[c] + 1}
    <2>1. \A c \in Coin : rounded[c] = base[c] + IF Rank(R, Coin, c) < BasisPoints - SumFunctionOnSet(base, Coin) THEN 1 ELSE 0
      BY <1>1, Zenon DEF Apportions
    <2> QED BY <1>3, <2>1
  <1>6. \A c, d \in Coin : w[c] > w[d] => rounded[c] >= rounded[d]
    BY ONLY <1>1, HeavierGetsMore
  <1>7. Total(rounded) = BasisPoints
    BY <1>2, <1>3, SumIsOnDomain DEF Total
  <1> QED BY <1>2, <1>3, <1>4, <1>5, <1>6, <1>7 DEF w, base

LEMMA WeightsInitInv == BasketWeightsInit => WeightsInv
  <1> SUFFICES ASSUME BasketWeightsInit PROVE WeightsInv
    OBVIOUS
  <1>1. WeightsTyped
    <2>1. gdp \in [Coin -> Nat] /\ trade \in [Coin -> Nat]
      BY WeightsFacts DEF BasketWeightsInit
    <2>2. day \in 1..MaxDay /\ active \subseteq proposed
      BY WeightsFacts DEF BasketWeightsInit
    <2>3. wpos \in [Proposer -> 0..Cardinality(Coin)] /\ from \in [Proposer -> 0..MaxDay]
      <3>1. 0 \in 0..Cardinality(Coin) /\ 0 \in 0..MaxDay
        BY WeightsFacts
      <3> QED BY <3>1 DEF BasketWeightsInit
    <2> QED BY <2>1, <2>2, <2>3 DEF WeightsTyped
  <1>2. PassesBegun
    BY DEF BasketWeightsInit, PassesBegun
  <1>3. RowsMade /\ InstantsTell
    BY DEF BasketWeightsInit, RowsMade, InstantsTell
  <1> QED BY <1>1, <1>2, <1>3 DEF WeightsInv

(* While the metrics stay, a row that is there stays what its process creates. *)
LEMMA RowsStay ==
  ASSUME RowsMade, UNCHANGED <<gdp, trade>>, \A j \in Proposer : from[j] # 0 => from'[j] = from[j],
         \A r \in proposed' \ proposed : \E j \in Proposer : \E c \in Coin : from[j] # 0 /\ r = ProposedRow(j, c)
  PROVE  RowsMade'
  <1>1. rounded' = rounded
    BY DEF rounded, roundWeightsToExactBasisPoints, proposedWeightRaw
  <1> SUFFICES ASSUME NEW r \in proposed'
               PROVE  \E j \in Proposer : \E c \in Coin : from'[j] # 0 /\ r = ProposedRow(j, c)'
    BY DEF RowsMade
  <1>2. PICK j \in Proposer, c \in Coin : from[j] # 0 /\ r = ProposedRow(j, c)
    BY DEF RowsMade
  <1>3. from'[j] = from[j]
    BY <1>2
  <1>4. ProposedRow(j, c)' = ProposedRow(j, c)
    BY <1>1, <1>3 DEF ProposedRow
  <1> QED BY <1>2, <1>3, <1>4

LEMMA WeightsNextInv ==
  ASSUME WeightsInv, [BasketWeightsNext]_weightVars
  PROVE  WeightsInv'
  <1>0. WeightsTyped /\ PassesBegun /\ RowsMade /\ InstantsTell
    BY DEF WeightsInv
  <1>1. CASE InstantPasses
    <2>1. day < MaxDay /\ day' = day + 1 /\ UNCHANGED <<gdp, trade, wpos, from, proposed, active, collided>>
      BY <1>1 DEF InstantPasses
    <2>2. day' \in 1..MaxDay
      BY <1>0, <2>1, WeightsFacts DEF WeightsTyped
    <2>3. WeightsTyped'
      BY <1>0, <2>1, <2>2 DEF WeightsTyped
    <2>4. PassesBegun'
      <3>1. \A j \in Proposer : from[j] \in Nat /\ day \in Nat /\ from[j] <= day /\ (wpos[j] # 0 => from[j] # 0)
        BY <1>0 DEF WeightsTyped, PassesBegun
      <3>2. \A j \in Proposer : from[j] <= day + 1
        BY <3>1
      <3> QED BY <2>1, <3>1, <3>2 DEF PassesBegun
    <2>5. RowsMade'
      BY <1>0, <2>1, RowsStay
    <2>6. InstantsTell'
      BY <1>0, <2>1 DEF InstantsTell
    <2> QED BY <2>3, <2>4, <2>5, <2>6 DEF WeightsInv
  <1>2. ASSUME NEW j \in Proposer, ingestMetricsAndProposeWeights(j) PROVE WeightsInv'
    <2>1. /\ wpos[j] = 0 /\ from[j] = 0
          /\ wpos' = [wpos EXCEPT ![j] = 1] /\ from' = [from EXCEPT ![j] = day]
          /\ UNCHANGED <<gdp, trade, day, proposed, active>>
      BY <1>2 DEF ingestMetricsAndProposeWeights
    <2>2. /\ wpos \in [Proposer -> 0..Cardinality(Coin)] /\ from \in [Proposer -> 0..MaxDay] /\ day \in 1..MaxDay
          /\ 1 \in 0..Cardinality(Coin) /\ day \in 0..MaxDay /\ day # 0
      BY <1>0, WeightsFacts DEF WeightsTyped
    <2>3. WeightsTyped'
      BY <1>0, <2>1, <2>2 DEF WeightsTyped
    <2>4. \A k \in Proposer : from'[k] = (IF k = j THEN day ELSE from[k]) /\ wpos'[k] = (IF k = j THEN 1 ELSE wpos[k])
      BY <2>1, <2>2
    <2>5. PassesBegun'
      <3>1. \A k \in Proposer : from'[k] <= day' /\ (wpos'[k] # 0 => from'[k] # 0)
        <4>1. day <= day /\ day' = day
          BY <2>1, <2>2
        <4> QED BY <1>0, <2>2, <2>4, <4>1 DEF PassesBegun
      <3> QED BY <3>1 DEF PassesBegun
    <2>6. RowsMade'
      BY <1>0, <2>1, <2>4, RowsStay
    <2>7. InstantsTell'
      <3>1. collided' = (collided \/ \E k \in Proposer : from[k] = day)
        BY <1>2 DEF ingestMetricsAndProposeWeights
      <3>2. collided' \in BOOLEAN
        BY <3>1
      <3>3. ~collided' => ~collided /\ \A k \in Proposer : from[k] # day
        BY <3>1
      <3>4. ASSUME ~collided', NEW k \in Proposer, NEW l \in Proposer, from'[k] = from'[l], from'[k] # 0
            PROVE  k = l
        <4>1. (\A i \in Proposer : from[i] # day) /\ \A h, i \in Proposer : from[h] = from[i] /\ from[h] # 0 => h = i
          BY <1>0, <3>3, <3>4 DEF InstantsTell
        <4> QED BY <2>4, <3>4, <4>1
      <3> QED BY <3>2, <3>4, Zenon DEF InstantsTell
    <2> QED BY <2>3, <2>5, <2>6, <2>7 DEF WeightsInv
  <1>3. ASSUME NEW j \in Proposer, CreateRow(j) PROVE WeightsInv'
    <2>1. /\ wpos[j] # 0 /\ UNCHANGED <<gdp, trade, day, from, active, collided>>
          /\ wpos' = [wpos EXCEPT ![j] = IF wpos[j] = Cardinality(Coin) THEN 0 ELSE wpos[j] + 1]
          /\ proposed' = proposed \cup {ProposedRow(j, wpos[j])}
      BY <1>3, Zenon DEF CreateRow, ProposedRow
    <2>2. /\ wpos \in [Proposer -> 0..Cardinality(Coin)] /\ Cardinality(Coin) \in Nat
          /\ wpos[j] \in Coin /\ from[j] # 0
      <3>1. wpos \in [Proposer -> 0..Cardinality(Coin)] /\ from[j] # 0
        BY <1>0, <2>1 DEF WeightsTyped, PassesBegun
      <3>2. wpos[j] \in 1..Cardinality(Coin) /\ Cardinality(Coin) \in Nat
        BY <2>1, <3>1, WeightsFacts
      <3> QED BY <3>1, <3>2, WeightsFacts
    <2>3. PICK n \in 0..Cardinality(Coin) : wpos' = [wpos EXCEPT ![j] = n]
      <3> DEFINE n == IF wpos[j] = Cardinality(Coin) THEN 0 ELSE wpos[j] + 1
      <3>1. n \in 0..Cardinality(Coin)
        BY <2>2
      <3>2. wpos' = [wpos EXCEPT ![j] = n]
        BY <2>1
      <3> HIDE DEF n
      <3> QED BY <3>1, <3>2
    <2>4. WeightsTyped'
      BY <1>0, <2>1, <2>3 DEF WeightsTyped
    <2>5. PassesBegun'
      <3>1. \A k \in Proposer : k # j => wpos'[k] = wpos[k]
        BY <2>2, <2>3
      <3> QED BY <1>0, <2>1, <2>2, <3>1 DEF PassesBegun
    <2>6. RowsMade'
      <3>1. \A r \in proposed' \ proposed : \E k \in Proposer : \E c \in Coin : from[k] # 0 /\ r = ProposedRow(k, c)
        BY <2>1, <2>2
      <3> QED BY <1>0, <2>1, <3>1, RowsStay
    <2>7. InstantsTell'
      BY <1>0, <2>1 DEF InstantsTell
    <2> QED BY <2>4, <2>5, <2>6, <2>7 DEF WeightsInv
  <1>4. ASSUME NEW j \in Proposer, PassFails(j) PROVE WeightsInv'
    <2>1. wpos' = [wpos EXCEPT ![j] = 0] /\ UNCHANGED <<gdp, trade, day, from, proposed, active, collided>>
      BY <1>4 DEF PassFails
    <2>2. wpos \in [Proposer -> 0..Cardinality(Coin)] /\ 0 \in 0..Cardinality(Coin)
      BY <1>0, WeightsFacts DEF WeightsTyped
    <2>3. WeightsTyped'
      BY <1>0, <2>1, <2>2 DEF WeightsTyped
    <2>4. PassesBegun'
      BY <1>0, <2>1, <2>2 DEF PassesBegun
    <2>5. RowsMade'
      BY <1>0, <2>1, RowsStay
    <2>6. InstantsTell'
      BY <1>0, <2>1 DEF InstantsTell
    <2> QED BY <2>3, <2>4, <2>5, <2>6 DEF WeightsInv
  <1>5. ASSUME NEW d \in 1..MaxDay, Approve(d) PROVE WeightsInv'
    <2>1. active' = active \cup {r \in proposed : r.from = d} /\ UNCHANGED <<gdp, trade, day, wpos, from, proposed, collided>>
      BY <1>5 DEF Approve
    <2>2. WeightsTyped'
      BY <1>0, <2>1 DEF WeightsTyped
    <2>3. PassesBegun'
      BY <1>0, <2>1 DEF PassesBegun
    <2>4. RowsMade'
      BY <1>0, <2>1, RowsStay
    <2>5. InstantsTell'
      BY <1>0, <2>1 DEF InstantsTell
    <2> QED BY <2>2, <2>3, <2>4, <2>5 DEF WeightsInv
  <1>6. CASE UNCHANGED weightVars
    <2>1. UNCHANGED <<gdp, trade, day, wpos, from, proposed, active, collided>>
      BY <1>6 DEF weightVars
    <2>2. RowsMade'
      BY <1>0, <2>1, RowsStay
    <2> QED BY <1>0, <2>1, <2>2 DEF WeightsInv, WeightsTyped, PassesBegun, InstantsTell
  <1> QED BY <1>1, <1>2, <1>3, <1>4, <1>5, <1>6 DEF BasketWeightsNext

(* Rows of one instant that sum to the whole are all that their process creates *)
(* with a weight.                                                               *)
LEMMA WholePass ==
  ASSUME WeightsInv, ~collided, sumBps(currentRows), active # {}
  PROVE  \E j \in Proposer : \A c \in Coin : rounded[c] > 0 =>
             \E r \in currentRows : r.coin = c /\ r.by = j /\ r.weight = rounded[c]
  <1>0. WeightsTyped /\ RowsMade /\ InstantsTell
    BY DEF WeightsInv
  <1>1. /\ SumFunctionOnSet(rounded, Coin) = BasisPoints /\ IsFiniteSet(Coin)
        /\ \A c \in Coin : rounded[c] \in Nat /\ rounded[c] \in Int
    <2>1. gdp \in [Coin -> Nat] /\ trade \in [Coin -> Nat]
      BY <1>0 DEF WeightsTyped
    <2> QED BY <2>1, RoundedRight, WeightsFacts
  <1>2. \A r \in currentRows : \E j \in Proposer : \E c \in Coin : from[j] # 0 /\ from[j] \in Nat /\ r = ProposedRow(j, c)
    <2>1. currentRows \subseteq proposed /\ \A j \in Proposer : from[j] \in Nat
      BY <1>0 DEF currentRows, WeightsTyped
    <2> QED BY <1>0, <2>1 DEF RowsMade
  <1>3. PICK r0 \in active : TRUE
    OBVIOUS
  <1>4. PICK j \in Proposer :
            \A r \in currentRows : \E c \in Coin : r = ProposedRow(j, c)
    <2>1. CASE currentRows = {}
      <3>1. PICK j \in Proposer : TRUE
        BY <1>0, <1>3 DEF WeightsTyped, RowsMade
      <3> QED BY <2>1, <3>1
    <2>2. CASE currentRows # {}
      <3>1. PICK s \in currentRows : TRUE
        BY <2>2
      <3>2. PICK j \in Proposer, c \in Coin : from[j] # 0 /\ from[j] \in Nat /\ s = ProposedRow(j, c)
        BY <1>2
      <3>3. ASSUME NEW r \in currentRows PROVE \E e \in Coin : r = ProposedRow(j, e)
        <4>1. PICK k \in Proposer, e \in Coin : from[k] # 0 /\ from[k] \in Nat /\ r = ProposedRow(k, e)
          BY <1>2
        <4>2. r.from = from[k] /\ s.from = from[j]
          BY <3>2, <4>1 DEF ProposedRow
        <4>3. s.from <= r.from /\ r.from <= s.from
          BY <3>1 DEF currentRows
        <4>4. from[k] = from[j]
          BY <3>2, <4>1, <4>2, <4>3
        <4>5. k = j
          BY <1>0, <3>2, <4>4 DEF InstantsTell
        <4> QED BY <4>1, <4>5
      <3> QED BY <3>3
    <2> QED BY <2>1, <2>2
  <1> DEFINE Rows == currentRows
             part == {c \in Coin : ProposedRow(j, c) \in Rows}
             row == [c \in Coin |-> ProposedRow(j, c)]
             weights == [r \in Rows |-> r.weight]
  <1>5. Rows = {row[c] : c \in part}
    BY <1>4
  <1>6. \A c \in Coin : row[c] = ProposedRow(j, c)
    OBVIOUS
  <1>7. part \in SUBSET Coin /\ IsFiniteSet(part) /\ \A c \in part : rounded[c] \in Int
    <2>1. part \subseteq Coin
      OBVIOUS
    <2> HIDE DEF part
    <2> QED BY <1>1, <2>1, FS_Subset
  <1>8. \A c \in part : weights[row[c]] = rounded[c]
    BY DEF ProposedRow
  <1>9. \A c, e \in part : row[c] = row[e] => c = e
    <2>1. \A c \in part : row[c].coin = c
      BY DEF ProposedRow
    <2> QED BY <2>1
  <1>10. DOMAIN weights = Rows /\ SumFunction(weights) = BasisPoints
    BY DEF sumBps
  <1> HIDE DEF row, weights
  <1>11. SumFunctionOnSet(weights, Rows) = SumFunctionOnSet(rounded, part)
    <2> HIDE DEF part, Rows
    <2>1. SumFunctionOnSet(weights, {row[c] : c \in part}) = SumFunctionOnSet(rounded, part)
      BY ONLY <1>7, <1>8, <1>9, SumRenamed
    <2> QED BY <1>5, <2>1
  <1>12. SumFunctionOnSet(rounded, part) = SumFunctionOnSet(rounded, Coin)
    <2>1. SumFunction(weights) = SumFunctionOnSet(weights, Rows)
      BY <1>10, SumIsOnDomain
    <2> QED BY <1>1, <1>10, <1>11, <2>1
  <1>13. ASSUME NEW c \in Coin, rounded[c] > 0
         PROVE  \E r \in currentRows : r.coin = c /\ r.by = j /\ r.weight = rounded[c]
    <2>1. c \in part
      <3> SUFFICES ASSUME c \notin part PROVE FALSE
        OBVIOUS
      <3>1. rounded[c] = 0
        <4> HIDE DEF part
        <4> QED BY <1>1, <1>7, <1>12, SumOfPart
      <3> QED BY <1>13, <3>1
    <2>2. ProposedRow(j, c) \in currentRows
      BY <2>1
    <2>3. ProposedRow(j, c).coin = c /\ ProposedRow(j, c).by = j /\ ProposedRow(j, c).weight = rounded[c]
      BY DEF ProposedRow
    <2> QED BY <2>2, <2>3
  <1> QED BY <1>13

LEMMA WeightsInvSound ==
  ASSUME WeightsInv
  PROVE  WeightsSound
  <1>0. WeightsTyped /\ PassesBegun /\ RowsMade /\ InstantsTell
    BY DEF WeightsInv
  <1>1. gdp \in [Coin -> Nat] /\ trade \in [Coin -> Nat]
    BY <1>0 DEF WeightsTyped
  <1>2. BasketWeightsTypeOK
    <2>1. ASSUME NEW r \in proposed PROVE r.weight \in 0..BasisPoints /\ r.from <= day
      <3>1. PICK j \in Proposer, c \in Coin : r = ProposedRow(j, c)
        BY <1>0 DEF RowsMade
      <3>2. r.weight = rounded[c] /\ r.from = from[j]
        BY <3>1 DEF ProposedRow
      <3>3. from[j] <= day
        BY <1>0 DEF PassesBegun
      <3> QED BY <1>1, <3>2, <3>3, RoundedRight
    <2> QED BY <1>0, <2>1 DEF BasketWeightsTypeOK, WeightsTyped
  <1>3. /\ Total(rounded) = BasisPoints
        /\ \A c \in Coin : rounded[c] \in {floored(proposedWeightRaw)[c], floored(proposedWeightRaw)[c] + 1}
        /\ \A c, d \in Coin : proposedWeightRaw[c] > proposedWeightRaw[d] => rounded[c] >= rounded[d]
    BY <1>1, RoundedRight
  <1>4. active # {} /\ sumBps(currentRows) /\ ~collided =>
                \E j \in Proposer : \A c \in Coin : rounded[c] > 0 =>
                    \E r \in currentRows : r.coin = c /\ r.by = j /\ r.weight = rounded[c]
    BY WholePass
  <1> QED BY <1>2, <1>3, <1>4, Zenon DEF WeightsSound

(* ingestMetricsAndProposeWeights: the weights proposed add up to all basis points, *)
(* each rounded down or up and in the order of the raw ones, and a basket in use is *)
(* all of one pass, for any coins, data, processes and days.                        *)
THEOREM WeightsAreSound == BasketWeightsSpec => []WeightsSound
  <1>1. BasketWeightsInit => WeightsInv
    BY WeightsInitInv
  <1>2. WeightsInv /\ [BasketWeightsNext]_weightVars => WeightsInv'
    BY WeightsNextInv
  <1>3. WeightsInv => WeightsSound
    BY WeightsInvSound
  <1> QED BY <1>1, <1>2, <1>3, PTL DEF BasketWeightsSpec

-----------------------------------------------------------------------------
(* Oracle: the rate of a currency from what its sources answer. *)

LEMMA OracleFacts ==
  /\ Unit \in Nat \ {0} /\ Quote \subseteq Nat \ {0} /\ MaxRates \in Nat
  /\ OutlierPct \in Nat /\ ReviewPct \in Nat /\ BreakerPct \in Nat /\ ReviewPct <= BreakerPct
  /\ \E k \in Nat \ {0} : Unit = 12 * k
  <1>1. Unit \in Nat \ {0} /\ Unit % 12 = 0
    BY OracleAssumption
  <1>2. Unit = 12 * (Unit \div 12) /\ Unit \div 12 \in Nat \ {0}
    BY <1>1
  <1> QED BY <1>2, OracleAssumption

(* n answers in ascending order. *)
Ascending(s, n) ==
    /\ n \in 1..4 /\ Len(s) = n /\ DOMAIN s = 1..n
    /\ \A i \in 1..n : s[i] \in Nat
    /\ \A i, j \in 1..n : i <= j => s[i] <= s[j]

LEMMA AnswersAscend ==
  ASSUME NEW s \in Answers, s # << >>
  PROVE  /\ Ascending(s, Len(s)) /\ s \in Seq(Nat)
         /\ \A i \in 1..Len(s) : i > 2 => s[i] > 0
  <1>1. PICK n \in 0..4 : s \in [1..n -> Quote \cup {0}]
    BY DEF Answers
  <1>2. \A i \in 1..n : s[i] \in Nat
    <2>1. Quote \cup {0} \subseteq Nat
      BY OracleFacts
    <2> QED BY <1>1, <2>1
  <1>3. Len(s) = n /\ DOMAIN s = 1..n /\ s \in Seq(Nat)
    BY <1>1, <1>2
  <1>4. n \in 1..4
    BY <1>1, <1>3
  <1>5. (\A i \in 1..n - 1 : s[i] <= s[i + 1]) /\ (n > 2 => s[3] > 0)
    BY <1>3 DEF Answers
  <1>6. \A i, j \in 1..n : i <= j => s[i] <= s[j]
    <2>1. (n > 1 => s[1] <= s[2]) /\ (n > 2 => s[2] <= s[3]) /\ (n > 3 => s[3] <= s[4])
      <3>1. (n > 1 => 1 \in 1..n - 1) /\ (n > 2 => 2 \in 1..n - 1) /\ (n > 3 => 3 \in 1..n - 1)
        BY <1>4
      <3>2. (n > 1 => s[1] <= s[1 + 1]) /\ (n > 2 => s[2] <= s[2 + 1]) /\ (n > 3 => s[3] <= s[3 + 1])
        BY <1>5, <3>1
      <3> QED BY <3>2
    <2> QED BY <1>2, <1>4, <2>1
  <1>7. \A i \in 1..n : i > 2 => s[i] > 0
    <2>1. n > 2 => 3 \in 1..n /\ s[3] \in Nat /\ s[3] > 0
      BY <1>2, <1>4, <1>5
    <2> QED BY <1>2, <1>4, <1>6, <2>1
  <1> QED BY <1>2, <1>3, <1>4, <1>6, <1>7 DEF Ascending

(* The median is between the ends of any stretch that has most of the answers. *)
LEMMA MedianInMost ==
  ASSUME NEW s, NEW n, Ascending(s, n), NEW i \in 1..n, NEW j \in 1..n, i <= j, 2 * (j - i + 1) > n
  PROVE  median(s) \in Nat /\ s[i] * Unit <= median(s) /\ median(s) <= s[j] * Unit
  <1>1. PICK k \in Nat \ {0} : Unit = 12 * k
    BY OracleFacts
  <1>2. /\ n \in 1..4 /\ Len(s) = n /\ s # << >>
        /\ \A a \in 1..n : s[a] \in Nat
        /\ \A a, b \in 1..n : a <= b => s[a] <= s[b]
    BY DEF Ascending
  <1>3. PICK h \in Nat : h = n \div 2 /\ (n % 2 = 1 => n = 2 * h + 1) /\ (n % 2 # 1 => n = 2 * h)
    BY <1>2
  <1>4. CASE n % 2 = 1
    <2>1. median(s) = s[h + 1] * Unit
      BY <1>2, <1>3, <1>4, Zenon DEF median
    <2>2. h + 1 \in 1..n /\ i <= h + 1 /\ h + 1 <= j
      BY <1>2, <1>3, <1>4
    <2>3. PICK a \in Nat, b \in Nat, c \in Nat : a = s[i] /\ b = s[h + 1] /\ c = s[j] /\ a <= b /\ b <= c
      BY <1>2, <2>2
    <2>4. a * Unit <= b * Unit /\ b * Unit <= c * Unit /\ b * Unit \in Nat
      BY <1>1, <2>3
    <2> QED BY <2>1, <2>3, <2>4
  <1>5. CASE n % 2 # 1
    <2>1. median(s) = ((s[h] + s[h + 1]) * Unit) \div 2
      BY <1>2, <1>3, <1>5, Zenon DEF median
    <2>2. h \in 1..n /\ h + 1 \in 1..n /\ i <= h /\ h + 1 <= j
      BY <1>2, <1>3, <1>5
    <2>3. PICK a \in Nat, b \in Nat, c \in Nat, d \in Nat :
              a = s[i] /\ b = s[h] /\ c = s[h + 1] /\ d = s[j] /\ a <= b /\ b <= c /\ c <= d
      BY <1>2, <2>2
    <2>4. (b + c) * Unit = 2 * ((b + c) * (6 * k))
      BY <1>1
    <2>5. PICK m \in Nat : m = (b + c) * (6 * k)
      OBVIOUS
    <2>6. (2 * m) \div 2 = m
      OBVIOUS
    <2>7. median(s) = m
      BY <2>1, <2>3, <2>4, <2>5, <2>6
    <2>8. a * (12 * k) <= m /\ m <= d * (12 * k)
      <3>1. m = b * (6 * k) + c * (6 * k) /\ a * (12 * k) = a * (6 * k) + a * (6 * k) /\ d * (12 * k) = d * (6 * k) + d * (6 * k)
        BY <2>5
      <3>2. a * (6 * k) <= b * (6 * k) /\ a * (6 * k) <= c * (6 * k) /\ b * (6 * k) <= d * (6 * k) /\ c * (6 * k) <= d * (6 * k)
        BY <2>3
      <3> QED BY <3>1, <3>2
    <2> QED BY <1>1, <2>3, <2>7, <2>8
  <1> QED BY <1>4, <1>5

(* The average of at most four is exact, and between the ends of what it averages. *)
LEMMA AverageExact ==
  ASSUME NEW sum \in Nat, NEW c \in 1..4
  PROVE  (sum * Unit) \div c \in Nat /\ sum * Unit = c * ((sum * Unit) \div c)
  <1>1. PICK k \in Nat \ {0} : Unit = 12 * k
    BY OracleFacts
  <1>2. PICK p \in Nat : p = sum * k
    BY <1>1
  <1>3. sum * Unit = 12 * p
    BY <1>1, <1>2
  <1>4. (12 * p) \div c \in Nat /\ 12 * p = c * ((12 * p) \div c)
    <2>1. CASE c = 1
      BY <2>1
    <2>2. CASE c = 2
      BY <2>2
    <2>3. CASE c = 3
      BY <2>3
    <2>4. CASE c = 4
      BY <2>4
    <2> QED BY <2>1, <2>2, <2>3, <2>4
  <1> QED BY <1>3, <1>4

LEMMA AverageBetween ==
  ASSUME NEW v, NEW S, IsFiniteSet(S), S # {}, Cardinality(S) \in 1..4, NEW lo \in Int, NEW hi \in Int,
         \A x \in S : v[x] \in Nat /\ lo <= 100 * (v[x] * Unit) /\ 100 * (v[x] * Unit) <= hi
  PROVE  compositeRate(v, S) \in Nat /\ lo <= 100 * compositeRate(v, S) /\ 100 * compositeRate(v, S) <= hi
  <1> DEFINE u == [x \in S |-> (100 * Unit) * v[x]]
  <1>1. Unit \in Nat \ {0}
    BY OracleFacts
  <1>2. \A x \in S : u[x] \in Int /\ lo <= u[x] /\ u[x] <= hi
    <2> TAKE x \in S
    <2>1. v[x] \in Nat /\ lo <= 100 * (v[x] * Unit) /\ 100 * (v[x] * Unit) <= hi
      OBVIOUS
    <2>2. (100 * Unit) * v[x] = 100 * (v[x] * Unit) /\ (100 * Unit) * v[x] \in Int
      BY <1>1, <2>1
    <2> QED BY <2>1, <2>2
  <1>3. SumFunctionOnSet(u, S) = (100 * Unit) * SumFunctionOnSet(v, S)
    <2>1. (\A x \in S : v[x] \in Int) /\ 100 * Unit \in Int
      BY <1>1
    <2> QED BY <2>1, SumTimes
  <1> HIDE DEF u
  <1>4. lo * Cardinality(S) <= SumFunctionOnSet(u, S) /\ SumFunctionOnSet(u, S) <= hi * Cardinality(S)
    BY <1>2, SumBetween
  <1>5. SumFunctionOnSet(v, S) \in Nat
    BY SumNat
  <1>6. PICK sum \in Nat, c \in 1..4 : sum = SumFunctionOnSet(v, S) /\ c = Cardinality(S)
    BY <1>5
  <1>7. PICK r \in Nat : r = (sum * Unit) \div c /\ sum * Unit = c * r
    BY AverageExact
  <1>8. compositeRate(v, S) = r
    BY <1>6, <1>7 DEF compositeRate
  <1>9. (100 * Unit) * sum = (100 * r) * c
    <2>1. (100 * Unit) * sum = 100 * (sum * Unit) /\ 100 * (c * r) = (100 * r) * c
      BY <1>1
    <2> QED BY <1>7, <2>1
  <1>10. lo * c <= (100 * r) * c /\ (100 * r) * c <= hi * c
    BY <1>3, <1>4, <1>6, <1>9
  <1>11. lo <= 100 * r /\ 100 * r <= hi
    <2>1. PICK t \in Int : t = 100 * r
      OBVIOUS
    <2>2. \A x, y \in Int : x * c <= y * c => x <= y
      <3> SUFFICES ASSUME NEW x \in Int, NEW y \in Int, x > y PROVE x * c > y * c
        OBVIOUS
      <3> QED OBVIOUS
    <2> QED BY <1>10, <2>1, <2>2
  <1> QED BY <1>8, <1>11

(* What stays is near the median. *)
LEMMA NearMedian ==
  ASSUME NEW a \in Nat, NEW m \in Nat, NEW pct \in Nat, Within(a, m, pct)
  PROVE  (100 - pct) * m <= 100 * a /\ 100 * a <= (100 + pct) * m
  <1>1. PICK p \in Nat : p = pct * m
    OBVIOUS
  <1>2. (100 - pct) * m = 100 * m - p /\ (100 + pct) * m = 100 * m + p
    BY <1>1
  <1>3. 100 * (IF a > m THEN a - m ELSE m - a) <= p
    BY <1>1 DEF Within
  <1> QED BY <1>2, <1>3

(* Where most agree, one of them is near the median, and the median near all of them. *)
LEMMA OneStays ==
  ASSUME NEW s, NEW n, Ascending(s, n), NEW i \in 1..n, NEW j \in 1..n, i <= j, 2 * (j - i + 1) > n,
         Within(s[j], s[i], OutlierPct)
  PROVE  i \in excludeOutliers(s)
  <1>1. median(s) \in Nat /\ s[i] * Unit <= median(s) /\ median(s) <= s[j] * Unit
    BY MedianInMost
  <1>2. Unit \in Nat \ {0} /\ OutlierPct \in Nat
    BY OracleFacts
  <1>3. s[i] \in Nat /\ s[j] \in Nat /\ s[i] <= s[j] /\ DOMAIN s = 1..n
    BY DEF Ascending
  <1>4. PICK a \in Nat, b \in Nat, m \in Nat : a = s[i] /\ b = s[j] /\ m = median(s)
    BY <1>1, <1>3
  <1>5. 100 * (b - a) <= OutlierPct * a
    <2>1. 100 * (IF b > a THEN b - a ELSE a - b) <= OutlierPct * a
      BY <1>4 DEF Within
    <2>2. (IF b > a THEN b - a ELSE a - b) = b - a
      BY <1>3, <1>4
    <2> QED BY <2>1, <2>2
  <1>6. a * Unit <= m /\ m <= b * Unit
    BY <1>1, <1>4
  <1>7. 100 * (m - a * Unit) <= OutlierPct * m
    <2>1. 100 * (m - a * Unit) <= 100 * (b * Unit - a * Unit)
      BY <1>2, <1>6
    <2>2. 100 * (b * Unit - a * Unit) = (100 * (b - a)) * Unit
      BY <1>2
    <2>3. (100 * (b - a)) * Unit <= (OutlierPct * a) * Unit
      <3>1. \A x, y \in Int : x <= y => x * Unit <= y * Unit
        BY <1>2
      <3>2. 100 * (b - a) \in Int /\ OutlierPct * a \in Int
        BY <1>2
      <3> QED BY <1>5, <3>1, <3>2
    <2>4. (OutlierPct * a) * Unit = OutlierPct * (a * Unit)
      BY <1>2
    <2>5. OutlierPct * (a * Unit) <= OutlierPct * m
      <3>1. PICK x \in Nat : x = a * Unit
        BY <1>2
      <3> QED BY <1>2, <1>6, <3>1
    <2>6. PICK t \in Int, w \in Int, x \in Int, y \in Int, z \in Int :
              /\ t = 100 * (m - a * Unit) /\ w = 100 * (b * Unit - a * Unit) /\ x = (OutlierPct * a) * Unit
              /\ y = OutlierPct * (a * Unit) /\ z = OutlierPct * m
      BY <1>2
    <2> QED BY <2>1, <2>2, <2>3, <2>4, <2>5, <2>6
  <1>8. Within(a * Unit, m, OutlierPct)
    <2>1. PICK x \in Nat : x = a * Unit
      BY <1>2
    <2>2. 100 * (IF x > m THEN x - m ELSE m - x) <= OutlierPct * m
      BY <1>6, <1>7, <2>1
    <2> QED BY <2>1, <2>2 DEF Within
  <1> QED BY <1>3, <1>4, <1>8 DEF excludeOutliers

LEMMA PlacesFinite ==
  ASSUME NEW n \in 1..4
  PROVE  IsFiniteSet(1..n) /\ Cardinality(1..n) = n
  <1>1. 1 \in Int /\ n \in Int
    OBVIOUS
  <1>2. IsFiniteSet(1..n) /\ Cardinality(1..n) = IF 1 > n THEN 0 ELSE n - 1 + 1
    BY ONLY <1>1, FS_Interval
  <1> QED BY <1>2

(* Without zeros all answers are positive ones. *)
LEMMA NoZeros ==
  ASSUME NEW s \in Answers, s # << >>, s[1] > 0
  PROVE  SubSeq(s, Cardinality({i \in DOMAIN s : s[i] = 0}) + 1, Len(s)) = s
  <1>1. Ascending(s, Len(s)) /\ s \in Seq(Nat)
    BY AnswersAscend
  <1>2. {i \in DOMAIN s : s[i] = 0} = {}
    <2>1. \A i \in 1..Len(s) : s[i] \in Nat /\ s[i] > 0
      <3>1. \A i \in 1..Len(s) : s[1] \in Nat /\ s[i] \in Nat /\ s[1] <= s[i]
        BY <1>1 DEF Ascending
      <3> QED BY <3>1
    <2>2. DOMAIN s = 1..Len(s)
      BY <1>1 DEF Ascending
    <2> QED BY <2>1, <2>2
  <1>3. Cardinality({i \in DOMAIN s : s[i] = 0}) + 1 = 1
    BY <1>2, FS_EmptySet
  <1>4. SubSeq(s, 1, Len(s)) = s
    BY <1>1
  <1> QED BY <1>3, <1>4

(* The composite is the average of the answers that stay, if one does. *)
LEMMA CompositeOfStaying ==
  ASSUME NEW s \in Answers, s # << >>, s[1] > 0, excludeOutliers(s) # {}
  PROVE  /\ Composite(s) = compositeRate(s, excludeOutliers(s))
         /\ IsFiniteSet(excludeOutliers(s)) /\ Cardinality(excludeOutliers(s)) \in 1..4
  <1> DEFINE staying == excludeOutliers(s)
  <1>1. Ascending(s, Len(s))
    BY AnswersAscend
  <1>2. Len(s) \in 1..4 /\ DOMAIN s = 1..Len(s)
    BY <1>1 DEF Ascending
  <1>3. IsFiniteSet(DOMAIN s) /\ Cardinality(DOMAIN s) = Len(s)
    BY <1>2, PlacesFinite
  <1>4. staying \subseteq DOMAIN s
    BY DEF excludeOutliers
  <1>5. Composite(s) = IF Cardinality(staying) < Len(s) /\ staying # {} THEN compositeRate(s, staying)
                       ELSE compositeRate(s, DOMAIN s)
    BY NoZeros, Zenon DEF Composite
  <1> HIDE DEF staying
  <1>6. /\ IsFiniteSet(staying) /\ Cardinality(staying) <= Cardinality(DOMAIN s)
        /\ Cardinality(staying) = Cardinality(DOMAIN s) => staying = DOMAIN s
    BY <1>3, <1>4, FS_Subset
  <1>7. Cardinality(staying) \in Nat /\ Cardinality(staying) # 0
    BY <1>6, FS_CardinalityType, FS_EmptySet DEF staying
  <1>8. Cardinality(staying) \in 1..4
    BY <1>2, <1>3, <1>6, <1>7
  <1>9. Composite(s) = compositeRate(s, staying)
    <2>1. CASE Cardinality(staying) < Len(s)
      BY <1>5, <2>1 DEF staying
    <2>2. CASE ~(Cardinality(staying) < Len(s))
      <3>1. staying = DOMAIN s
        BY <1>2, <1>3, <1>6, <1>7, <2>2
      <3> QED BY <1>5, <2>2, <3>1, Zenon
    <2> QED BY <2>1, <2>2
  <1> QED BY <1>6, <1>8, <1>9 DEF staying

LEMMA TimesOrdered ==
  ASSUME NEW c \in Nat, NEW x \in Int, NEW y \in Int, x <= y
  PROVE  c * x <= c * y
  OBVIOUS

(* A minority cannot move the rate. *)
LEMMA MostDecide ==
  ASSUME NEW s \in Answers, s # << >>, s[1] > 0, NEW i \in 1..Len(s), NEW j \in 1..Len(s),
         i <= j, 2 * (j - i + 1) > Len(s), Within(s[j], s[i], OutlierPct)
  PROVE  /\ 100 * Composite(s) >= (100 - OutlierPct) * s[i] * Unit
         /\ 100 * Composite(s) <= (100 + OutlierPct) * s[j] * Unit
  <1>1. Ascending(s, Len(s))
    BY AnswersAscend
  <1>2. i \in excludeOutliers(s)
    BY <1>1, OneStays
  <1>3. /\ Composite(s) = compositeRate(s, excludeOutliers(s))
        /\ IsFiniteSet(excludeOutliers(s)) /\ Cardinality(excludeOutliers(s)) \in 1..4
    BY <1>2, CompositeOfStaying
  <1>4. Unit \in Nat \ {0} /\ OutlierPct \in Nat
    BY OracleFacts
  <1>5. PICK a \in Nat, b \in Nat, m \in Nat :
            a = s[i] /\ b = s[j] /\ m = median(s) /\ a * Unit <= m /\ m <= b * Unit
    <2>1. median(s) \in Nat /\ s[i] * Unit <= median(s) /\ median(s) <= s[j] * Unit
      BY <1>1, MedianInMost
    <2>2. s[i] \in Nat /\ s[j] \in Nat
      BY <1>1 DEF Ascending
    <2> QED BY <2>1, <2>2
  <1>6. PICK lo \in Int, hi \in Int : lo = (100 - OutlierPct) * m /\ hi = (100 + OutlierPct) * m
    BY <1>4
  <1>7. \A x \in excludeOutliers(s) : s[x] \in Nat /\ lo <= 100 * (s[x] * Unit) /\ 100 * (s[x] * Unit) <= hi
    <2> SUFFICES ASSUME NEW x \in excludeOutliers(s)
                 PROVE  s[x] \in Nat /\ lo <= 100 * (s[x] * Unit) /\ 100 * (s[x] * Unit) <= hi
      OBVIOUS
    <2>1. x \in DOMAIN s /\ Within(s[x] * Unit, m, OutlierPct)
      BY <1>5 DEF excludeOutliers
    <2>2. s[x] \in Nat
      BY <1>1, <2>1 DEF Ascending
    <2>3. s[x] * Unit \in Nat
      BY <1>4, <2>2
    <2>4. (100 - OutlierPct) * m <= 100 * (s[x] * Unit) /\ 100 * (s[x] * Unit) <= (100 + OutlierPct) * m
      BY ONLY <1>4, <1>5, <2>1, <2>3, NearMedian
    <2> QED BY <1>6, <2>2, <2>4
  <1>8. Composite(s) \in Nat /\ lo <= 100 * Composite(s) /\ 100 * Composite(s) <= hi
    <2>1. excludeOutliers(s) # {}
      BY <1>2
    <2> QED BY ONLY <1>3, <1>6, <1>7, <2>1, AverageBetween
  <1>9. PICK r \in Nat : r = Composite(s)
    BY <1>8
  <1>10. hi <= (100 + OutlierPct) * b * Unit
    <2>1. PICK x \in Nat : x = b * Unit
      BY <1>4
    <2>2. (100 + OutlierPct) * m <= (100 + OutlierPct) * x
      <3>1. 100 + OutlierPct \in Nat /\ m \in Int /\ x \in Int /\ m <= x
        BY <1>4, <1>5, <2>1
      <3> QED BY ONLY <3>1, TimesOrdered
    <2>3. (100 + OutlierPct) * b * Unit = (100 + OutlierPct) * (b * Unit)
      BY <1>4
    <2> QED BY <1>6, <2>1, <2>2, <2>3
  <1>11. (100 - OutlierPct) * a * Unit <= 100 * r
    <2>1. PICK x \in Nat : x = a * Unit
      BY <1>4
    <2>2. (100 - OutlierPct) * a * Unit = (100 - OutlierPct) * x
      BY <1>4, <2>1
    <2>3. CASE OutlierPct <= 100
      <3>1. 100 - OutlierPct \in Nat /\ m \in Int /\ x \in Int /\ x <= m
        BY <1>4, <1>5, <2>1, <2>3
      <3>2. (100 - OutlierPct) * x <= (100 - OutlierPct) * m
        BY ONLY <3>1, TimesOrdered
      <3>3. PICK y \in Int : y = (100 - OutlierPct) * x
        BY <3>1
      <3> QED BY <1>6, <1>8, <1>9, <2>2, <3>2, <3>3
    <2>4. CASE OutlierPct > 100
      <3>1. (100 - OutlierPct) * x <= 0 /\ (100 - OutlierPct) * x \in Int
        BY <1>4, <2>4
      <3>2. PICK y \in Int : y = (100 - OutlierPct) * x
        BY <3>1
      <3>3. y <= 100 * r
        BY <3>1, <3>2
      <3> QED BY <2>2, <3>2, <3>3
    <2> QED BY <1>4, <2>3, <2>4
  <1>12. (100 - OutlierPct) * a * Unit <= 100 * r /\ 100 * r <= (100 + OutlierPct) * b * Unit
    <2>1. PICK y \in Int : y = (100 + OutlierPct) * b * Unit
      BY <1>4
    <2> QED BY <1>8, <1>9, <1>10, <1>11, <2>1
  <1>13. (100 - OutlierPct) * s[i] * Unit <= 100 * Composite(s) /\ 100 * Composite(s) <= (100 + OutlierPct) * s[j] * Unit
    BY <1>5, <1>9, <1>12, Zenon
  <1>14. PICK v \in Int, w \in Int : v = (100 - OutlierPct) * s[i] * Unit /\ w = 100 * Composite(s)
    BY <1>4, <1>5, <1>9
  <1> QED BY <1>13, <1>14

LEMMA MostFollowed == \A s \in Answers : FollowsMost(s, Composite(s))
  <1> SUFFICES ASSUME NEW s \in Answers, s # << >>, s[1] > 0, NEW i \in 1..Len(s), NEW j \in 1..Len(s),
                      i <= j, 2 * (j - i + 1) > Len(s), Within(s[j], s[i], OutlierPct)
               PROVE  /\ 100 * Composite(s) >= (100 - OutlierPct) * s[i] * Unit
                      /\ 100 * Composite(s) <= (100 + OutlierPct) * s[j] * Unit
    BY Zenon DEF FollowsMost
  <1> QED BY MostDecide

(* With a positive answer the composite is positive. *)
LEMMA CompositePositive ==
  ASSUME NEW s \in Answers, NEW i \in 1..Len(s), s[i] > 0
  PROVE  Composite(s) \in Nat \ {0}
  <1>0. s # << >>
    OBVIOUS
  <1>1. Ascending(s, Len(s)) /\ s \in Seq(Nat) /\ \A a \in 1..Len(s) : a > 2 => s[a] > 0
    BY <1>0, AnswersAscend
  <1>2. Len(s) \in 1..4 /\ DOMAIN s = 1..Len(s) /\ \A a \in 1..Len(s) : s[a] \in Nat
    BY <1>1 DEF Ascending
  <1>3. \E k \in Nat \ {0} : Unit = 12 * k
    BY OracleFacts
  <1>4. ASSUME NEW v, NEW S, IsFiniteSet(S), Cardinality(S) \in 1..4, \A x \in S : v[x] \in Nat,
               NEW x \in S, v[x] > 0
        PROVE  compositeRate(v, S) \in Nat \ {0}
    <2>1. SumFunctionOnSet(v, S) \in Nat /\ v[x] <= SumFunctionOnSet(v, S)
      BY <1>4, SumNat
    <2>2. PICK sum \in Nat \ {0}, c \in 1..4 : sum = SumFunctionOnSet(v, S) /\ c = Cardinality(S)
      BY <1>4, <2>1
    <2>3. PICK r \in Nat : r = (sum * Unit) \div c /\ sum * Unit = c * r
      BY AverageExact
    <2>4. sum * Unit > 0
      BY <1>3
    <2>5. r # 0
      BY <2>3, <2>4
    <2>6. compositeRate(v, S) = r
      BY <1>4, <2>2, <2>3 DEF compositeRate
    <2> QED BY <2>5, <2>6
  <1> DEFINE positive == SubSeq(s, Cardinality({a \in DOMAIN s : s[a] = 0}) + 1, Len(s))
             staying == excludeOutliers(positive)
  <1>5. IsFiniteSet(DOMAIN s) /\ Cardinality(DOMAIN s) \in 1..4
    BY <1>2, PlacesFinite
  <1>6. compositeRate(s, DOMAIN s) \in Nat \ {0}
    BY <1>2, <1>4, <1>5
  <1>7. /\ \A a \in DOMAIN positive : positive[a] \in Nat /\ positive[a] > 0
        /\ DOMAIN positive = 1..Len(positive) /\ Len(positive) \in 0..4
    <2>1. PICK n \in 1..4 : n = Len(s)
      BY <1>2
    <2>2. PICK z \in 0..2 : z <= n /\ (\A a \in 1..n : a <= z => s[a] = 0) /\ \A a \in 1..n : a > z => s[a] > 0
      <3>1. \A a, b \in 1..n : s[a] \in Nat /\ s[b] \in Nat /\ (a <= b => s[a] <= s[b])
        BY <1>1, <2>1 DEF Ascending
      <3>2. \A a \in 1..n : a > 2 => s[a] > 0
        BY <1>1, <2>1
      <3>3. CASE s[1] > 0
        <4>1. \A a \in 1..n : ~(a <= 0) /\ s[a] > 0
          BY <3>1, <3>3
        <4> QED BY <4>1
      <3>4. CASE ~(s[1] > 0) /\ (n > 1 => s[2] > 0)
        <4>1. s[1] = 0 /\ \A a \in 1..n : a = 1 \/ (a = 2 /\ n > 1) \/ a > 2
          BY <3>1, <3>4
        <4>2. 1 \in 0..2 /\ 1 <= n /\ \A a \in 1..n : (a <= 1 => s[a] = 0) /\ (a > 1 => s[a] > 0)
          BY <3>2, <3>4, <4>1
        <4> QED BY <4>2
      <3>5. CASE n > 1 /\ ~(s[2] > 0)
        <4>1. s[1] = 0 /\ s[2] = 0 /\ \A a \in 1..n : a = 1 \/ a = 2 \/ a > 2
          BY <3>1, <3>5
        <4>2. 2 \in 0..2 /\ 2 <= n /\ \A a \in 1..n : (a <= 2 => s[a] = 0) /\ (a > 2 => s[a] > 0)
          BY <3>2, <3>5, <4>1
        <4> QED BY <4>2
      <3> QED BY <3>3, <3>4, <3>5
    <2>3. {a \in DOMAIN s : s[a] = 0} = 1..z
      BY <1>2, <2>1, <2>2
    <2>4. Cardinality(1..z) = z
      <3>1. 1 \in Int /\ z \in Int
        OBVIOUS
      <3>2. Cardinality(1..z) = IF 1 > z THEN 0 ELSE z - 1 + 1
        BY ONLY <3>1, FS_Interval
      <3> QED BY <3>2
    <2>5. positive = SubSeq(s, z + 1, Len(s))
      BY <2>3, <2>4, Zenon
    <2> HIDE DEF positive
    <2>6. /\ Len(positive) = n - z /\ DOMAIN positive = 1..n - z
          /\ \A a \in 1..n - z : positive[a] = s[a + z]
      BY <1>1, <2>1, <2>2, <2>5
    <2>7. \A a \in 1..n - z : a + z \in 1..n /\ a + z > z
      BY <2>1, <2>2
    <2>8. \A a \in 1..n - z : positive[a] \in Nat /\ positive[a] > 0
      BY <1>2, <2>1, <2>2, <2>6, <2>7
    <2>9. n - z \in 0..4
      BY <2>2
    <2> QED BY <2>6, <2>8, <2>9
  <1>8. staying \subseteq DOMAIN positive
    BY DEF excludeOutliers
  <1>9. Composite(s) = IF Cardinality(staying) < Len(positive) /\ staying # {} THEN compositeRate(positive, staying)
                       ELSE compositeRate(s, DOMAIN s)
    BY Zenon DEF Composite
  <1> HIDE DEF staying, positive
  <1>10. ASSUME staying # {} PROVE compositeRate(positive, staying) \in Nat \ {0}
    <2>1. PICK x \in staying : TRUE
      BY <1>10
    <2>2. Len(positive) \in 1..4
      <3>1. PICK n \in 0..4 : n = Len(positive)
        BY <1>7
      <3>2. x \in 1..n
        BY <1>7, <1>8, <2>1, <3>1
      <3> QED BY <3>1, <3>2
    <2>3. IsFiniteSet(DOMAIN positive) /\ Cardinality(DOMAIN positive) = Len(positive)
      BY <1>7, <2>2, PlacesFinite
    <2>4. IsFiniteSet(staying) /\ Cardinality(staying) <= Len(positive)
      BY <1>8, <2>3, FS_Subset
    <2>5. Cardinality(staying) \in Nat /\ Cardinality(staying) # 0
      BY <1>10, <2>4, FS_CardinalityType, FS_EmptySet
    <2>6. Cardinality(staying) \in 1..4
      <3>1. PICK c \in Nat, n \in 1..4 : c = Cardinality(staying) /\ n = Len(positive)
        BY <2>2, <2>5
      <3>2. c \in 1..4
        BY <2>4, <2>5, <3>1
      <3> QED BY <3>1, <3>2
    <2>7. (\A y \in staying : positive[y] \in Nat) /\ positive[x] > 0
      BY <1>7, <1>8
    <2> QED BY <1>4, <2>4, <2>6, <2>7
  <1> QED BY <1>6, <1>9, <1>10

(* The average of positive rates is positive. *)
LEMMA AveragePositive ==
  ASSUME Len(rates) \in Nat \ {0}, DOMAIN rates = 1..Len(rates),
         \A i \in 1..Len(rates) : rates[i].rate \in Nat \ {0}
  PROVE  getAverageRateOverHours \in Nat \ {0}
  <1> DEFINE v == [i \in DOMAIN rates |-> rates[i].rate]
             one == [i \in DOMAIN rates |-> 1]
             S == DOMAIN rates
  <1>1. IsFiniteSet(S) /\ Cardinality(S) = Len(rates)
    <2>1. 1 \in Int /\ Len(rates) \in Int
      OBVIOUS
    <2>2. IsFiniteSet(1..Len(rates)) /\ Cardinality(1..Len(rates)) = IF 1 > Len(rates) THEN 0 ELSE Len(rates) - 1 + 1
      BY ONLY <2>1, FS_Interval
    <2> QED BY <2>2
  <1>2. SumFunctionOnSet(one, S) = Cardinality(S)
    <2>1. S \in SUBSET S /\ \A x \in S : one[x] = IF x \in S THEN 1 ELSE 0
      OBVIOUS
    <2> HIDE DEF one, S
    <2> QED BY <1>1, <2>1, SumCounts
  <1>3. \A x \in S : one[x] \in Int /\ v[x] \in Int /\ one[x] <= v[x]
    OBVIOUS
  <1>4. SumFunction(v) = SumFunctionOnSet(v, S)
    <2>1. DOMAIN v = S
      OBVIOUS
    <2> HIDE DEF v, S
    <2> QED BY <2>1, SumIsOnDomain
  <1>5. getAverageRateOverHours = SumFunction(v) \div Len(rates)
    BY DEF getAverageRateOverHours
  <1> HIDE DEF v, one, S
  <1>6. SumFunctionOnSet(one, S) <= SumFunctionOnSet(v, S) /\ SumFunctionOnSet(v, S) \in Int
    BY <1>1, <1>3, SumOrdered, SumTyped
  <1>7. PICK sum \in Nat, n \in Nat \ {0} : sum = SumFunction(v) /\ n = Len(rates) /\ n <= sum
    <2>1. PICK sum \in Int, n \in Nat \ {0} : sum = SumFunctionOnSet(v, S) /\ n = Len(rates)
      BY <1>6
    <2>2. n <= sum
      BY <1>1, <1>2, <1>6, <2>1
    <2>3. sum \in Nat
      BY <2>2
    <2> QED BY <1>4, <2>1, <2>2, <2>3, Zenon
  <1>8. sum \div n \in Nat /\ sum \div n # 0
    <2>1. \A a, q, m \in Int : m > 0 /\ a = m * q /\ q <= 0 => a <= 0
      OBVIOUS
    <2>2. sum = n * (sum \div n) + (sum % n) /\ sum % n \in 0..n - 1 /\ sum \div n \in Int
      BY ONLY sum \in Nat, n \in Nat \ {0}
    <2>3. PICK q \in Int, rest \in 0..n - 1 : q = sum \div n /\ sum = n * q + rest
      BY <2>2
    <2>4. PICK a \in Int : a = n * q
      OBVIOUS
    <2>5. a > 0
      BY <1>7, <2>3, <2>4
    <2>6. q > 0
      BY <2>1, <2>4, <2>5
    <2> QED BY <2>3, <2>6
  <1> QED BY <1>5, <1>7, <1>8

-----------------------------------------------------------------------------
RatesPositive == \A i \in 1..Len(rates) : rates[i].rate >= 1

(* A run holds a positive rate; only a move from a row trips the breaker, and it *)
(* is flagged before it is smoothed.                                             *)
RunsJudged ==
    \A u \in Updater :
        /\ opc[u] \in {"assessed", "tripped"} => composite[u] >= 1
        /\ opc[u] = "tripped" => review[u] /\ rates # << >>

(* No other run is under way, so the row a run was judged by is still the last. *)
AloneJudged ==
    ~together =>
        /\ \A u, v \in Updater : u # v => opc[u] = "idle" \/ opc[v] = "idle"
        /\ \A u \in Updater : opc[u] = "assessed" /\ ~review[u] /\ rates # << >> =>
               Within(composite[u], Latest, ReviewPct)

MovesFlagged ==
    ~together => \A i \in 2..Len(rates) :
        Within(rates[i].rate, rates[i - 1].rate, ReviewPct) \/ rates[i].review

RatesTyped == OracleTypeOK /\ rates \in Seq([rate : Nat, review : BOOLEAN])

RatesInv == RatesTyped /\ RatesPositive /\ RunsJudged /\ AloneJudged /\ MovesFlagged /\ ~swayed

LEMMA RatesInitInv == OracleInit => RatesInv
  <1> SUFFICES ASSUME OracleInit PROVE RatesInv
    OBVIOUS
  <1>2. RatesTyped
    <2>1. /\ rates = << >> /\ opc = [u \in Updater |-> "idle"]
          /\ composite = [u \in Updater |-> 0] /\ review = [u \in Updater |-> FALSE]
          /\ acbuRate = 0 /\ swayed = FALSE /\ together = FALSE
      BY DEF OracleInit
    <2>2. Len(rates) = 0 /\ rates \in Seq([rate : Nat, review : BOOLEAN]) /\ 1..Len(rates) = {} /\ acbuRate \in 0..Len(rates)
      BY <2>1
    <2>3. Len(rates) <= MaxRates
      BY <2>2, OracleFacts
    <2>4. /\ opc \in [Updater -> {"idle", "assessed", "tripped", "stored"}]
          /\ composite \in [Updater -> Nat] /\ review \in [Updater -> BOOLEAN]
          /\ swayed \in BOOLEAN /\ together \in BOOLEAN
      BY <2>1
    <2> QED BY <2>2, <2>3, <2>4 DEF RatesTyped, OracleTypeOK
  <1> QED BY <1>2 DEF OracleInit, RatesInv, RatesPositive, RunsJudged, AloneJudged, MovesFlagged

(* What trips the breaker is flagged. *)
LEMMA TripsFlagged ==
  ASSUME NEW before \in Nat, NEW now \in Nat, Tripped(before, now)
  PROVE  assessRateDeviation(before, now)
  <1>1. ReviewPct \in Nat /\ BreakerPct \in Nat /\ ReviewPct <= BreakerPct
    BY OracleFacts
  <1>2. ReviewPct * before <= BreakerPct * before
    BY <1>1
  <1>3. before > 0 /\ ~(100 * (IF now > before THEN now - before ELSE before - now) <= BreakerPct * before)
    BY DEF Tripped, Within
  <1>4. PICK r \in Nat, b \in Nat : r = ReviewPct * before /\ b = BreakerPct * before /\ r <= b
    BY <1>1, <1>2
  <1>5. ~(100 * (IF now > before THEN now - before ELSE before - now) <= r)
    BY <1>3, <1>4
  <1> QED BY <1>3, <1>4, <1>5 DEF assessRateDeviation, Within

LEMMA LatestTyped ==
  ASSUME RatesTyped, RatesPositive
  PROVE  /\ Latest \in Nat
         /\ (rates # << >> => Latest > 0 /\ Latest = rates[Len(rates)].rate)
         /\ Len(rates) \in Nat /\ DOMAIN rates = 1..Len(rates)
         /\ (rates # << >> => Len(rates) \in 1..Len(rates))
         /\ (rates = << >> => Latest = 0)
  <1>1. Len(rates) \in Nat /\ DOMAIN rates = 1..Len(rates) /\ (rates # << >> => Len(rates) \in 1..Len(rates))
    BY DEF RatesTyped
  <1>2. \A i \in 1..Len(rates) : rates[i].rate \in Nat /\ rates[i].rate > 0
    BY <1>1 DEF RatesTyped, RatesPositive, OracleTypeOK
  <1> QED BY <1>1, <1>2 DEF Latest

LEMMA RatesFetched ==
  ASSUME RatesInv, NEW u \in Updater, FetchRates(u)
  PROVE  RatesInv'
  <1>0. RatesTyped /\ RatesPositive /\ RunsJudged /\ AloneJudged /\ MovesFlagged /\ ~swayed
    BY DEF RatesInv
  <1>1. PICK s \in Answers :
            /\ \E i \in 1..Len(s) : s[i] > 0
            /\ composite' = [composite EXCEPT ![u] = Composite(s)]
            /\ review' = [review EXCEPT ![u] = assessRateDeviation(Latest, Composite(s))]
            /\ opc' = [opc EXCEPT ![u] = IF Tripped(Latest, Composite(s)) THEN "tripped" ELSE "assessed"]
            /\ swayed' = (swayed \/ ~FollowsMost(s, Composite(s)))
    <2>1. PICK f \in Fetched :
              /\ composite' = [composite EXCEPT ![u] = f.rate]
              /\ review' = [review EXCEPT ![u] = assessRateDeviation(Latest, f.rate)]
              /\ opc' = [opc EXCEPT ![u] = IF Tripped(Latest, f.rate) THEN "tripped" ELSE "assessed"]
              /\ swayed' = (swayed \/ ~f.follows)
      BY Zenon DEF FetchRates
    <2>2. PICK s \in Answers :
              /\ \E i \in 1..Len(s) : s[i] > 0
              /\ f = [rate |-> Composite(s), follows |-> FollowsMost(s, Composite(s))]
      BY <2>1, Zenon DEF Fetched
    <2>3. f.rate = Composite(s) /\ f.follows = FollowsMost(s, Composite(s))
      BY <2>2, Zenon
    <2> QED BY <2>1, <2>2, <2>3, Zenon
  <1>2. /\ opc[u] = "idle" /\ UNCHANGED <<rates, acbuRate>>
        /\ together' = (together \/ \E v \in Updater \ {u} : opc[v] # "idle")
    BY DEF FetchRates
  <1>3. PICK c \in Nat \ {0} : c = Composite(s)
    BY <1>1, CompositePositive
  <1>4. PICK flag \in BOOLEAN : flag = assessRateDeviation(Latest, c)
    BY DEF assessRateDeviation
  <1>5. PICK st \in {"tripped", "assessed"} :
            st = (IF Tripped(Latest, c) THEN "tripped" ELSE "assessed")
    OBVIOUS
  <1>6. /\ composite' = [composite EXCEPT ![u] = c]
        /\ review' = [review EXCEPT ![u] = flag] /\ opc' = [opc EXCEPT ![u] = st]
    BY <1>1, <1>3, <1>4, <1>5, Zenon
  <1>7. Latest \in Nat /\ (rates = << >> => Latest = 0) /\ (rates # << >> => Latest > 0)
    BY <1>0, LatestTyped
  <1>8. st = "tripped" => flag /\ rates # << >>
    <2>1. ASSUME st = "tripped" PROVE Tripped(Latest, c)
      BY <1>5, <2>1
    <2>2. Tripped(Latest, c) => flag
      BY <1>3, <1>4, <1>7, TripsFlagged
    <2>3. Tripped(Latest, c) => Latest > 0
      BY DEF Tripped
    <2> QED BY <1>7, <2>1, <2>2, <2>3
  <1>9. ~flag /\ rates # << >> => Within(c, Latest, ReviewPct)
    BY <1>4, <1>7 DEF assessRateDeviation
  <1>10. together' \in BOOLEAN
    BY <1>0, <1>2 DEF RatesTyped, OracleTypeOK
  <1>11. Latest' = Latest
    BY <1>2 DEF Latest
  <1>18. ~swayed' /\ swayed' \in BOOLEAN
    <2>1. FollowsMost(s, Composite(s))
      BY <1>1, MostFollowed
    <2> QED BY <1>0, <1>1, <2>1
  <1>12. RatesTyped'
    BY <1>0, <1>2, <1>6, <1>10, <1>18 DEF RatesTyped, OracleTypeOK
  <1>13. RatesPositive'
    BY <1>0, <1>2 DEF RatesPositive
  <1>14. /\ opc' \in [Updater -> {"idle", "assessed", "tripped", "stored"}]
         /\ \A v \in Updater : v # u => /\ composite'[v] = composite[v]
                                        /\ review'[v] = review[v] /\ opc'[v] = opc[v]
         /\ composite'[u] = c /\ review'[u] = flag /\ opc'[u] = st
    BY <1>0, <1>6 DEF RatesTyped, OracleTypeOK
  <1>15. RunsJudged'
    <2> SUFFICES ASSUME NEW v \in Updater
                 PROVE  /\ opc'[v] \in {"assessed", "tripped"} => composite'[v] >= 1
                        /\ opc'[v] = "tripped" => review'[v] /\ rates' # << >>
      BY DEF RunsJudged
    <2>1. CASE v = u
      <3>2. composite'[v] >= 1
        BY <1>14, <2>1
      <3>3. opc'[v] = "tripped" => review'[v] /\ rates' # << >>
        BY <1>2, <1>8, <1>14, <2>1, Zenon
      <3> QED BY <3>2, <3>3
    <2>2. CASE v # u
      BY <1>0, <1>2, <1>14, <2>2 DEF RunsJudged
    <2> QED BY <2>1, <2>2
  <1>16. AloneJudged'
    <2> SUFFICES ASSUME ~together' PROVE AloneJudged'
      BY DEF AloneJudged
    <2>1. ~together /\ \A v \in Updater \ {u} : opc[v] = "idle"
      BY <1>2
    <2>2. \A v, w \in Updater : v # w => opc'[v] = "idle" \/ opc'[w] = "idle"
      BY <1>14, <2>1
    <2>3. \A v \in Updater : opc'[v] = "assessed" /\ ~review'[v] /\ rates' # << >> =>
              Within(composite'[v], Latest', ReviewPct)
      <3> TAKE v \in Updater
      <3>1. CASE v = u
        BY <1>2, <1>9, <1>11, <1>14, <3>1, Zenon
      <3>2. CASE v # u
        BY <1>14, <2>1, <3>2
      <3> QED BY <3>1, <3>2
    <2> QED BY <2>2, <2>3 DEF AloneJudged, Within
  <1>17. MovesFlagged'
    BY <1>0, <1>2 DEF MovesFlagged, Within
  <1> QED BY <1>12, <1>13, <1>15, <1>16, <1>17, <1>18 DEF RatesInv

LEMMA RatesSmoothed ==
  ASSUME RatesInv, NEW u \in Updater, SmoothRate(u)
  PROVE  RatesInv'
  <1>0. RatesTyped /\ RatesPositive /\ RunsJudged /\ AloneJudged /\ MovesFlagged /\ ~swayed
    BY DEF RatesInv
  <1>1. /\ opc[u] = "tripped" /\ UNCHANGED <<rates, review, acbuRate, swayed, together>>
        /\ opc' = [opc EXCEPT ![u] = "assessed"]
        /\ \/ composite' = [composite EXCEPT ![u] = getAverageRateOverHours]
           \/ UNCHANGED composite
    BY DEF SmoothRate
  <1>2. rates # << >> /\ review[u] /\ composite[u] >= 1 /\ composite \in [Updater -> Nat]
    BY <1>0, <1>1 DEF RunsJudged, RatesTyped, OracleTypeOK
  <1>3. getAverageRateOverHours \in Nat \ {0}
    <2>1. Len(rates) \in Nat /\ DOMAIN rates = 1..Len(rates) /\ (rates # << >> => Len(rates) \in 1..Len(rates))
      BY <1>0, LatestTyped
    <2>2. Len(rates) \in Nat \ {0}
      BY <1>2, <2>1
    <2>3. \A i \in 1..Len(rates) : rates[i].rate \in Nat \ {0}
      BY <1>0 DEF RatesTyped, OracleTypeOK, RatesPositive
    <2> QED BY <2>1, <2>2, <2>3, AveragePositive
  <1>4. /\ composite' \in [Updater -> Nat] /\ composite'[u] >= 1
        /\ \A v \in Updater : v # u => composite'[v] = composite[v]
    BY <1>1, <1>2, <1>3
  <1>5. /\ opc' \in [Updater -> {"idle", "assessed", "tripped", "stored"}] /\ opc'[u] = "assessed"
        /\ \A v \in Updater : v # u => opc'[v] = opc[v]
    BY <1>0, <1>1 DEF RatesTyped, OracleTypeOK
  <1>6. RatesTyped'
    BY <1>0, <1>1, <1>4, <1>5 DEF RatesTyped, OracleTypeOK
  <1>7. RatesPositive'
    BY <1>0, <1>1 DEF RatesPositive
  <1>8. RunsJudged'
    <2> SUFFICES ASSUME NEW v \in Updater
                 PROVE  /\ opc'[v] \in {"assessed", "tripped"} => composite'[v] >= 1
                        /\ opc'[v] = "tripped" => review'[v] /\ rates' # << >>
      BY DEF RunsJudged
    <2>1. CASE v = u
      BY <1>4, <1>5, <2>1
    <2>2. CASE v # u
      BY <1>0, <1>1, <1>4, <1>5, <2>2 DEF RunsJudged
    <2> QED BY <2>1, <2>2
  <1>9. AloneJudged'
    <2> SUFFICES ASSUME ~together' PROVE AloneJudged'
      BY DEF AloneJudged
    <2>1. ~together /\ Latest' = Latest
      BY <1>1 DEF Latest
    <2>2. \A v, w \in Updater : v # w => opc'[v] = "idle" \/ opc'[w] = "idle"
      BY <1>0, <1>1, <1>5, <2>1 DEF AloneJudged
    <2>3. \A v \in Updater : opc'[v] = "assessed" /\ ~review'[v] /\ rates' # << >> =>
              Within(composite'[v], Latest', ReviewPct)
      <3> TAKE v \in Updater
      <3>1. CASE v = u
        BY <1>1, <1>2, <3>1
      <3>2. CASE v # u
        BY <1>0, <1>1, <1>4, <1>5, <2>1, <3>2, Zenon DEF AloneJudged
      <3> QED BY <3>1, <3>2
    <2> QED BY <2>2, <2>3 DEF AloneJudged, Within
  <1>10. MovesFlagged'
    BY <1>0, <1>1 DEF MovesFlagged, Within
  <1> QED BY <1>0, <1>1, <1>6, <1>7, <1>8, <1>9, <1>10 DEF RatesInv

LEMMA RateStored ==
  ASSUME RatesInv, NEW u \in Updater, StoreRate(u)
  PROVE  RatesInv'
  <1>0. RatesTyped /\ RatesPositive /\ RunsJudged /\ AloneJudged /\ MovesFlagged /\ ~swayed
    BY DEF RatesInv
  <1>1. /\ opc[u] = "assessed" /\ Len(rates) < MaxRates
        /\ rates' \in {rates, Append(rates, [rate |-> composite[u], review |-> review[u]])}
        /\ opc' = [opc EXCEPT ![u] = "stored"]
        /\ composite' = [composite EXCEPT ![u] = 0] /\ review' = [review EXCEPT ![u] = FALSE]
        /\ UNCHANGED <<acbuRate, swayed, together>>
    BY DEF StoreRate
  <1>2. PICK c \in Nat, flag \in BOOLEAN : c = composite[u] /\ flag = review[u] /\ c >= 1
    BY <1>0, <1>1 DEF RunsJudged, RatesTyped, OracleTypeOK
  <1>3. PICK row \in [rate : Nat, review : BOOLEAN] : row = [rate |-> c, review |-> flag] /\ row.rate = c /\ row.review = flag
    <2>1. [rate |-> c, review |-> flag] \in [rate : Nat, review : BOOLEAN]
      BY <1>2
    <2> QED BY <2>1, Zenon
  <1>4. /\ Len(rates) \in Nat /\ DOMAIN rates = 1..Len(rates) /\ rates \in Seq([rate : Nat, review : BOOLEAN])
        /\ MaxRates \in Nat /\ acbuRate \in 0..Len(rates)
        /\ \A i \in 1..Len(rates) : rates[i].rate \in Nat /\ rates[i].review \in BOOLEAN /\ rates[i].rate >= 1
    BY <1>0, LatestTyped, OracleFacts DEF RatesTyped, OracleTypeOK, RatesPositive
  <1>5. PICK n \in Nat : n = Len(rates) /\ n < MaxRates
    BY <1>1, <1>4
  <1>6. rates' = rates \/ rates' = Append(rates, row)
    BY <1>1, <1>2, <1>3
  <1>7. rates' = Append(rates, row) => /\ Len(rates') = n + 1 /\ rates'[n + 1] = row
                                       /\ \A i \in 1..n : rates'[i] = rates[i]
                                       /\ rates' \in Seq([rate : Nat, review : BOOLEAN])
    <2> SUFFICES ASSUME rates' = Append(rates, row)
                 PROVE  /\ Len(rates') = n + 1 /\ rates'[n + 1] = row
                        /\ \A i \in 1..n : rates'[i] = rates[i]
                        /\ rates' \in Seq([rate : Nat, review : BOOLEAN])
      OBVIOUS
    <2> QED BY <1>4, <1>5
  <1>8. /\ opc' \in [Updater -> {"idle", "assessed", "tripped", "stored"}]
        /\ composite' \in [Updater -> Nat] /\ review' \in [Updater -> BOOLEAN]
        /\ \A v \in Updater : v # u => /\ composite'[v] = composite[v]
                                       /\ review'[v] = review[v] /\ opc'[v] = opc[v]
        /\ opc'[u] = "stored"
    BY <1>0, <1>1 DEF RatesTyped, OracleTypeOK
  <1>9. \A i \in 1..Len(rates') : rates'[i].rate \in Nat /\ rates'[i].review \in BOOLEAN /\ rates'[i].rate >= 1
    <2>1. CASE rates' = rates
      BY <1>4, <2>1
    <2>2. CASE rates' = Append(rates, row)
      <3> TAKE i \in 1..Len(rates')
      <3>1. i \in 1..n \/ i = n + 1
        BY <1>7, <2>2
      <3>2. CASE i \in 1..n
        BY <1>4, <1>5, <1>7, <2>2, <3>2
      <3>3. CASE i = n + 1
        BY <1>2, <1>3, <1>7, <2>2, <3>3
      <3> QED BY <3>1, <3>2, <3>3
    <2> QED BY <1>6, <2>1, <2>2
  <1>10. /\ Len(rates') \in {n, n + 1} /\ rates' \in Seq([rate : Nat, review : BOOLEAN])
         /\ (rates = << >> \/ rates' # << >>)
    BY <1>4, <1>5, <1>6, <1>7
  <1>11. RatesTyped'
    <2>1. Len(rates') <= MaxRates /\ acbuRate' \in 0..Len(rates')
      BY <1>1, <1>4, <1>5, <1>10
    <2>2. together' \in BOOLEAN /\ swayed' \in BOOLEAN
      BY <1>0, <1>1 DEF RatesTyped, OracleTypeOK
    <2> QED BY <1>8, <1>9, <1>10, <2>1, <2>2 DEF RatesTyped, OracleTypeOK
  <1>12. RatesPositive'
    BY <1>9 DEF RatesPositive
  <1>13. RunsJudged'
    <2> SUFFICES ASSUME NEW v \in Updater
                 PROVE  /\ opc'[v] \in {"assessed", "tripped"} => composite'[v] >= 1
                        /\ opc'[v] = "tripped" => review'[v] /\ rates' # << >>
      BY DEF RunsJudged
    <2>1. CASE v = u
      BY <1>8, <2>1
    <2>2. CASE v # u
      BY <1>0, <1>8, <1>10, <2>2 DEF RunsJudged
    <2> QED BY <2>1, <2>2
  <1>14. AloneJudged'
    <2> SUFFICES ASSUME ~together' PROVE AloneJudged'
      BY DEF AloneJudged
    <2>1. \A v \in Updater : v # u => opc[v] = "idle"
      BY <1>0, <1>1 DEF AloneJudged
    <2> QED BY <1>8, <2>1 DEF AloneJudged, Within
  <1>15. MovesFlagged'
    <2> SUFFICES ASSUME ~together', NEW i \in 2..Len(rates')
                 PROVE  Within(rates'[i].rate, rates'[i - 1].rate, ReviewPct) \/ rates'[i].review
      BY DEF MovesFlagged, Within
    <2>1. ~together
      BY <1>1
    <2>2. CASE rates' = rates
      <3>1. i \in 2..Len(rates)
        BY <2>2
      <3> QED BY <1>0, <2>1, <2>2, <3>1 DEF MovesFlagged
    <2>3. CASE rates' = Append(rates, row)
      <3>1. i \in 2..n \/ i = n + 1
        BY <1>7, <2>3
      <3>2. CASE i \in 2..n
        <4>1. rates'[i] = rates[i] /\ rates'[i - 1] = rates[i - 1]
          <5>1. i \in 1..n /\ i - 1 \in 1..n
            BY <3>2
          <5> QED BY <1>7, <2>3, <5>1
        <4>2. Within(rates[i].rate, rates[i - 1].rate, ReviewPct) \/ rates[i].review
          BY <1>0, <1>5, <2>1, <3>2 DEF MovesFlagged
        <4> QED BY <4>1, <4>2
      <3>3. CASE i = n + 1
        <4>1. n \in 1..n /\ rates # << >>
          BY <1>5, <3>3
        <4>2. rates'[i] = row /\ rates'[i - 1] = rates[n]
          BY <1>7, <2>3, <3>3, <4>1
        <4>3. Latest = rates[n].rate
          BY <1>5, <4>1 DEF Latest
        <4>4. flag \/ Within(c, Latest, ReviewPct)
          BY <1>0, <1>1, <1>2, <2>1, <4>1, Zenon DEF AloneJudged
        <4> QED BY <1>3, <4>2, <4>3, <4>4, Zenon
      <3> QED BY <3>1, <3>2, <3>3
    <2> QED BY <1>6, <2>2, <2>3
  <1> QED BY <1>0, <1>1, <1>11, <1>12, <1>13, <1>14, <1>15 DEF RatesInv

LEMMA RatesNextInv == RatesInv /\ [OracleNext]_oracleVars => RatesInv'
  <1> SUFFICES ASSUME RatesInv, [OracleNext]_oracleVars PROVE RatesInv'
    OBVIOUS
  <1>0. RatesTyped /\ RatesPositive /\ RunsJudged /\ AloneJudged /\ MovesFlagged /\ ~swayed
    BY DEF RatesInv
  <1>1. ASSUME NEW u \in Updater, computeSyntheticBasketOneAcbuForBasket(u) PROVE RatesInv'
    <2>1. /\ opc[u] = "stored" /\ opc' = [opc EXCEPT ![u] = "idle"]
          /\ acbuRate' = (IF Latest > 0 THEN Len(rates) ELSE acbuRate)
          /\ UNCHANGED <<rates, composite, review, swayed, together>>
      BY <1>1 DEF computeSyntheticBasketOneAcbuForBasket
    <2>2. /\ opc' \in [Updater -> {"idle", "assessed", "tripped", "stored"}]
          /\ opc'[u] = "idle" /\ \A v \in Updater : v # u => opc'[v] = opc[v]
      BY <1>0, <2>1 DEF RatesTyped, OracleTypeOK
    <2>3. Len(rates) \in Nat /\ acbuRate' \in 0..Len(rates)
      <3>1. Len(rates) \in Nat /\ acbuRate \in 0..Len(rates)
        BY <1>0, LatestTyped DEF RatesTyped, OracleTypeOK
      <3> QED BY <2>1, <3>1
    <2>4. RatesTyped'
      BY <1>0, <2>1, <2>2, <2>3 DEF RatesTyped, OracleTypeOK
    <2>5. RatesPositive'
      BY <1>0, <2>1 DEF RatesPositive
    <2>6. RunsJudged'
      <3> SUFFICES ASSUME NEW v \in Updater
                   PROVE  /\ opc'[v] \in {"assessed", "tripped"} => composite'[v] >= 1
                          /\ opc'[v] = "tripped" => review'[v] /\ rates' # << >>
        BY DEF RunsJudged
      <3>1. opc'[v] \in {"assessed", "tripped"} => opc'[v] = opc[v]
        BY <2>2
      <3> QED BY <1>0, <2>1, <3>1 DEF RunsJudged
    <2>7. AloneJudged'
      <3>1. Latest' = Latest
        BY <2>1 DEF Latest
      <3>2. \A v \in Updater : opc'[v] = "idle" \/ opc'[v] = opc[v]
        BY <2>2
      <3> QED BY <1>0, <2>1, <3>1, <3>2 DEF AloneJudged, Within
    <2>8. MovesFlagged'
      BY <1>0, <2>1 DEF MovesFlagged, Within
    <2> QED BY <1>0, <2>1, <2>4, <2>5, <2>6, <2>7, <2>8 DEF RatesInv
  <1>2. CASE UNCHANGED oracleVars
    <2>1. UNCHANGED <<rates, opc, composite, review, acbuRate, swayed, together>>
      BY <1>2 DEF oracleVars
    <2>2. RatesTyped' /\ RatesPositive' /\ MovesFlagged'
      BY <1>0, <2>1 DEF RatesTyped, OracleTypeOK, RatesPositive, MovesFlagged, Within
    <2>3. RunsJudged'
      <3> SUFFICES ASSUME NEW v \in Updater
                   PROVE  /\ opc'[v] \in {"assessed", "tripped"} => composite'[v] >= 1
                          /\ opc'[v] = "tripped" => review'[v] /\ rates' # << >>
        BY DEF RunsJudged
      <3> QED BY <1>0, <2>1 DEF RunsJudged
    <2>4. AloneJudged'
      BY <1>0, <2>1 DEF AloneJudged, Within, Latest
    <2> QED BY <1>0, <2>1, <2>2, <2>3, <2>4 DEF RatesInv
  <1> QED BY <1>1, <1>2, RatesFetched, RatesSmoothed, RateStored DEF OracleNext

LEMMA RatesInvSound ==
  ASSUME RatesInv
  PROVE  RatesSound
  BY Zenon DEF RatesInv, RatesSound, RatesTyped, MovesFlagged

(* A minority of the sources, however wrong, cannot move the rate, and a stored rate   *)
(* that moved beyond the limit is flagged unless two runs of the job met: for any      *)
(* quotes, thresholds and number of rows (integrationService.ts).                      *)
THEOREM RatesAreSound == OracleSpec => []RatesSound
  <1>1. OracleInit => RatesInv
    BY RatesInitInv
  <1>2. RatesInv /\ [OracleNext]_oracleVars => RatesInv'
    BY RatesNextInv
  <1>3. RatesInv => RatesSound
    BY RatesInvSound
  <1> QED BY <1>1, <1>2, <1>3, PTL DEF OracleSpec

-----------------------------------------------------------------------------
(* ReadCaches: what the caches of a process serve. *)

LEMMA CachesFacts ==
  /\ Ttl \in Nat /\ NegTtl \in Nat /\ Slow \in Nat
  /\ Null \notin Nat /\ Bad \notin Nat /\ Null # Bad
  /\ MaxChange \in Nat \ {0} /\ MaxMoment \in Nat \ {0} /\ MaxMisses \in Nat
  BY ReadCachesAssumption

(* The largest of a bounded set of numbers. *)
LEMMA MaxOfBounded ==
  ASSUME NEW n \in Nat, NEW S, S \subseteq 0..n, S # {}
  PROVE  Max(S) \in S /\ \A x \in S : x <= Max(S)
  <1> DEFINE T == {n - x : x \in S}
  <1>1. T \subseteq Nat /\ T # {}
    OBVIOUS
  <1>2. PICK m \in T : \A k \in T : m <= k
    BY <1>1, LeastNumber
  <1>3. PICK y \in S : m = n - y
    OBVIOUS
  <1>4. \A x \in S : y >= x
    <2> SUFFICES ASSUME NEW x \in S PROVE y >= x
      OBVIOUS
    <2>1. n - x \in T
      OBVIOUS
    <2>2. n - y <= n - x
      BY <1>2, <1>3, <2>1
    <2>3. x \in Nat /\ y \in Nat
      OBVIOUS
    <2> QED BY <2>2, <2>3
  <1>5. Max(S) \in S /\ \A x \in S : Max(S) >= x
    BY <1>4, Zenon DEF Max
  <1>6. \A x \in S : x \in Nat
    OBVIOUS
  <1> QED BY <1>5, <1>6

LEMMA MaxOfTwo ==
  ASSUME NEW x \in Nat, NEW y \in Nat
  PROVE  Max({x, y}) \in Nat /\ Max({x, y}) = IF x > y THEN x ELSE y
  <1>1. \E m \in {x, y} : \A k \in {x, y} : m >= k
    OBVIOUS
  <1>2. Max({x, y}) \in {x, y} /\ \A k \in {x, y} : Max({x, y}) >= k
    BY <1>1, Zenon DEF Max
  <1> QED BY <1>2

-----------------------------------------------------------------------------
Waiting == {r \in Reader : ~NotWaiting(r)}

CachesTyped ==
    /\ readOf \in {"limits", "acbu", "fx"} /\ moment \in Nat \ {0} /\ moment <= MaxMoment
    /\ current \in Nat \ {0} /\ current <= MaxChange
    /\ ended \in [Version -> Nat]
    /\ entry \in [val : Version \cup {Null}, until : Nat]
    /\ load \in [at : {"off", "asked", "read"}, val : Version \cup {Null}, since : Nat]
    /\ waits \in [Reader -> Nat \cup {Null}]
    /\ latest \in Nat /\ latest <= current /\ loaded \in BOOLEAN
    /\ notBefore \in Nat /\ misses \in Nat

(* A load ends within Slow, some reader waits for it, and what it has read was *)
(* current after it began.                                                     *)
LoadsTimely ==
    /\ load.at # "off" => /\ load.since >= 1 /\ load.since <= moment /\ moment <= load.since + Slow
                          /\ Waiting # {}
    /\ \A r \in Waiting : load.at # "off" /\ waits[r] >= load.since /\ waits[r] <= moment
    /\ load.at = "read" /\ load.val # Null =>
           /\ load.val >= 1 /\ load.val <= current /\ load.val >= latest
           /\ load.val < current => load.since <= ended[load.val]
    /\ load.at = "read" /\ readOf = "limits" => load.val # Null

(* An entry has its life, from when it was loaded or the limits last did without. *)
EntryFresh ==
    entry.val # Null =>
        /\ entry.val <= current /\ entry.until <= moment + Ttl
        /\ entry.until > 0 => entry.val >= latest
        /\ entry.val >= 1 /\ entry.val < current /\ (readOf = "limits" => misses = 0) =>
               entry.until <= ended[entry.val] + Ttl + Slow

(* The limits fall back on what they had. *)
LimitsKept ==
    readOf = "limits" =>
        /\ entry.val # Null
        /\ entry.until = 0 => latest = 0 /\ ~loaded
        /\ loaded => entry.val >= 1

(* No reader loads while an entry lives, and none is kept away longer. *)
OneLoad ==
    /\ notBefore <= entry.until
    /\ load.at # "off" => ~Hit

CachesCalm == ~old /\ ~back /\ ~env /\ ~wrong /\ ~hammered

CachesInv == CachesTyped /\ LoadsTimely /\ EntryFresh /\ LimitsKept /\ OneLoad /\ CachesCalm

LEMMA CachesInitInv == ReadCachesInit => CachesInv
  <1> SUFFICES ASSUME ReadCachesInit PROVE CachesInv
    OBVIOUS
  <1>1. /\ readOf \in {"limits", "acbu", "fx"} /\ moment = 1 /\ current = 1 /\ ended = [v \in Version |-> 0]
        /\ entry = [val |-> 0, until |-> 0] /\ load = [at |-> "off", val |-> 0, since |-> 0]
        /\ waits = [r \in Reader |-> Null] /\ misses = 0
        /\ latest = 0 /\ loaded = FALSE /\ notBefore = 0
        /\ old = FALSE /\ back = FALSE /\ env = FALSE /\ hammered = FALSE /\ wrong = FALSE
    BY DEF ReadCachesInit, Empty, NoLoad
  <1>2. 0 \in Version
    BY CachesFacts DEF Version
  <1>3. /\ entry \in [val : Version \cup {Null}, until : Nat] /\ entry.val = 0 /\ entry.until = 0
        /\ load \in [at : {"off", "asked", "read"}, val : Version \cup {Null}, since : Nat] /\ load.at = "off"
    BY <1>1, <1>2
  <1>4. Waiting = {}
    BY <1>1 DEF Waiting, NotWaiting
  <1>5. CachesTyped
    <2>1. ended \in [Version -> Nat] /\ waits \in [Reader -> Nat \cup {Null}]
      BY <1>1
    <2>2. moment \in Nat \ {0} /\ moment <= MaxMoment /\ current \in Nat \ {0} /\ current <= MaxChange
      BY <1>1, CachesFacts
    <2>3. /\ latest \in Nat /\ latest <= current
          /\ notBefore \in Nat /\ misses \in Nat
      BY <1>1
    <2>4. loaded \in BOOLEAN /\ readOf \in {"limits", "acbu", "fx"}
      BY <1>1, Zenon
    <2> QED BY <1>3, <2>1, <2>2, <2>3, <2>4 DEF CachesTyped
  <1>6. LoadsTimely
    BY <1>3, <1>4 DEF LoadsTimely
  <1>7. EntryFresh /\ LimitsKept /\ OneLoad
    BY <1>1, <1>3, CachesFacts DEF EntryFresh, LimitsKept, OneLoad
  <1>8. CachesCalm
    BY <1>1, Zenon DEF CachesCalm
  <1> QED BY <1>5, <1>6, <1>7, <1>8 DEF CachesInv

(* What readers are given is as good as what they had. *)
GoodNow(v) ==
    \/ v = Null
    \/ /\ v \in Version /\ v <= current /\ v >= latest
       /\ v >= 1 /\ v < current /\ (readOf = "limits" => misses' = 0) => moment <= ended[v] + Ttl + Slow
       /\ v = 0 /\ readOf = "limits" => ~loaded

LEMMA GivenGood ==
  ASSUME CachesInv, NEW rs, NEW v, Given(rs, v), GoodNow(v), misses' \in Nat
  PROVE  /\ ~old' /\ ~back' /\ ~env' /\ ~wrong'
         /\ v = Null => latest' = latest
         /\ v # Null => latest' = v
  <1>0. CachesTyped /\ CachesCalm
    BY DEF CachesInv
  <1>1. /\ latest' = (IF v \in Version THEN Max({latest, v}) ELSE latest)
        /\ back' = (back \/ (v \in Version /\ v < latest))
        /\ old' = (old \/ (v \in Version \ {0} /\ v < current /\ moment > ended[v] + Ttl + Slow
                           /\ (readOf = "limits" => misses' = 0)))
        /\ env' = (env \/ (readOf = "limits" /\ v = 0 /\ loaded))
        /\ wrong' = (wrong \/ v = Bad)
    BY DEF Given
  <1>2. ~old /\ ~back /\ ~env /\ ~wrong
    BY <1>0 DEF CachesCalm
  <1>3. /\ Null \notin Version /\ Bad \notin Version /\ Null # Bad /\ Null # 0 /\ Version \subseteq Nat
    BY CachesFacts DEF Version
  <1>4. CASE v = Null
    BY <1>1, <1>2, <1>3, <1>4, Zenon
  <1>5. CASE v # Null
    <2>1. /\ v \in Version /\ v <= current /\ v >= latest
          /\ v >= 1 /\ v < current /\ (readOf = "limits" => misses' = 0) => moment <= ended[v] + Ttl + Slow
          /\ v = 0 /\ readOf = "limits" => ~loaded
      BY <1>5 DEF GoodNow
    <2>2. v \in Nat /\ latest \in Nat /\ moment \in Nat /\ ended[v] \in Nat /\ Ttl \in Nat /\ Slow \in Nat
      BY <1>0, <1>3, <2>1, CachesFacts DEF CachesTyped
    <2>3. latest' = v
      BY <1>1, <2>1, <2>2, MaxOfTwo
    <2>4. ~(v < latest)
      BY <2>1, <2>2
    <2>5. ~(v \in Version \ {0} /\ v < current /\ moment > ended[v] + Ttl + Slow /\ (readOf = "limits" => misses' = 0))
      BY <2>1, <2>2
    <2>6. ~old' /\ ~back'
      BY <1>1, <1>2, <2>4, <2>5, Zenon
    <2>7. ~env' /\ ~wrong'
      BY <1>1, <1>2, <1>3, <2>1, Zenon
    <2> QED BY <1>5, <2>3, <2>6, <2>7
  <1> QED BY <1>4, <1>5

LEMMA SourceChangesInv ==
  ASSUME CachesInv, SourceChanges
  PROVE  CachesInv'
  <1>0. CachesTyped /\ LoadsTimely /\ EntryFresh /\ LimitsKept /\ OneLoad /\ CachesCalm
    BY DEF CachesInv
  <1>1. /\ current < MaxChange
        /\ ended' = [ended EXCEPT ![current] = moment] /\ current' = current + 1
        /\ UNCHANGED <<readOf, moment, entry, load, waits, misses, latest, loaded, notBefore, old, back, env, hammered, wrong>>
    BY DEF SourceChanges
  <1>2. /\ MaxChange \in Nat /\ Ttl \in Nat /\ Slow \in Nat /\ moment \in Nat /\ current \in Nat /\ current >= 1
        /\ ended \in [Version -> Nat] /\ latest \in Nat /\ latest <= current
        /\ entry.val \in Version \cup {Null} /\ entry.until \in Nat
        /\ load.val \in Version \cup {Null} /\ load.since \in Nat
    BY <1>0, CachesFacts DEF CachesTyped
  <1>3. current \in Version /\ Version \subseteq Nat /\ Null \notin Nat
    BY <1>0, <1>2, CachesFacts DEF Version, CachesTyped
  <1>4. /\ ended' \in [Version -> Nat] /\ ended'[current] = moment
        /\ \A v \in Version : v # current => ended'[v] = ended[v]
    BY <1>1, <1>2, <1>3
  <1>5. CachesTyped'
    BY <1>0, <1>1, <1>2, <1>4 DEF CachesTyped, Version
  <1>6. LoadsTimely'
    <2>1. ASSUME load.at = "read", load.val # Null
          PROVE  /\ load.val >= 1 /\ load.val <= current + 1 /\ load.val >= latest
                 /\ load.val < current + 1 => load.since <= ended'[load.val]
      <3>1. /\ load.val >= 1 /\ load.val <= current /\ load.val >= latest /\ load.val \in Version
            /\ load.val < current => load.since <= ended[load.val]
            /\ load.since <= moment
        BY <1>0, <1>2, <2>1 DEF LoadsTimely
      <3>2. CASE load.val = current
        BY <1>2, <1>4, <3>1, <3>2
      <3>3. CASE load.val # current
        <4>1. load.val \in Nat /\ load.val < current
          <5>1. PICK v \in Nat, c \in Nat : v = load.val /\ c = current
            BY <1>2, <1>3, <3>1, Zenon
          <5>2. v <= c /\ v # c
            BY <3>1, <3>3, <5>1, Zenon
          <5> QED BY <5>1, <5>2
        <4>2. ended'[load.val] = ended[load.val]
          BY <1>4, <3>1, <3>3, Zenon
        <4> QED BY <1>2, <3>1, <4>1, <4>2
      <3> QED BY <3>2, <3>3
    <2>2. Waiting' = Waiting
      BY <1>1 DEF Waiting, NotWaiting
    <2> QED BY <1>0, <1>1, <2>1, <2>2 DEF LoadsTimely
  <1>7. EntryFresh'
    <2>1. ASSUME entry.val # Null
          PROVE  /\ entry.val <= current + 1 /\ entry.until <= moment + Ttl
                 /\ entry.until > 0 => entry.val >= latest
                 /\ entry.val >= 1 /\ entry.val < current + 1 /\ (readOf = "limits" => misses = 0) =>
                        entry.until <= ended'[entry.val] + Ttl + Slow
      <3>1. /\ entry.val \in Version /\ entry.val \in Nat
            /\ entry.val <= current /\ entry.until <= moment + Ttl
            /\ entry.until > 0 => entry.val >= latest
            /\ entry.val >= 1 /\ entry.val < current /\ (readOf = "limits" => misses = 0) =>
                        entry.until <= ended[entry.val] + Ttl + Slow
        BY <1>0, <1>2, <1>3, <2>1 DEF EntryFresh
      <3>2. CASE entry.val = current
        BY <1>2, <1>4, <3>1, <3>2
      <3>3. CASE entry.val # current
        BY <1>2, <1>3, <1>4, <3>1, <3>3
      <3> QED BY <3>2, <3>3
    <2> QED BY <1>1, <2>1 DEF EntryFresh
  <1>8. LimitsKept' /\ OneLoad' /\ CachesCalm'
    BY <1>0, <1>1 DEF LimitsKept, OneLoad, Hit, CachesCalm
  <1> QED BY <1>5, <1>6, <1>7, <1>8 DEF CachesInv

LEMMA TimeGoesOnInv ==
  ASSUME CachesInv, TimeGoesOn
  PROVE  CachesInv'
  <1>0. CachesTyped /\ LoadsTimely /\ EntryFresh /\ LimitsKept /\ OneLoad /\ CachesCalm
    BY DEF CachesInv
  <1>1. /\ moment < MaxMoment /\ (load.at # "off" => moment < load.since + Slow)
        /\ moment' = moment + 1
        /\ UNCHANGED <<readOf, current, ended, entry, load, waits, misses, latest, loaded, notBefore, old, back, env, hammered, wrong>>
    BY DEF TimeGoesOn, sourceVars
  <1>2. /\ MaxMoment \in Nat /\ Ttl \in Nat /\ Slow \in Nat /\ moment \in Nat
        /\ entry.until \in Nat /\ load.since \in Nat /\ waits \in [Reader -> Nat \cup {Null}]
    BY <1>0, CachesFacts DEF CachesTyped
  <1>3. CachesTyped'
    BY <1>0, <1>1, <1>2 DEF CachesTyped, Version
  <1>4. LoadsTimely'
    <2>1. Waiting' = Waiting /\ \A r \in Waiting : waits[r] \in Nat
      BY <1>1, <1>2 DEF Waiting, NotWaiting
    <2>2. load.at # "off" => load.since >= 1 /\ load.since <= moment + 1 /\ moment + 1 <= load.since + Slow /\ Waiting # {}
      BY <1>0, <1>1, <1>2 DEF LoadsTimely
    <2>3. \A r \in Waiting : load.at # "off" /\ waits[r] >= load.since /\ waits[r] <= moment + 1
      BY <1>0, <1>2, <2>1 DEF LoadsTimely
    <2> QED BY <1>0, <1>1, <2>1, <2>2, <2>3 DEF LoadsTimely
  <1>5. EntryFresh'
    <2>1. entry.until <= moment + Ttl => entry.until <= moment + 1 + Ttl
      BY <1>2
    <2> QED BY <1>0, <1>1, <2>1 DEF EntryFresh
  <1>6. OneLoad'
    <2>1. ~Hit => ~(entry.until > 0 /\ moment + 1 < entry.until)
      BY <1>2 DEF Hit
    <2> QED BY <1>0, <1>1, <2>1 DEF OneLoad, Hit
  <1>7. LimitsKept' /\ CachesCalm'
    BY <1>0, <1>1 DEF LimitsKept, CachesCalm
  <1> QED BY <1>3, <1>4, <1>5, <1>6, <1>7 DEF CachesInv

LEMMA GetCachedInv ==
  ASSUME CachesInv, NEW r \in Reader, GetCached(r)
  PROVE  CachesInv'
  <1>0. CachesTyped /\ LoadsTimely /\ EntryFresh /\ LimitsKept /\ OneLoad /\ CachesCalm
    BY DEF CachesInv
  <1>1. /\ NotWaiting(r)
        /\ UNCHANGED <<readOf, current, ended, usable, moment, entry, loaded, notBefore, misses>>
    BY DEF GetCached, sourceVars
  <1>2. /\ Ttl \in Nat /\ Slow \in Nat /\ moment \in Nat \ {0} /\ notBefore \in Nat /\ latest \in Nat /\ latest <= current
        /\ current \in Nat /\ misses \in Nat
        /\ entry.until \in Nat /\ entry.val \in Version \cup {Null}
        /\ load.since \in Nat /\ waits \in [Reader -> Nat \cup {Null}] /\ ended \in [Version -> Nat]
        /\ Null \notin Nat /\ Version \subseteq Nat
    BY <1>0, CachesFacts DEF CachesTyped, Version
  <1>3. CASE Hit
    <2>1. Given({r}, entry.val) /\ UNCHANGED <<load, waits, hammered>>
      BY <1>3 DEF GetCached
    <2>2. GoodNow(entry.val)
      <3> SUFFICES ASSUME entry.val # Null PROVE GoodNow(entry.val)
        BY DEF GoodNow
      <3>1. entry.until > 0 /\ moment < entry.until
        BY <1>3 DEF Hit
      <3>2. /\ entry.val \in Version /\ entry.val \in Nat /\ entry.val <= current /\ entry.val >= latest
            /\ entry.val >= 1 /\ entry.val < current /\ (readOf = "limits" => misses = 0) =>
                   entry.until <= ended[entry.val] + Ttl + Slow
        BY <1>0, <1>2, <3>1 DEF EntryFresh
      <3>3. entry.val >= 1 /\ entry.val < current /\ (readOf = "limits" => misses' = 0) =>
                moment <= ended[entry.val] + Ttl + Slow
        BY <1>1, <1>2, <3>1, <3>2
      <3>4. entry.val = 0 /\ readOf = "limits" => ~loaded
        BY <1>0 DEF LimitsKept
      <3> QED BY <3>2, <3>3, <3>4 DEF GoodNow
    <2>3. /\ ~old' /\ ~back' /\ ~env' /\ ~wrong'
          /\ entry.val = Null => latest' = latest
          /\ entry.val # Null => latest' = entry.val
      BY <1>1, <1>2, <2>1, <2>2, GivenGood
    <2>4. load.at = "off"
      BY <1>0, <1>3 DEF OneLoad
    <2>5. latest' \in Nat /\ latest' <= current
      BY <1>0, <1>2, <2>3 DEF EntryFresh
    <2>6. CachesTyped'
      BY <1>0, <1>1, <2>1, <2>5 DEF CachesTyped, Version
    <2>7. LoadsTimely'
      <3>1. Waiting' = Waiting
        BY <2>1 DEF Waiting, NotWaiting
      <3> QED BY <1>0, <1>1, <2>1, <2>4, <3>1 DEF LoadsTimely
    <2>8. EntryFresh'
      <3>1. entry.val # Null => entry.val >= latest'
        <4>1. entry.val # Null => entry.val \in Nat
          BY <1>2
        <4>2. entry.val # Null => entry.val >= entry.val
          BY <4>1
        <4> QED BY <2>3, <4>2, Zenon
      <3> QED BY <1>0, <1>1, <3>1 DEF EntryFresh
    <2>9. LimitsKept'
      <3>1. entry.until # 0
        BY <1>2, <1>3 DEF Hit
      <3> QED BY <1>0, <1>1, <3>1 DEF LimitsKept
    <2>10. OneLoad' /\ CachesCalm'
      BY <1>0, <1>1, <2>1, <2>3 DEF OneLoad, Hit, CachesCalm
    <2> QED BY <2>6, <2>7, <2>8, <2>9, <2>10 DEF CachesInv
  <1>4. CASE ~Hit
    <2>1. /\ waits' = [waits EXCEPT ![r] = moment]
          /\ load' = (IF load.at = "off" THEN [at |-> "asked", val |-> 0, since |-> moment] ELSE load)
          /\ hammered' = (hammered \/ (load.at = "off" /\ moment < notBefore))
          /\ UNCHANGED <<latest, back, old, env, wrong>>
      BY <1>4 DEF GetCached
    <2>2. ~hammered'
      <3>1. ~(moment < notBefore)
        BY <1>0, <1>2, <1>4 DEF OneLoad, Hit
      <3> QED BY <1>0, <2>1, <3>1, Zenon DEF CachesCalm
    <2>3. /\ waits' \in [Reader -> Nat \cup {Null}] /\ waits'[r] = moment
          /\ \A q \in Reader : q # r => waits'[q] = waits[q]
      BY <1>2, <2>1
    <2>4. r \in Waiting' /\ \A q \in Waiting' : q = r \/ q \in Waiting
      BY <1>2, <2>3 DEF Waiting, NotWaiting
    <2>5. CASE load.at = "off"
      <3>1. /\ load' = [at |-> "asked", val |-> 0, since |-> moment]
            /\ load'.at = "asked" /\ load'.since = moment
            /\ load' \in [at : {"off", "asked", "read"}, val : Version \cup {Null}, since : Nat]
        <4>1. 0 \in Version
          BY CachesFacts DEF Version
        <4> QED BY <1>2, <2>1, <2>5, <4>1
      <3>2. Waiting = {}
        BY <1>0, <2>5 DEF LoadsTimely
      <3>3. CachesTyped'
        BY <1>0, <1>1, <2>1, <2>3, <3>1 DEF CachesTyped, Version
      <3>4. LoadsTimely'
        BY <1>1, <1>2, <2>3, <2>4, <3>1, <3>2 DEF LoadsTimely
      <3>5. EntryFresh' /\ LimitsKept' /\ CachesCalm'
        BY <1>0, <1>1, <2>1, <2>2 DEF EntryFresh, LimitsKept, CachesCalm
      <3>6. OneLoad'
        BY <1>0, <1>1, <1>4 DEF OneLoad, Hit
      <3> QED BY <3>3, <3>4, <3>5, <3>6 DEF CachesInv
    <2>6. CASE load.at # "off"
      <3>1. load' = load
        BY <2>1, <2>6
      <3>2. CachesTyped'
        BY <1>0, <1>1, <2>1, <2>3, <3>1 DEF CachesTyped, Version
      <3>3. LoadsTimely'
        <4>1. load.since <= moment
          BY <1>0, <2>6 DEF LoadsTimely
        <4>2. \A q \in Waiting' : load'.at # "off" /\ waits'[q] >= load'.since /\ waits'[q] <= moment'
          <5> TAKE q \in Waiting'
          <5>1. CASE q = r
            BY <1>1, <1>2, <2>3, <2>6, <3>1, <4>1, <5>1
          <5>2. CASE q # r
            BY <1>0, <1>1, <2>3, <2>4, <3>1, <5>2 DEF LoadsTimely, Waiting
          <5> QED BY <5>1, <5>2
        <4>3. Waiting' # {}
          BY <2>4
        <4> QED BY <1>0, <1>1, <2>1, <3>1, <4>2, <4>3 DEF LoadsTimely
      <3>4. EntryFresh' /\ LimitsKept' /\ CachesCalm'
        BY <1>0, <1>1, <2>1, <2>2 DEF EntryFresh, LimitsKept, CachesCalm
      <3>5. OneLoad'
        BY <1>0, <1>1, <1>4 DEF OneLoad, Hit
      <3> QED BY <3>2, <3>3, <3>4, <3>5 DEF CachesInv
    <2> QED BY <2>5, <2>6
  <1> QED BY <1>3, <1>4

LEMMA FetchInv ==
  ASSUME CachesInv, fetchFromExternalApi
  PROVE  CachesInv'
  <1>0. CachesTyped /\ LoadsTimely /\ EntryFresh /\ LimitsKept /\ OneLoad /\ CachesCalm
    BY DEF CachesInv
  <1>1. /\ load.at = "asked"
        /\ UNCHANGED <<readOf, current, ended, moment, entry, waits, misses, latest, loaded, notBefore, old, back, env, hammered, wrong>>
    BY DEF fetchFromExternalApi, sourceVars
  <1>2. PICK v \in {current} \cup (IF readOf = "fx" THEN {Bad} ELSE {}) :
            load' = [load EXCEPT !.at = "read", !.val = IF isReasonableExchangeRate(v) THEN v ELSE Null]
    BY DEF fetchFromExternalApi
  <1>3. /\ current \in Nat /\ current >= 1 /\ current \in Version /\ Bad \notin Nat /\ Null \notin Nat
        /\ latest \in Nat /\ latest <= current
        /\ load \in [at : {"off", "asked", "read"}, val : Version \cup {Null}, since : Nat]
    BY <1>0, CachesFacts DEF CachesTyped, Version
  <1>4. PICK w \in {current, Null} : w = (IF isReasonableExchangeRate(v) THEN v ELSE Null) /\ (w = Null => readOf = "fx")
    BY <1>3 DEF isReasonableExchangeRate
  <1>5. load' = [load EXCEPT !.at = "read", !.val = w]
    BY <1>2, <1>4, Zenon
  <1>6. /\ load' \in [at : {"off", "asked", "read"}, val : Version \cup {Null}, since : Nat]
        /\ load'.at = "read" /\ load'.val = w /\ load'.since = load.since
    BY <1>3, <1>5
  <1>7. CachesTyped'
    BY <1>0, <1>1, <1>6 DEF CachesTyped, Version
  <1>8. LoadsTimely'
    <2>1. Waiting' = Waiting
      BY <1>1 DEF Waiting, NotWaiting
    <2>2. w # Null => w = current /\ ~(w < current)
      BY <1>3
    <2>3. load'.val # Null =>
           /\ load'.val >= 1 /\ load'.val <= current /\ load'.val >= latest
           /\ load'.val < current => load'.since <= ended[load'.val]
      BY <1>3, <1>6, <2>2
    <2>4. readOf = "limits" => load'.val # Null
      BY <1>4, <1>6
    <2> QED BY <1>0, <1>1, <1>6, <2>1, <2>3, <2>4 DEF LoadsTimely
  <1>9. EntryFresh' /\ LimitsKept' /\ CachesCalm'
    BY <1>0, <1>1 DEF EntryFresh, LimitsKept, CachesCalm
  <1>10. OneLoad'
    BY <1>0, <1>1 DEF OneLoad, Hit
  <1> QED BY <1>7, <1>8, <1>9, <1>10 DEF CachesInv

(* The limits live from when the last of the waiting asked. *)
LEMMA LastAskedTyped ==
  ASSUME CachesInv, load.at # "off"
  PROVE  LastAsked \in Nat \ {0} /\ load.since <= LastAsked /\ LastAsked <= moment
  <1> DEFINE Asked == {waits[r] : r \in Waiting}
  <1>0. CachesTyped /\ LoadsTimely
    BY DEF CachesInv
  <1>1. /\ load.since \in Nat /\ load.since >= 1 /\ moment \in Nat /\ waits \in [Reader -> Nat \cup {Null}]
        /\ Waiting # {} /\ \A r \in Waiting : r \in Reader /\ waits[r] >= load.since /\ waits[r] <= moment /\ waits[r] # Null
    BY <1>0 DEF CachesTyped, LoadsTimely, Waiting, NotWaiting
  <1>2. LastAsked = Max(Asked)
    BY DEF LastAsked, Waiting
  <1>3. Asked \subseteq 0..moment /\ Asked # {} /\ \A x \in Asked : x \in Nat /\ x >= load.since /\ x <= moment
    BY <1>1
  <1> HIDE DEF Asked
  <1>4. Max(Asked) \in Asked
    BY <1>1, <1>3, MaxOfBounded
  <1>5. Max(Asked) \in Nat /\ Max(Asked) >= load.since /\ Max(Asked) <= moment
    BY <1>3, <1>4
  <1> QED BY <1>1, <1>2, <1>5

LEMMA LoadEndsInv ==
  ASSUME CachesInv, NEW v \in Version \cup {Null}, NEW e \in [val : Version \cup {Null}, until : Nat], NEW next \in Nat,
         LoadEnds(v, e, next), GoodNow(v), misses' \in Nat, loaded' \in BOOLEAN, next <= e.until,
         EntryFresh', LimitsKept'
  PROVE  CachesInv'
  <1>0. CachesTyped /\ CachesCalm
    BY DEF CachesInv
  <1>1. /\ entry' = e /\ notBefore' = next /\ waits' = [r \in Reader |-> Null]
        /\ load' = [at |-> "off", val |-> 0, since |-> 0] /\ UNCHANGED <<readOf, current, ended, moment, hammered>>
        /\ Given({r \in Reader : ~NotWaiting(r)}, v)
    BY DEF LoadEnds, NoLoad, sourceVars
  <1>2. /\ ~old' /\ ~back' /\ ~env' /\ ~wrong' /\ (v = Null => latest' = latest) /\ (v # Null => latest' = v)
    BY <1>1, GivenGood
  <1>3. latest' \in Nat /\ latest' <= current
    BY <1>0, <1>2, CachesFacts DEF CachesTyped, GoodNow, Version
  <1>4. /\ load' \in [at : {"off", "asked", "read"}, val : Version \cup {Null}, since : Nat] /\ load'.at = "off"
    <2>1. 0 \in Version
      BY CachesFacts DEF Version
    <2> QED BY <1>1, <2>1
  <1>5. Waiting' = {} /\ waits' \in [Reader -> Nat \cup {Null}]
    BY <1>1 DEF Waiting, NotWaiting
  <1>6. CachesTyped'
    BY <1>0, <1>1, <1>3, <1>4, <1>5 DEF CachesTyped, Version
  <1>7. LoadsTimely' /\ OneLoad'
    BY <1>1, <1>4, <1>5 DEF LoadsTimely, OneLoad
  <1>8. CachesCalm'
    BY <1>0, <1>1, <1>2, Zenon DEF CachesCalm
  <1> QED BY <1>6, <1>7, <1>8 DEF CachesInv

LEMMA LoadDoneInv ==
  ASSUME CachesInv, LoadDone
  PROVE  CachesInv'
  <1> DEFINE life_ == IF load.val = Null THEN NegTtl ELSE Ttl
             until == IF readOf = "limits" THEN LastAsked + Ttl ELSE moment + life_
             e == [val |-> load.val, until |-> until]
  <1>0. CachesTyped /\ LoadsTimely /\ EntryFresh /\ LimitsKept
    BY DEF CachesInv
  <1>1. load.at = "read" /\ misses' = misses /\ loaded' = TRUE /\ LoadEnds(load.val, e, until)
    BY DEF LoadDone
  <1>2. /\ Ttl \in Nat /\ NegTtl \in Nat /\ Slow \in Nat /\ moment \in Nat \ {0} /\ current \in Nat /\ latest \in Nat
        /\ load.since \in Nat /\ load.val \in Version \cup {Null} /\ misses \in Nat /\ ended \in [Version -> Nat]
        /\ Null \notin Nat /\ Version \subseteq Nat
    BY <1>0, CachesFacts DEF CachesTyped, Version
  <1>3. LastAsked \in Nat \ {0} /\ LastAsked <= moment
    BY <1>1, LastAskedTyped
  <1>4. /\ until \in Nat /\ (readOf = "limits" => until > 0)
        /\ (load.val # Null => until <= moment + Ttl)
    <2>1. life_ \in Nat /\ (load.val # Null => life_ = Ttl)
      BY <1>2
    <2> HIDE DEF life_
    <2> QED BY <1>2, <1>3, <2>1
  <1>5. e \in [val : Version \cup {Null}, until : Nat] /\ e.val = load.val /\ e.until = until
    BY <1>2, <1>4
  <1> HIDE DEF until, e
  <1>6. ASSUME load.val # Null
        PROVE  /\ load.val \in Nat /\ load.val \in Version /\ load.val >= 1 /\ load.val <= current /\ load.val >= latest
               /\ (load.val < current => moment <= ended[load.val] + Slow)
    <2>1. /\ load.val >= 1 /\ load.val <= current /\ load.val >= latest
          /\ (load.val < current => load.since <= ended[load.val])
          /\ moment <= load.since + Slow
      BY <1>0, <1>1, <1>6 DEF LoadsTimely
    <2>2. load.val \in Version /\ load.val \in Nat
      BY <1>2, <1>6
    <2>3. ended[load.val] \in Nat
      BY <1>2, <2>2
    <2> QED BY <1>2, <2>1, <2>2, <2>3
  <1>7. GoodNow(load.val)
    <2> SUFFICES ASSUME load.val # Null PROVE GoodNow(load.val)
      BY DEF GoodNow
    <2>1. load.val \in Nat /\ load.val # 0 /\ ended[load.val] \in Nat
      BY <1>2, <1>6
    <2>2. load.val < current => moment <= ended[load.val] + Ttl + Slow
      BY <1>2, <1>6, <2>1
    <2> QED BY <1>6, <2>1, <2>2 DEF GoodNow
  <1>8. entry' = e /\ UNCHANGED <<readOf, current, ended, moment>>
    BY <1>1 DEF LoadEnds, sourceVars
  <1>9. load.val # Null => latest' = load.val
    <2>1. Given({r \in Reader : ~NotWaiting(r)}, load.val)
      BY <1>1 DEF LoadEnds
    <2>2. misses' \in Nat
      BY <1>1, <1>2
    <2> QED BY <1>7, <2>1, <2>2, GivenGood
  <1>10. EntryFresh'
    <2> SUFFICES ASSUME load.val # Null
                 PROVE  /\ load.val <= current /\ until <= moment + Ttl
                        /\ (until > 0 => load.val >= latest')
                        /\ (load.val < current => until <= ended[load.val] + Ttl + Slow)
      BY <1>5, <1>8 DEF EntryFresh
    <2>1. load.val >= latest'
      BY <1>6, <1>9
    <2>2. load.val < current => until <= ended[load.val] + Ttl + Slow
      <3>1. ended[load.val] \in Nat
        BY <1>2, <1>6
      <3> QED BY <1>2, <1>4, <1>6, <3>1
    <2> QED BY <1>4, <1>6, <2>1, <2>2
  <1>11. LimitsKept'
    <2>1. readOf = "limits" => load.val # Null /\ load.val >= 1
      BY <1>0, <1>1, <1>6 DEF LoadsTimely
    <2>2. readOf = "limits" => until # 0
      BY <1>4
    <2> QED BY <1>5, <1>8, <2>1, <2>2 DEF LimitsKept
  <1>12. misses' \in Nat /\ loaded' \in BOOLEAN /\ until <= e.until
    BY <1>1, <1>2, <1>4, <1>5
  <1> QED BY ONLY CachesInv, <1>1, <1>2, <1>4, <1>5, <1>7, <1>10, <1>11, <1>12, LoadEndsInv

LEMMA LoadFailsInv ==
  ASSUME CachesInv, LoadFails
  PROVE  CachesInv'
  <1>0. CachesTyped /\ LoadsTimely /\ EntryFresh /\ LimitsKept
    BY DEF CachesInv
  <1>1. load.at # "off" /\ misses' = misses + 1 /\ loaded' = loaded
    BY DEF LoadFails
  <1>2. /\ Ttl \in Nat /\ NegTtl \in Nat /\ Slow \in Nat /\ moment \in Nat \ {0} /\ current \in Nat /\ latest \in Nat
        /\ entry \in [val : Version \cup {Null}, until : Nat] /\ entry.val \in Version \cup {Null} /\ entry.until \in Nat
        /\ misses \in Nat /\ misses' \in Nat /\ misses' # 0 /\ loaded' \in BOOLEAN
        /\ Null \notin Nat /\ Version \subseteq Nat /\ 0 \in Version
    BY <1>0, <1>1, CachesFacts DEF CachesTyped, Version
  <1>3. LastAsked \in Nat \ {0} /\ LastAsked <= moment
    BY <1>1, LastAskedTyped
  <1>4. ASSUME NEW v, NEW e, NEW next, LoadEnds(v, e, next), GoodNow(v)
        PROVE  /\ entry' = e /\ UNCHANGED <<readOf, current, ended, moment>>
               /\ v = Null => latest' = latest
               /\ v # Null => latest' = v
    <2>1. /\ Given({r \in Reader : ~NotWaiting(r)}, v) /\ entry' = e
          /\ UNCHANGED <<readOf, current, ended, moment>>
      BY <1>4 DEF LoadEnds, sourceVars
    <2> QED BY <1>2, <1>4, <2>1, GivenGood
  <1>5. CASE /\ readOf = "limits"
             /\ LoadEnds(cachedSnapshot, [val |-> cachedSnapshot, until |-> LastAsked + Ttl], LastAsked + Ttl)
    <2> DEFINE v == cachedSnapshot
               until == LastAsked + Ttl
               e == [val |-> v, until |-> until]
    <2>1. /\ v = (IF entry.until > 0 THEN entry.val ELSE 0)
          /\ entry.val # Null /\ (entry.until = 0 => latest = 0 /\ ~loaded) /\ (loaded => entry.val >= 1)
          /\ entry.val <= current /\ (entry.until > 0 => entry.val >= latest)
      BY <1>0, <1>5 DEF cachedSnapshot, EntryFresh, LimitsKept
    <2>2. v \in Version /\ v \in Nat /\ v <= current /\ v >= latest /\ (loaded => v >= 1)
      <3>1. CASE entry.until > 0
        BY <1>2, <2>1, <3>1
      <3>2. CASE ~(entry.until > 0)
        <4>1. entry.until = 0 /\ v = 0
          BY <1>2, <2>1, <3>2
        <4> QED BY <1>2, <2>1, <4>1
      <3> QED BY <3>1, <3>2
    <2>3. until \in Nat /\ until # 0 /\ until <= moment + Ttl
      BY <1>2, <1>3
    <2> HIDE DEF v, until
    <2>4. e \in [val : Version \cup {Null}, until : Nat] /\ e.val = v /\ e.until = until
      BY <2>2, <2>3
    <2>5. LoadEnds(v, e, until)
      BY <1>5 DEF v, until
    <2> HIDE DEF e
    <2>6. GoodNow(v)
      <3>1. v = 0 => ~loaded
        BY <2>2
      <3> QED BY <1>2, <1>5, <2>2, <3>1 DEF GoodNow
    <2>7. v # Null /\ entry' = e /\ UNCHANGED <<readOf, current, ended, moment>> /\ latest' = v
      BY <1>2, <1>4, <2>2, <2>5, <2>6
    <2>8. EntryFresh'
      BY <1>2, <1>5, <2>2, <2>3, <2>4, <2>7 DEF EntryFresh
    <2>9. LimitsKept'
      BY <1>1, <2>2, <2>3, <2>4, <2>7 DEF LimitsKept
    <2>10. v \in Version \cup {Null} /\ until <= e.until /\ misses' \in Nat /\ loaded' \in BOOLEAN
      BY <1>2, <2>2, <2>3, <2>4
    <2> QED BY ONLY CachesInv, <2>3, <2>4, <2>5, <2>6, <2>8, <2>9, <2>10, LoadEndsInv
  <1>6. CASE /\ readOf \in {"acbu", "fx"} /\ LoadEnds(Null, entry, 0)
    <2>1. GoodNow(Null)
      BY DEF GoodNow
    <2>2. entry' = entry /\ UNCHANGED <<readOf, current, ended, moment>> /\ latest' = latest
      BY <1>4, <1>6, <2>1
    <2>3. EntryFresh' /\ LimitsKept'
      BY <1>0, <1>6, <2>2 DEF EntryFresh, LimitsKept
    <2>4. Null \in Version \cup {Null} /\ 0 \in Nat /\ 0 <= entry.until /\ misses' \in Nat /\ loaded' \in BOOLEAN
          /\ entry \in [val : Version \cup {Null}, until : Nat] /\ LoadEnds(Null, entry, 0)
      BY <1>2, <1>6
    <2> QED BY ONLY CachesInv, <2>1, <2>3, <2>4, LoadEndsInv
  <1>7. CASE readOf = "fx" /\ LoadEnds(Null, NegativeEntry, moment + NegTtl)
    <2>1. GoodNow(Null)
      BY DEF GoodNow
    <2>2. /\ NegativeEntry \in [val : Version \cup {Null}, until : Nat]
          /\ NegativeEntry.val = Null /\ NegativeEntry.until = moment + NegTtl /\ moment + NegTtl \in Nat
      BY <1>2 DEF NegativeEntry
    <2>3. entry' = NegativeEntry /\ UNCHANGED <<readOf, current, ended, moment>>
      BY <1>4, <1>7, <2>1
    <2>4. EntryFresh' /\ LimitsKept'
      <3>1. entry'.val = Null
        BY <2>2, <2>3
      <3> QED BY <1>7, <2>3, <3>1 DEF EntryFresh, LimitsKept
    <2>5. Null \in Version \cup {Null} /\ moment + NegTtl <= NegativeEntry.until /\ misses' \in Nat /\ loaded' \in BOOLEAN
      BY <1>2, <2>2
    <2>6. LoadEnds(Null, NegativeEntry, moment + NegTtl)
      BY <1>7
    <2> QED BY ONLY CachesInv, <2>1, <2>2, <2>4, <2>5, <2>6, LoadEndsInv
  <1> QED BY <1>5, <1>6, <1>7 DEF LoadFails

LEMMA CachesNextInv == CachesInv /\ [ReadCachesNext]_cacheVars => CachesInv'
  <1> SUFFICES ASSUME CachesInv, [ReadCachesNext]_cacheVars PROVE CachesInv'
    OBVIOUS
  <1>1. CASE UNCHANGED cacheVars
    <2>1. UNCHANGED <<readOf, moment, current, ended, entry, load, waits, misses, latest, loaded, notBefore,
                      old, back, env, hammered, wrong>>
      BY <1>1 DEF cacheVars
    <2>2. Waiting' = Waiting
      BY <2>1 DEF Waiting, NotWaiting
    <2> QED BY <2>1, <2>2 DEF CachesInv, CachesTyped, LoadsTimely, EntryFresh, LimitsKept, OneLoad, Hit, CachesCalm, Version
  <1> QED BY <1>1, SourceChangesInv, TimeGoesOnInv, GetCachedInv, FetchInv, LoadDoneInv, LoadFailsInv DEF ReadCachesNext

LEMMA CachesServe == CachesInv => ServedFresh /\ OutageContained
  <1> SUFFICES ASSUME CachesInv PROVE ServedFresh /\ OutageContained
    OBVIOUS
  <1>0. CachesTyped /\ LoadsTimely /\ CachesCalm
    BY DEF CachesInv
  <1>1. ReadCachesTypeOK
    <2>1. moment \in 1..MaxMoment /\ current \in Version /\ entry.val \in Version \cup {Null} /\ load.val \in Version \cup {Null}
      BY <1>0, CachesFacts DEF CachesTyped, Version
    <2> QED BY <1>0, <2>1 DEF ReadCachesTypeOK, LoadsTimely, Waiting
  <1> QED BY <1>0, <1>1 DEF ServedFresh, OutageContained, CachesCalm

-----------------------------------------------------------------------------
(* Treasury: what a government is told. *)

LEMMA TreasuryFacts ==
  /\ Life \in Nat /\ MaxLife \in Nat /\ Slowest \in Nat /\ Take \in Nat
  /\ IsFiniteSet(LedgerRow) /\ IsFiniteSet(Reserve) /\ Coins \subseteq Nat /\ Preferred \in Seq(Coins)
  /\ Null \notin Official /\ Null \notin LedgerRow /\ Null \notin Reserve /\ Null \notin Coins
  /\ \A row \in LedgerRow : row.currency \in Coins \cup {Null}
  /\ \A c \in Reserve : /\ c.coin \in Coins /\ c.segment \in {"transactions", "investmentSavings"}
                        /\ c = [coin |-> c.coin, segment |-> c.segment]
  <1>1. /\ Life \in Nat /\ MaxLife \in Nat /\ Slowest \in Nat /\ Take \in Nat
        /\ IsFiniteSet(LedgerRow) /\ IsFiniteSet(Reserve) /\ Coins \subseteq Nat /\ Preferred \in Seq(Coins)
        /\ Null \notin Official /\ Null \notin LedgerRow /\ Null \notin Reserve
        /\ Null \notin Nat
    BY TreasuryAssumption, ReadCachesAssumption
  <1>2. \A row \in LedgerRow : row.currency \in Coins \cup {Null}
    BY TreasuryAssumption
  <1>3. \A c \in Reserve : /\ c.coin \in Coins /\ c.segment \in {"transactions", "investmentSavings"}
                           /\ c = [coin |-> c.coin, segment |-> c.segment]
    BY TreasuryAssumption
  <1> QED BY <1>1, <1>2, <1>3

(* No two currencies take the same turn. *)
LEMMA TurnsDiffer ==
  ASSUME NEW p \in Seq(Coins), NEW c \in Coins, NEW d \in Coins
  PROVE  Turn(p, c) \in Nat /\ (Turn(p, c) = Turn(p, d) => c = d)
  <1> DEFINE Places(e) == {i \in DOMAIN p : p[i] = e}
  <1>1. Len(p) \in Nat /\ DOMAIN p = 1..Len(p) /\ \A e \in Coins : e \in Nat
    BY TreasuryFacts
  <1>2. ASSUME NEW e \in Coins
        PROVE  \/ Places(e) # {} /\ Turn(p, e) \in 1..Len(p) /\ p[Turn(p, e)] = e
               \/ Places(e) = {} /\ Turn(p, e) = Len(p) + 1 + e
    <2>1. CASE Places(e) # {}
      <3>1. Places(e) \subseteq Nat /\ \A i \in Places(e) : i \in 1..Len(p) /\ p[i] = e
        BY <1>1
      <3>2. Turn(p, e) = Min(Places(e))
        BY <2>1 DEF Turn
      <3> HIDE DEF Places
      <3>3. \E i \in Places(e) : \A k \in Places(e) : i <= k
        BY <2>1, <3>1, LeastNumber
      <3>4. Min(Places(e)) \in Places(e)
        BY <3>3, Zenon DEF Min
      <3> QED BY <2>1, <3>1, <3>2, <3>4
    <2>2. CASE Places(e) = {}
      BY <2>2, Zenon DEF Turn
    <2> QED BY <2>1, <2>2
  <1> HIDE DEF Places
  <1>3. /\ (Turn(p, c) \in 1..Len(p) /\ p[Turn(p, c)] = c) \/ Turn(p, c) = Len(p) + 1 + c
        /\ (Turn(p, d) \in 1..Len(p) /\ p[Turn(p, d)] = d) \/ Turn(p, d) = Len(p) + 1 + d
        /\ c \in Nat /\ d \in Nat
    BY <1>1, <1>2
  <1> QED BY <1>1, <1>3

(* Every currency is in the list, once. *)
LEMMA OrderedOnce ==
  ASSUME NEW p \in Seq(Coins), NEW S \in SUBSET Coins, IsFiniteSet(S), NEW o, o = getOrderedCurrencies(p, S)
  PROVE  /\ Cardinality(S) \in Nat /\ DOMAIN o = 1..Cardinality(S)
         /\ \A i, j \in 1..Cardinality(S) : o[i] = o[j] => i = j
         /\ {o[i] : i \in 1..Cardinality(S)} = S
  <1> DEFINE R == {x \in S \X S : Turn(p, x[1]) < Turn(p, x[2])}
             n == Cardinality(S)
             Places(c) == Cardinality({d \in S : Turn(p, d) < Turn(p, c)})
  <1>1. \A c, d \in S : Turn(p, c) \in Nat /\ (Turn(p, c) = Turn(p, d) => c = d)
    BY TurnsDiffer
  <1>2. \A c, d \in S : <<c, d>> \in R <=> Turn(p, c) < Turn(p, d)
    OBVIOUS
  <1> HIDE DEF R
  <1>3. Orders(R, S)
    BY <1>1, <1>2 DEF Orders
  <1>4. \A c \in S : Rank(R, S, c) = Places(c)
    BY <1>2 DEF Rank
  <1>5. n \in Nat
    BY FS_CardinalityType
  <1>6. \A c \in S : Places(c) \in 0..n - 1
    BY <1>3, <1>4, RankBelow
  <1>7. \A c, d \in S : Places(c) = Places(d) => c = d
    <2> SUFFICES ASSUME NEW c \in S, NEW d \in S, c # d PROVE Places(c) # Places(d)
      OBVIOUS
    <2>1. <<c, d>> \in R \/ <<d, c>> \in R
      BY <1>3 DEF Orders
    <2>2. Rank(R, S, c) < Rank(R, S, d) \/ Rank(R, S, d) < Rank(R, S, c)
      BY <1>3, <2>1, RankGrows
    <2>3. Rank(R, S, c) \in Nat /\ Rank(R, S, d) \in Nat
      BY RankTyped
    <2> HIDE DEF Places
    <2> QED BY <1>4, <2>2, <2>3
  <1>8. \A i \in 1..n : \E c \in S : Places(c) = i - 1
    <2> SUFFICES ASSUME NEW i \in 1..n PROVE \E c \in S : Places(c) = i - 1
      OBVIOUS
    <2> HIDE DEF Places
    <2>1. i \in 0..n /\ i - 1 \in 0..n
      BY <1>5
    <2>2. /\ Cardinality({c \in S : Rank(R, S, c) < i}) = i
          /\ Cardinality({c \in S : Rank(R, S, c) < i - 1}) = i - 1
      BY <1>3, <2>1, RanksCount
    <2>3. {c \in S : Rank(R, S, c) < i} # {c \in S : Rank(R, S, c) < i - 1}
      <3>1. i # i - 1
        OBVIOUS
      <3> QED BY ONLY <2>2, <3>1, Zenon
    <2>4. \E c \in S : Rank(R, S, c) < i /\ ~(Rank(R, S, c) < i - 1)
      <3>1. \A c \in S : Rank(R, S, c) \in Nat
        BY RankTyped
      <3>2. \A c \in S : Rank(R, S, c) < i - 1 => Rank(R, S, c) < i
        BY <3>1
      <3> QED BY <2>3, <3>2
    <2>5. PICK c \in S : Rank(R, S, c) < i /\ ~(Rank(R, S, c) < i - 1)
      BY <2>4
    <2>6. Rank(R, S, c) \in Nat
      BY RankTyped
    <2>7. Rank(R, S, c) = i - 1
      BY <2>5, <2>6
    <2> QED BY <1>4, <2>7
  <1>9. DOMAIN o = 1..n /\ \A i \in 1..n : o[i] = CHOOSE c \in S : Places(c) = i - 1
    BY DEF getOrderedCurrencies
  <1> HIDE DEF Places, n
  <1>10. \A i \in 1..n : o[i] \in S /\ Places(o[i]) = i - 1
    <2> SUFFICES ASSUME NEW i \in 1..n PROVE o[i] \in S /\ Places(o[i]) = i - 1
      OBVIOUS
    <2>1. \E c \in S : Places(c) = i - 1
      BY <1>8
    <2> QED BY <1>9, <2>1, Zenon
  <1>11. \A i, j \in 1..n : o[i] = o[j] => i = j
    <2> SUFFICES ASSUME NEW i \in 1..n, NEW j \in 1..n, o[i] = o[j] PROVE i = j
      OBVIOUS
    <2>1. i - 1 = j - 1
      BY <1>10
    <2> QED BY <2>1
  <1>12. \A c \in S : \E i \in 1..n : o[i] = c
    <2> SUFFICES ASSUME NEW c \in S PROVE \E i \in 1..n : o[i] = c
      OBVIOUS
    <2>1. PICK k \in 0..n - 1 : k = Places(c)
      BY <1>6
    <2>2. k + 1 \in 1..n /\ (k + 1) - 1 = k
      BY <1>5
    <2>3. o[k + 1] = c
      BY <1>7, <1>10, <2>1, <2>2
    <2> QED BY <2>2, <2>3
  <1>13. {o[i] : i \in 1..n} = S
    BY <1>10, <1>12
  <1> QED BY <1>5, <1>9, <1>11, <1>13 DEF n

(* A column of the table is added up by currency. *)
LEMMA ColumnTotal ==
  ASSUME NEW p \in Seq(Coins), NEW S \in SUBSET Coins, IsFiniteSet(S), NEW o, o = getOrderedCurrencies(p, S),
         NEW g, \A c \in S : g[c] \in Int, NEW u, DOMAIN u = DOMAIN o, \A i \in DOMAIN o : u[i] = g[o[i]]
  PROVE  SumFunction(u) = SumFunctionOnSet(g, S)
  <1>1. /\ Cardinality(S) \in Nat /\ DOMAIN o = 1..Cardinality(S)
        /\ \A i, j \in 1..Cardinality(S) : o[i] = o[j] => i = j
        /\ {o[i] : i \in 1..Cardinality(S)} = S
    BY OrderedOnce
  <1>2. PICK n \in Nat : n = Cardinality(S)
    BY <1>1
  <1>3. IsFiniteSet(1..n)
    <2>1. 1 \in Int /\ n \in Int
      OBVIOUS
    <2> QED BY ONLY <2>1, FS_Interval
  <1>4. /\ \A i \in 1..n : u[i] \in Int /\ g[o[i]] = u[i]
        /\ \A i, j \in 1..n : o[i] = o[j] => i = j
        /\ {o[i] : i \in 1..n} = S /\ DOMAIN u = 1..n
    <2>1. \A i \in 1..n : o[i] \in S
      BY <1>1, <1>2
    <2> QED BY <1>1, <1>2, <2>1
  <1>5. SumFunctionOnSet(g, {o[i] : i \in 1..n}) = SumFunctionOnSet(u, 1..n)
    <2>1. \A x \in 1..n : u[x] \in Int
      BY <1>4
    <2>2. \A x, y \in 1..n : o[x] = o[y] => x = y
      BY <1>4
    <2>3. \A x \in 1..n : g[o[x]] = u[x]
      BY <1>4
    <2>4. PICK N : N = 1..n
      OBVIOUS
    <2>5. IsFiniteSet(N) /\ (\A x \in N : u[x] \in Int) /\ (\A x, y \in N : o[x] = o[y] => x = y) /\ \A x \in N : g[o[x]] = u[x]
      BY ONLY <1>3, <2>1, <2>2, <2>3, <2>4
    <2>6. SumFunctionOnSet(g, {o[x] : x \in N}) = SumFunctionOnSet(u, N)
      BY ONLY <2>5, SumRenamed
    <2> QED BY <2>4, <2>6
  <1> QED BY <1>4, <1>5, SumIsOnDomain

(* The reserves of a currency are those of its segments. *)
LEMMA ReservesOfCoin ==
  ASSUME NEW reserves \in SUBSET Reserve, NEW c \in Coins
  PROVE  /\ Cardinality({x \in reserves : x.coin = c}) =
                Value(reserves, c, "transactions") + Value(reserves, c, "investmentSavings")
         /\ Value(reserves, c, "transactions") \in {0, 1} /\ Value(reserves, c, "investmentSavings") \in {0, 1}
  <1> DEFINE a == [coin |-> c, segment |-> "transactions"]
             b == [coin |-> c, segment |-> "investmentSavings"]
             G == {x \in reserves : x.coin = c}
  <1>1. \A x \in G : x = a \/ x = b
    <2> SUFFICES ASSUME NEW x \in G PROVE x = a \/ x = b
      OBVIOUS
    <2>1. x.coin = c /\ x.segment \in {"transactions", "investmentSavings"} /\ x = [coin |-> x.coin, segment |-> x.segment]
      BY TreasuryFacts
    <2>2. CASE x.segment = "transactions"
      BY <2>1, <2>2, Zenon
    <2>3. CASE x.segment = "investmentSavings"
      BY <2>1, <2>3, Zenon
    <2> QED BY <2>1, <2>2, <2>3
  <1>2. a.coin = c /\ b.coin = c /\ a.segment = "transactions" /\ b.segment = "investmentSavings"
    OBVIOUS
  <1>3. (a \in G <=> a \in reserves) /\ (b \in G <=> b \in reserves) /\ a # b
    BY <1>2
  <1>4. /\ Value(reserves, c, "transactions") = (IF a \in reserves THEN 1 ELSE 0)
        /\ Value(reserves, c, "investmentSavings") = (IF b \in reserves THEN 1 ELSE 0)
    BY DEF Value
  <1> HIDE DEF a, b, G
  <1>5. /\ IsFiniteSet({a}) /\ Cardinality({a}) = 1 /\ IsFiniteSet({b}) /\ Cardinality({b}) = 1
        /\ Cardinality({}) = 0
    BY FS_Singleton, FS_EmptySet
  <1>6. Cardinality({a} \cup {b}) = 2
    <2>1. b \notin {a}
      BY <1>3
    <2>2. Cardinality({a} \cup {b}) = IF b \in {a} THEN Cardinality({a}) ELSE Cardinality({a}) + 1
      BY ONLY <1>5, FS_AddElement
    <2> QED BY <1>5, <2>1, <2>2
  <1>7. Cardinality(G) = (IF a \in reserves THEN 1 ELSE 0) + (IF b \in reserves THEN 1 ELSE 0)
    <2>1. CASE a \in reserves /\ b \in reserves
      <3>1. G = {a} \cup {b}
        BY <1>1, <1>3, <2>1
      <3> QED BY <1>6, <2>1, <3>1
    <2>2. CASE a \in reserves /\ b \notin reserves
      <3>1. G = {a}
        BY <1>1, <1>3, <2>2
      <3> QED BY <1>5, <2>2, <3>1
    <2>3. CASE a \notin reserves /\ b \in reserves
      <3>1. G = {b}
        BY <1>1, <1>3, <2>3
      <3> QED BY <1>5, <2>3, <3>1
    <2>4. CASE a \notin reserves /\ b \notin reserves
      <3>1. G = {}
        BY <1>1, <1>3, <2>4
      <3> QED BY <1>5, <2>4, <3>1
    <2> QED BY <2>1, <2>2, <2>3, <2>4
  <1>8. Cardinality({x \in reserves : x.coin = c}) = Cardinality(G)
    BY DEF G
  <1> QED BY <1>4, <1>7, <1>8

LEMMA UniverseTyped ==
  ASSUME NEW rows \in SUBSET LedgerRow, NEW reserves \in SUBSET Reserve, NEW U, U = currencyUniverse(rows, reserves)
  PROVE  /\ U \in SUBSET Coins /\ IsFiniteSet(U) /\ IsFiniteSet(rows) /\ IsFiniteSet(reserves)
         /\ (\A row \in rows : row.currency \in U \cup {Null}) /\ (\A c \in reserves : c.coin \in U)
  <1>1. IsFiniteSet(rows) /\ IsFiniteSet(reserves)
    BY TreasuryFacts, FS_Subset
  <1>2. Preferred \in Seq(Coins) /\ DOMAIN Preferred = 1..Len(Preferred) /\ Len(Preferred) \in Nat
    BY TreasuryFacts
  <1>3. IsFiniteSet(1..Len(Preferred))
    <2>1. 1 \in Int /\ Len(Preferred) \in Int
      BY <1>2
    <2> QED BY ONLY <2>1, FS_Interval
  <1>4. IsFiniteSet({Preferred[i] : i \in DOMAIN Preferred})
    BY <1>2, <1>3, MappedFinite
  <1> DEFINE cur == [row \in rows |-> row.currency]
             coin == [c \in reserves |-> c.coin]
  <1>5. /\ {cur[row] : row \in rows} = {row.currency : row \in rows}
        /\ {coin[c] : c \in reserves} = {c.coin : c \in reserves}
    OBVIOUS
  <1> HIDE DEF cur, coin
  <1>6. IsFiniteSet({row.currency : row \in rows}) /\ IsFiniteSet({c.coin : c \in reserves})
    <2>1. IsFiniteSet({cur[row] : row \in rows}) /\ IsFiniteSet({coin[c] : c \in reserves})
      BY <1>1, MappedFinite
    <2> QED BY <1>5, <2>1
  <1>7. PICK A, B, C : /\ A = {Preferred[i] : i \in DOMAIN Preferred} /\ B = {row.currency : row \in rows}
                       /\ C = {c.coin : c \in reserves}
    OBVIOUS
  <1>8. U = (A \cup (B \ {Null})) \cup C
    BY <1>7, Zenon DEF currencyUniverse
  <1>9. IsFiniteSet(B \ {Null})
    BY <1>6, <1>7, FS_RemoveElement
  <1>10. IsFiniteSet(U)
    <2>1. IsFiniteSet(A) /\ IsFiniteSet(C)
      BY <1>4, <1>6, <1>7
    <2>2. IsFiniteSet(A \cup (B \ {Null}))
      BY ONLY <1>9, <2>1, FS_Union
    <2>3. IsFiniteSet((A \cup (B \ {Null})) \cup C)
      BY ONLY <2>1, <2>2, FS_Union
    <2> QED BY <1>8, <2>3
  <1>11. A \subseteq Coins
    BY <1>2, <1>7
  <1>12. B \subseteq Coins \cup {Null} /\ C \subseteq Coins /\ \A row \in rows : row.currency \in B
    BY <1>7, TreasuryFacts
  <1>13. \A c \in reserves : c.coin \in C
    BY <1>7
  <1> QED BY <1>1, <1>8, <1>10, <1>11, <1>12, <1>13

(* A response adds up, whatever was read. *)
LEMMA ResponseAddsUp ==
  ASSUME NEW rows \in SUBSET LedgerRow, NEW reserves \in SUBSET Reserve, NEW a, \A row \in rows : Concerns(row, a)
  PROVE  AddsUp(a, rows, reserves)
  <1> DEFINE U == currencyUniverse(rows, reserves)
             o == getOrderedCurrencies(Preferred, U)
             table == byCurrency(rows, reserves)
             tr == [c \in U |-> Value(reserves, c, "transactions")]
             inv == [c \in U |-> Value(reserves, c, "investmentSavings")]
             both == [c \in U |-> tr[c] + inv[c]]
             net == [c \in U |-> Net({row \in rows : row.currency = c})]
             sg == [row \in rows |-> Signed(row)]
  <1>1. /\ U \in SUBSET Coins /\ IsFiniteSet(U) /\ IsFiniteSet(rows) /\ IsFiniteSet(reserves)
        /\ (\A row \in rows : row.currency \in U \cup {Null}) /\ (\A c \in reserves : c.coin \in U)
    BY UniverseTyped
  <1>2. Preferred \in Seq(Coins) /\ Null \notin Coins
    BY TreasuryFacts
  <1> DEFINE uTr == [i \in DOMAIN table |-> table[i].value["transactions"]]
             uInv == [i \in DOMAIN table |-> table[i].value["investmentSavings"]]
             uBoth == [i \in DOMAIN table |-> table[i].value["transactions"] + table[i].value["investmentSavings"]]
             uNet == [i \in DOMAIN table |-> table[i].netAcbu]
  <1>3. DOMAIN table = DOMAIN o /\ \A i \in DOMAIN o : /\ table[i].netAcbu = Net({row \in rows : row.currency = o[i]})
                                                       /\ table[i].value["transactions"] = Value(reserves, o[i], "transactions")
                                                       /\ table[i].value["investmentSavings"] = Value(reserves, o[i], "investmentSavings")
    BY DEF byCurrency, Segment
  <1>4. \A i \in DOMAIN o : o[i] \in U
    <2>1. DOMAIN o = 1..Cardinality(U) /\ {o[i] : i \in 1..Cardinality(U)} = U
      <3> HIDE DEF U
      <3>1. o = getOrderedCurrencies(Preferred, U)
        OBVIOUS
      <3> HIDE DEF o
      <3> QED BY <1>1, <1>2, <3>1, OrderedOnce
    <2> HIDE DEF U, o
    <2> QED BY <2>1
  <1>5. \A c \in U : /\ Cardinality({x \in reserves : x.coin = c}) = tr[c] + inv[c]
                     /\ tr[c] \in {0, 1} /\ inv[c] \in {0, 1}
                     /\ both[c] = tr[c] + inv[c] /\ both[c] = 1 * tr[c] + inv[c] /\ both[c] \in Int
    <2> SUFFICES ASSUME NEW c \in U
                 PROVE  /\ Cardinality({x \in reserves : x.coin = c}) = tr[c] + inv[c]
                        /\ tr[c] \in {0, 1} /\ inv[c] \in {0, 1}
                        /\ both[c] = tr[c] + inv[c] /\ both[c] = 1 * tr[c] + inv[c] /\ both[c] \in Int
      OBVIOUS
    <2>1. /\ Cardinality({x \in reserves : x.coin = c}) =
                Value(reserves, c, "transactions") + Value(reserves, c, "investmentSavings")
          /\ Value(reserves, c, "transactions") \in {0, 1} /\ Value(reserves, c, "investmentSavings") \in {0, 1}
      <3>1. c \in Coins
        BY <1>1
      <3> QED BY <3>1, ReservesOfCoin
    <2>2. tr[c] = Value(reserves, c, "transactions") /\ inv[c] = Value(reserves, c, "investmentSavings") /\ both[c] = tr[c] + inv[c]
      OBVIOUS
    <2> HIDE DEF tr, inv, both, U
    <2> QED BY <2>1, <2>2
  <1>6. /\ \A row \in rows : sg[row] \in Int
        /\ \A part \in SUBSET rows : Net(part) = SumFunctionOnSet(sg, part) /\ Net(part) \in Int
    <2>1. \A row \in rows : sg[row] \in Int /\ sg[row] = Signed(row)
      BY DEF Signed
    <2>2. ASSUME NEW part \in SUBSET rows PROVE Net(part) = SumFunctionOnSet(sg, part) /\ Net(part) \in Int
      <3> DEFINE own == [row \in part |-> Signed(row)]
      <3>1. Net(part) = SumFunction(own) /\ DOMAIN own = part /\ \A row \in part : own[row] = sg[row]
        BY DEF Net
      <3> HIDE DEF own, sg
      <3>2. IsFiniteSet(part)
        BY <1>1, FS_Subset
      <3>3. \A row \in part : own[row] \in Int /\ own[row] = sg[row]
        BY <2>1, <3>1
      <3>4. SumFunctionOnSet(own, part) = SumFunctionOnSet(sg, part) /\ SumFunctionOnSet(own, part) \in Int
        BY ONLY <3>2, <3>3, SumEqual, SumTyped
      <3> QED BY <3>1, <3>4, SumIsOnDomain
    <2> QED BY <2>1, <2>2
  <1>7. \A c \in U : net[c] = Net({row \in rows : row.currency = c}) /\ net[c] = SumFunctionOnSet(sg, {row \in rows : row.currency = c}) /\ net[c] \in Int
    <2> SUFFICES ASSUME NEW c \in U
                 PROVE  /\ net[c] = Net({row \in rows : row.currency = c}) /\ net[c] = SumFunctionOnSet(sg, {row \in rows : row.currency = c})
                        /\ net[c] \in Int
      OBVIOUS
    <2>1. net[c] = Net({row \in rows : row.currency = c})
      OBVIOUS
    <2>2. {row \in rows : row.currency = c} \in SUBSET rows
      OBVIOUS
    <2> HIDE DEF net, sg, U
    <2> QED BY <1>6, <2>1, <2>2
  <1>8. /\ DOMAIN uTr = DOMAIN o /\ DOMAIN uInv = DOMAIN o /\ DOMAIN uBoth = DOMAIN o /\ DOMAIN uNet = DOMAIN o
        /\ \A i \in DOMAIN o : uTr[i] = tr[o[i]] /\ uInv[i] = inv[o[i]] /\ uBoth[i] = both[o[i]] /\ uNet[i] = net[o[i]]
    <2>1. DOMAIN uTr = DOMAIN o /\ DOMAIN uInv = DOMAIN o /\ DOMAIN uBoth = DOMAIN o /\ DOMAIN uNet = DOMAIN o
      <3> HIDE DEF o, table
      <3> QED BY <1>3
    <2>2. ASSUME NEW i \in DOMAIN o PROVE uTr[i] = tr[o[i]] /\ uInv[i] = inv[o[i]] /\ uBoth[i] = both[o[i]] /\ uNet[i] = net[o[i]]
      <3>1. o[i] \in U /\ i \in DOMAIN table
        BY <1>3, <1>4
      <3>2. /\ table[i].netAcbu = Net({row \in rows : row.currency = o[i]})
            /\ table[i].value["transactions"] = Value(reserves, o[i], "transactions")
            /\ table[i].value["investmentSavings"] = Value(reserves, o[i], "investmentSavings")
        BY <1>3
      <3> HIDE DEF o, table, U
      <3> QED BY <3>1, <3>2
    <2> QED BY <2>1, <2>2
  <1>9. o = getOrderedCurrencies(Preferred, U)
    OBVIOUS
  <1>10. AddsUp(a, rows, reserves) <=>
            /\ SumFunction(uBoth) = Cardinality(reserves)
            /\ SumFunction(uBoth) = SumFunction(uTr) + SumFunction(uInv)
            /\ Net(rows) = SumFunction(uNet) + Net({row \in rows : row.currency = Null})
    <2>1. /\ response(rows, reserves).totalReserveExposureUsd = SumFunction(uBoth)
          /\ response(rows, reserves).segments["transactions"] = SumFunction(uTr)
          /\ response(rows, reserves).segments["investmentSavings"] = SumFunction(uInv)
          /\ response(rows, reserves).totalBalanceAcbu = Net(rows)
          /\ response(rows, reserves).byCurrency = table
      BY DEF response, Segment
    <2>2. SumFunction([i \in DOMAIN response(rows, reserves).byCurrency |-> response(rows, reserves).byCurrency[i].netAcbu]) = SumFunction(uNet)
      BY <2>1, Zenon
    <2> HIDE DEF uBoth, uTr, uInv, uNet, table
    <2> QED BY <2>1, <2>2, Zenon DEF AddsUp
  <1> HIDE DEF U, o, table, tr, inv, both, net, uTr, uInv, uBoth, uNet, sg
  <1>11. /\ SumFunction(uTr) = SumFunctionOnSet(tr, U) /\ SumFunction(uInv) = SumFunctionOnSet(inv, U)
         /\ SumFunction(uBoth) = SumFunctionOnSet(both, U) /\ SumFunction(uNet) = SumFunctionOnSet(net, U)
    <2>1. \A c \in U : tr[c] \in Int /\ inv[c] \in Int /\ both[c] \in Int /\ net[c] \in Int
      <3>1. \A c \in U : tr[c] \in {0, 1} /\ inv[c] \in {0, 1} /\ both[c] \in Int
        BY ONLY <1>5
      <3>2. \A c \in U : net[c] \in Int
        BY ONLY <1>7
      <3> QED BY ONLY <3>1, <3>2
    <2>2. SumFunction(uTr) = SumFunctionOnSet(tr, U)
      BY <1>1, <1>2, <1>8, <1>9, <2>1, ColumnTotal
    <2>3. SumFunction(uInv) = SumFunctionOnSet(inv, U)
      BY <1>1, <1>2, <1>8, <1>9, <2>1, ColumnTotal
    <2>4. SumFunction(uBoth) = SumFunctionOnSet(both, U)
      BY <1>1, <1>2, <1>8, <1>9, <2>1, ColumnTotal
    <2>5. SumFunction(uNet) = SumFunctionOnSet(net, U)
      BY <1>1, <1>2, <1>8, <1>9, <2>1, ColumnTotal
    <2> QED BY <2>2, <2>3, <2>4, <2>5
  <1>12. /\ SumFunctionOnSet(both, U) = SumFunctionOnSet(tr, U) + SumFunctionOnSet(inv, U)
         /\ SumFunctionOnSet(tr, U) \in Int /\ SumFunctionOnSet(inv, U) \in Int
    <2>1. \A c \in U : tr[c] \in Int /\ inv[c] \in Int /\ both[c] = 1 * tr[c] + inv[c]
      <3>1. \A c \in U : tr[c] \in {0, 1} /\ inv[c] \in {0, 1} /\ both[c] = 1 * tr[c] + inv[c]
        BY ONLY <1>5
      <3> QED BY ONLY <3>1
    <2>2. SumFunctionOnSet(both, U) = 1 * SumFunctionOnSet(tr, U) + SumFunctionOnSet(inv, U)
      <3>1. PICK k \in Int : k = 1
        OBVIOUS
      <3>2. IsFiniteSet(U) /\ k \in Int /\ \A x \in U : tr[x] \in Int /\ inv[x] \in Int /\ both[x] = k * tr[x] + inv[x]
        BY ONLY <1>1, <2>1, <3>1
      <3>3. SumFunctionOnSet(both, U) = k * SumFunctionOnSet(tr, U) + SumFunctionOnSet(inv, U)
        BY ONLY <3>2, SumLinear
      <3> QED BY ONLY <3>1, <3>3
    <2>3. SumFunctionOnSet(tr, U) \in Int /\ SumFunctionOnSet(inv, U) \in Int
      BY <1>1, <2>1, SumTyped
    <2> QED BY <2>2, <2>3
  <1>13. SumFunctionOnSet(both, U) = Cardinality(reserves)
    <2> DEFINE one == [c \in reserves |-> 1]
               coin == [c \in reserves |-> c.coin]
    <2>1. \A c \in reserves : one[c] = 1 /\ one[c] \in Int /\ coin[c] = c.coin /\ coin[c] \in U
      BY <1>1
    <2> HIDE DEF one, coin
    <2>2. \A part \in SUBSET reserves : SumFunctionOnSet(one, part) = Cardinality(part)
      <3> TAKE part \in SUBSET reserves
      <3>1. IsFiniteSet(part) /\ part \in SUBSET part /\ \A x \in part : one[x] = IF x \in part THEN 1 ELSE 0
        BY <1>1, <2>1, FS_Subset
      <3> QED BY ONLY <3>1, SumCounts
    <2>3. \A c \in U : both[c] = SumFunctionOnSet(one, {x \in reserves : coin[x] = c})
      <3> TAKE c \in U
      <3>1. {x \in reserves : coin[x] = c} = {x \in reserves : x.coin = c} /\ {x \in reserves : x.coin = c} \in SUBSET reserves
        BY <2>1
      <3> QED BY <1>5, <2>2, <3>1
    <2>4. SumFunctionOnSet(both, U) = SumFunctionOnSet(one, reserves)
      <3>1. /\ IsFiniteSet(reserves) /\ (\A x \in reserves : one[x] \in Int) /\ IsFiniteSet(U) /\ (\A x \in reserves : coin[x] \in U)
            /\ \A c \in U : both[c] = SumFunctionOnSet(one, {x \in reserves : coin[x] = c})
        BY ONLY <1>1, <2>1, <2>3
      <3> QED BY ONLY <3>1, SumGrouped
    <2>5. reserves \in SUBSET reserves
      OBVIOUS
    <2> QED BY <2>2, <2>4, <2>5
  <1>14. Net(rows) = SumFunctionOnSet(net, U) + Net({row \in rows : row.currency = Null})
    <2> DEFINE cur == [row \in rows |-> row.currency]
               all == [c \in U \cup {Null} |-> SumFunctionOnSet(sg, {row \in rows : cur[row] = c})]
    <2>1. \A row \in rows : cur[row] = row.currency /\ cur[row] \in U \cup {Null}
      BY <1>1
    <2>2. \A c \in U \cup {Null} : all[c] = SumFunctionOnSet(sg, {row \in rows : cur[row] = c})
      OBVIOUS
    <2> HIDE DEF cur, all
    <2>3. \A c \in U \cup {Null} : {row \in rows : cur[row] = c} = {row \in rows : row.currency = c} /\ {row \in rows : row.currency = c} \in SUBSET rows
      BY <2>1
    <2>4. Null \notin U /\ IsFiniteSet(U \cup {Null}) /\ (U \cup {Null}) \ {Null} = U
      <3>1. Null \notin U
        BY <1>1, <1>2
      <3> QED BY <1>1, <3>1, FS_AddElement
    <2>5. SumFunctionOnSet(all, U \cup {Null}) = SumFunctionOnSet(sg, rows)
      <3>1. PICK C : C = U \cup {Null}
        OBVIOUS
      <3>2. /\ IsFiniteSet(C) /\ (\A x \in rows : cur[x] \in C) /\ (\A x \in rows : sg[x] \in Int) /\ IsFiniteSet(rows)
            /\ (\A c \in C : all[c] = SumFunctionOnSet(sg, {x \in rows : cur[x] = c}))
        BY <1>1, <1>6, <2>1, <2>2, <2>4, <3>1
      <3>3. PICK t, v, f : t = all /\ v = sg /\ f = cur
        OBVIOUS
      <3>4. /\ IsFiniteSet(rows) /\ (\A x \in rows : v[x] \in Int) /\ IsFiniteSet(C) /\ (\A x \in rows : f[x] \in C)
            /\ \A c \in C : t[c] = SumFunctionOnSet(v, {x \in rows : f[x] = c})
        BY ONLY <3>2, <3>3
      <3>5. SumFunctionOnSet(t, C) = SumFunctionOnSet(v, rows)
        BY ONLY <3>4, SumGrouped
      <3> QED BY <3>1, <3>3, <3>5
    <2>6. \A c \in U \cup {Null} : all[c] = Net({row \in rows : row.currency = c}) /\ all[c] \in Int
      BY <1>6, <2>2, <2>3
    <2>7. SumFunctionOnSet(all, U \cup {Null}) = all[Null] + SumFunctionOnSet(all, U)
      <3>1. PICK C : C = U \cup {Null}
        OBVIOUS
      <3>2. IsFiniteSet(C) /\ (\A c \in C : all[c] \in Int) /\ Null \in C /\ C \ {Null} = U
        BY <2>4, <2>6, <3>1
      <3>3. SumFunctionOnSet(all, C) = all[Null] + SumFunctionOnSet(all, C \ {Null})
        BY ONLY <3>2, SumRemove
      <3> QED BY <3>1, <3>2, <3>3
    <2>8. SumFunctionOnSet(all, U) = SumFunctionOnSet(net, U) /\ SumFunctionOnSet(all, U) \in Int
      <3>1. \A c \in U : all[c] \in Int /\ all[c] = net[c]
        BY <1>7, <2>6
      <3> QED BY ONLY <1>1, <3>1, SumEqual, SumTyped
    <2>9. Net(rows) = SumFunctionOnSet(sg, rows) /\ all[Null] = Net({row \in rows : row.currency = Null}) /\ all[Null] \in Int
      <3>1. rows \in SUBSET rows /\ Null \in U \cup {Null}
        OBVIOUS
      <3> QED BY <1>6, <2>6, <3>1
    <2> QED BY <2>5, <2>7, <2>8, <2>9
  <1> QED BY <1>10, <1>11, <1>12, <1>13, <1>14

(* Rows that were read at since or later by a query of all that concern a: those that  *)
(* no longer count, or count and are left out, have turned since.                      *)
RowsFrom(a, rows, since, h, t) ==
  /\ rows \in SUBSET LedgerRow /\ \A row \in rows : Concerns(row, a) /\ (row \in h \/ t[row] >= since)
  /\ Cardinality(rows) < Take => \A row \in LedgerRow \cap h : Concerns(row, a) /\ row \notin rows => t[row] >= since

(* Reserves that were read at since or later. *)
ReservesFrom(reserves, since, h, t) ==
  /\ reserves \in SUBSET Reserve
  /\ \A c \in Reserve : (c \in reserves /\ c \notin h) \/ (c \notin reserves /\ c \in h) => t[c] >= since

(* What a load has read, and what an entry was made of. *)
ViewRead(v, h, t, now) ==
  v # NoView => /\ v.actor \in Actor /\ v.key = v.actor /\ v.since <= now /\ now <= v.since + Slowest
                /\ v.rows = Unread \/ RowsFrom(v.actor, v.rows, v.since, h, t)
                /\ v.reserves = Unread \/ ReservesFrom(v.reserves, v.since, h, t)
KeptRead(a, k, h, t, l) == /\ RowsFrom(a, k.rows, k.until - l - Slowest, h, t)
                           /\ ReservesFrom(k.reserves, k.until - l - Slowest, h, t)

ViewRecord == [actor : Actor \cup {Null}, key : Actor \cup {Null}, rows : SUBSET (LedgerRow \cup {Null}),
               reserves : SUBSET (Reserve \cup {Null}), since : Nat]
KeptRecord == [rows : SUBSET LedgerRow, reserves : SUBSET Reserve, until : Nat]

TreasuryTyped == /\ ticks \in Nat /\ life \in Nat /\ turned \in [Fact -> Nat]
                 /\ kept \in [Actor -> KeptRecord] /\ view \in [Reader -> ViewRecord]
ViewsRead == \A r \in Reader : ViewRead(view[r], holds, turned, ticks)
EntriesRead == \A a \in Actor : kept[a].until <= ticks + life /\ KeptRead(a, kept[a], holds, turned, life)
TreasuryInv == TreasuryTyped /\ ViewsRead /\ EntriesRead /\ ~aged /\ ~amiss

(* What was read at a time was read at any earlier one. *)
LEMMA ReadEarlier ==
  ASSUME NEW h, NEW t \in [Fact -> Nat], NEW s \in Int, NEW e \in Int, e <= s
  PROVE  /\ \A a, rows : RowsFrom(a, rows, s, h, t) => RowsFrom(a, rows, e, h, t)
         /\ \A reserves : ReservesFrom(reserves, s, h, t) => ReservesFrom(reserves, e, h, t)
  <1>1. \A f \in Fact : t[f] \in Nat /\ (t[f] >= s => t[f] >= e)
    OBVIOUS
  <1>2. \A row \in LedgerRow : t[row] >= s => t[row] >= e
    BY <1>1 DEF Fact
  <1>3. \A c \in Reserve : t[c] >= s => t[c] >= e
    BY <1>1 DEF Fact
  <1>4. ASSUME NEW a, NEW rows, RowsFrom(a, rows, s, h, t) PROVE RowsFrom(a, rows, e, h, t)
    BY <1>2, <1>4, Zenon DEF RowsFrom
  <1>5. ASSUME NEW reserves, ReservesFrom(reserves, s, h, t) PROVE ReservesFrom(reserves, e, h, t)
    BY <1>3, <1>5, Zenon DEF ReservesFrom
  <1> QED BY <1>4, <1>5, Zenon

(* A fact that turns later takes nothing from what was read. *)
LEMMA ReadRemains ==
  ASSUME NEW h, NEW t, NEW g, NEW u, NEW f \in Fact, NEW s \in Int,
         \A x \in Fact \ {f} : (x \in g <=> x \in h) /\ u[x] = t[x], u[f] >= s
  PROVE  /\ \A a, rows : RowsFrom(a, rows, s, h, t) => RowsFrom(a, rows, s, g, u)
         /\ \A reserves : ReservesFrom(reserves, s, h, t) => ReservesFrom(reserves, s, g, u)
  <1>1. \A x \in Fact : u[x] >= s \/ ((x \in g <=> x \in h) /\ u[x] = t[x])
    OBVIOUS
  <1>2. /\ \A x \in LedgerRow : u[x] >= s \/ ((x \in g <=> x \in h) /\ u[x] = t[x])
        /\ \A x \in Reserve : u[x] >= s \/ ((x \in g <=> x \in h) /\ u[x] = t[x])
    BY <1>1 DEF Fact
  <1>3. ASSUME NEW a, NEW rows, RowsFrom(a, rows, s, h, t) PROVE RowsFrom(a, rows, s, g, u)
    <2>1. /\ rows \in SUBSET LedgerRow /\ \A row \in rows : Concerns(row, a) /\ (row \in h \/ t[row] >= s)
          /\ Cardinality(rows) < Take => \A row \in LedgerRow \cap h : Concerns(row, a) /\ row \notin rows => t[row] >= s
      BY <1>3 DEF RowsFrom
    <2>2. \A row \in rows : Concerns(row, a) /\ (row \in g \/ u[row] >= s)
      BY <1>2, <2>1, Zenon
    <2>3. Cardinality(rows) < Take => \A row \in LedgerRow \cap g : Concerns(row, a) /\ row \notin rows => u[row] >= s
      BY <1>2, <2>1, Zenon
    <2> QED BY <2>1, <2>2, <2>3 DEF RowsFrom
  <1>4. ASSUME NEW reserves, ReservesFrom(reserves, s, h, t) PROVE ReservesFrom(reserves, s, g, u)
    <2>1. /\ reserves \in SUBSET Reserve
          /\ \A c \in Reserve : (c \in reserves /\ c \notin h) \/ (c \notin reserves /\ c \in h) => t[c] >= s
      BY <1>4 DEF ReservesFrom
    <2>2. \A c \in Reserve : (c \in reserves /\ c \notin g) \/ (c \notin reserves /\ c \in g) => u[c] >= s
      BY <1>2, <2>1, Zenon
    <2> QED BY <2>1, <2>2 DEF ReservesFrom
  <1> QED BY <1>3, <1>4, Zenon

(* A response made of what was read within a life and a load tells of nothing older. *)
LEMMA NothingAged ==
  ASSUME NEW a, NEW rows, NEW reserves, NEW s \in Int, ticks \in Nat, life \in Nat, turned \in [Fact -> Nat],
         RowsFrom(a, rows, s, holds, turned), ReservesFrom(reserves, s, holds, turned), ticks <= s + life + Slowest
  PROVE  (\A f \in Outdated(a, rows, reserves) : ~(ticks > turned[f] + life + Slowest)) /\ AddsUp(a, rows, reserves)
  <1>1. /\ rows \in SUBSET LedgerRow /\ \A row \in rows : Concerns(row, a) /\ (row \in holds \/ turned[row] >= s)
        /\ Cardinality(rows) < Take => \A row \in LedgerRow \cap holds : Concerns(row, a) /\ row \notin rows => turned[row] >= s
    BY DEF RowsFrom
  <1>2. /\ reserves \in SUBSET Reserve
        /\ \A c \in Reserve : (c \in reserves /\ c \notin holds) \/ (c \notin reserves /\ c \in holds) => turned[c] >= s
    BY DEF ReservesFrom
  <1>3. AddsUp(a, rows, reserves)
    BY <1>1, <1>2, ResponseAddsUp
  <1>4. ASSUME NEW f \in Outdated(a, rows, reserves) PROVE ~(ticks > turned[f] + life + Slowest)
    <2>1. f \in Fact /\ turned[f] >= s
      <3>1. \/ f \in Reserve /\ (f \in reserves) # (f \in holds)
            \/ f \in rows \ holds
            \/ f \in LedgerRow \cap holds /\ Concerns(f, a) /\ f \notin rows /\ Cardinality(rows) < Take
        BY <1>4 DEF Outdated
      <3>2. CASE f \in Reserve /\ (f \in reserves) # (f \in holds)
        BY <1>2, <3>2 DEF Fact
      <3>3. CASE f \in rows \ holds
        BY <1>1, <3>3 DEF Fact
      <3>4. CASE f \in LedgerRow \cap holds /\ Concerns(f, a) /\ f \notin rows /\ Cardinality(rows) < Take
        BY <1>1, <3>4 DEF Fact
      <3> QED BY <3>1, <3>2, <3>3, <3>4
    <2>2. turned[f] \in Nat /\ Slowest \in Nat
      BY <2>1, TreasuryFacts
    <2> QED BY <2>1, <2>2
  <1> QED BY <1>3, <1>4

LEMMA ToldInv ==
  ASSUME NEW a, NEW rows, NEW reserves, NEW s \in Int, ticks \in Nat, life \in Nat, turned \in [Fact -> Nat],
         RowsFrom(a, rows, s, holds, turned), ReservesFrom(reserves, s, holds, turned), ticks <= s + life + Slowest,
         ~aged, ~amiss, Told(a, rows, reserves)
  PROVE  ~aged' /\ ~amiss'
  <1>1. (\A f \in Outdated(a, rows, reserves) : ~(ticks > turned[f] + life + Slowest)) /\ AddsUp(a, rows, reserves)
    BY NothingAged
  <1> QED BY <1>1, Zenon DEF Told

(* A query without more rows than it may return returns all. *)
LEMMA AllFound ==
  ASSUME NEW found \in SUBSET LedgerRow, NEW rows \in kSubset(Min({Take, Cardinality(found)}), found)
  PROVE  rows \in SUBSET found /\ (Cardinality(rows) < Take => rows = found)
  <1>1. IsFiniteSet(found) /\ Cardinality(found) \in Nat /\ Take \in Nat
    BY TreasuryFacts, FS_Subset, FS_CardinalityType
  <1>2. rows \in SUBSET found /\ Cardinality(rows) = Min({Take, Cardinality(found)})
    BY DEF kSubset
  <1>3. PICK n \in Nat : n = Cardinality(found)
    BY <1>1
  <1>4. Min({Take, n}) = Take \/ Min({Take, n}) = n
    <2>1. {Take, n} # {} /\ {Take, n} \subseteq Nat
      BY <1>1
    <2>2. PICK S : S = {Take, n}
      OBVIOUS
    <2>3. \E i \in S : \A k \in S : i <= k
      BY <2>1, <2>2, LeastNumber
    <2>4. Min(S) \in S
      BY <2>3, Zenon DEF Min
    <2> QED BY <2>2, <2>4
  <1>5. Cardinality(rows) < Take => Cardinality(rows) = n
    BY <1>1, <1>2, <1>3, <1>4
  <1>6. Cardinality(rows) = Cardinality(found) => rows = found
    BY <1>1, <1>2, FS_Subset
  <1> QED BY <1>2, <1>3, <1>5, <1>6

LEMMA TreasuryInitInv == TreasuryInit => TreasuryInv
  <1> SUFFICES ASSUME TreasuryInit PROVE TreasuryInv
    OBVIOUS
  <1>1. life \in Nat
    <2>1. PICK raw \in {Null, 0, MaxLife + 1} : life = getTreasuryCacheTtlMs(raw)
      BY DEF TreasuryInit
    <2>2. CASE raw = Null
      BY <2>1, <2>2, TreasuryFacts DEF getTreasuryCacheTtlMs
    <2>3. CASE raw # Null
      <3>1. life = Min({raw, MaxLife}) /\ raw \in Nat /\ MaxLife \in Nat
        BY <2>1, <2>3, TreasuryFacts DEF getTreasuryCacheTtlMs
      <3>2. PICK S : S = {raw, MaxLife}
        OBVIOUS
      <3>3. S # {} /\ S \subseteq Nat
        BY <3>1, <3>2
      <3>4. \E i \in S : \A k \in S : i <= k
        BY <3>3, LeastNumber
      <3>5. Min(S) \in S
        BY <3>4, Zenon DEF Min
      <3> QED BY <3>1, <3>2, <3>3, <3>5
    <2> QED BY <2>2, <2>3
  <1>2. /\ ticks = 0 /\ turned = [f \in Fact |-> 0] /\ kept = [a \in Actor |-> NotKept] /\ view = [r \in Reader |-> NoView]
        /\ aged = FALSE /\ amiss = FALSE
    BY DEF TreasuryInit
  <1>3. NotKept \in KeptRecord /\ NoView \in ViewRecord
    BY DEF NotKept, KeptRecord, NoView, ViewRecord, Unread
  <1>4. TreasuryTyped
    BY <1>1, <1>2, <1>3 DEF TreasuryTyped
  <1>5. ViewsRead
    BY <1>2 DEF ViewsRead, ViewRead
  <1>6. EntriesRead
    <2> SUFFICES ASSUME NEW a \in Actor
                 PROVE  kept[a].until <= ticks + life /\ KeptRead(a, kept[a], holds, turned, life)
      BY DEF EntriesRead
    <2>1. kept[a].until = 0 /\ kept[a].rows = {} /\ kept[a].reserves = {}
      BY <1>2 DEF NotKept
    <2>2. Slowest \in Nat
      BY TreasuryFacts
    <2>3. \A f \in Fact : turned[f] >= 0 - life - Slowest
      BY <1>1, <1>2, <2>2
    <2>4. RowsFrom(a, {}, 0 - life - Slowest, holds, turned) /\ ReservesFrom({}, 0 - life - Slowest, holds, turned)
      BY <2>3 DEF RowsFrom, ReservesFrom, Fact
    <2>5. KeptRead(a, kept[a], holds, turned, life)
      BY <2>1, <2>4, Zenon DEF KeptRead
    <2>6. kept[a].until <= ticks + life
      BY <1>1, <1>2, <2>1
    <2> QED BY <2>5, <2>6
  <1> QED BY <1>2, <1>4, <1>5, <1>6 DEF TreasuryInv

(* What one more load has read, all else as it was. *)
LEMMA ViewInv ==
  ASSUME TreasuryInv, NEW r \in Reader, NEW v \in ViewRecord, ViewRead(v, holds, turned, ticks),
         view' = [view EXCEPT ![r] = v], UNCHANGED <<ticks, life, holds, turned, kept, aged, amiss>>
  PROVE  TreasuryInv'
  <1>1. TreasuryTyped'
    BY DEF TreasuryInv, TreasuryTyped
  <1>2. ViewsRead'
    <2> SUFFICES ASSUME NEW q \in Reader PROVE ViewRead(view'[q], holds, turned, ticks)
      BY DEF ViewsRead
    <2>1. CASE q = r
      <3>1. view'[q] = v
        BY <2>1 DEF TreasuryInv, TreasuryTyped
      <3> QED BY <3>1
    <2>2. CASE q # r
      <3>1. view'[q] = view[q]
        BY <2>2 DEF TreasuryInv, TreasuryTyped
      <3> QED BY <3>1 DEF TreasuryInv, ViewsRead
    <2> QED BY <2>1, <2>2
  <1>3. EntriesRead'
    BY DEF TreasuryInv, EntriesRead
  <1> QED BY <1>1, <1>2, <1>3 DEF TreasuryInv

LEMMA ClockTicksInv == TreasuryInv /\ ClockTicks => TreasuryInv'
  <1> SUFFICES ASSUME TreasuryInv, ClockTicks PROVE TreasuryInv'
    OBVIOUS
  <1>1. /\ ticks \in Nat /\ ticks' = ticks + 1 /\ \A r \in Reader : view[r] # NoView => ticks < view[r].since + Slowest
        /\ UNCHANGED <<life, holds, turned, kept, view, aged, amiss>>
    BY DEF ClockTicks, TreasuryInv, TreasuryTyped
  <1>2. TreasuryTyped'
    BY <1>1 DEF TreasuryInv, TreasuryTyped
  <1>3. ViewsRead'
    <2> SUFFICES ASSUME NEW r \in Reader, view[r] # NoView PROVE ViewRead(view[r], holds, turned, ticks + 1)
      BY <1>1 DEF ViewsRead, ViewRead
    <2>1. /\ view[r].actor \in Actor /\ view[r].key = view[r].actor /\ view[r].since <= ticks
          /\ view[r].rows = Unread \/ RowsFrom(view[r].actor, view[r].rows, view[r].since, holds, turned)
          /\ view[r].reserves = Unread \/ ReservesFrom(view[r].reserves, view[r].since, holds, turned)
      BY DEF TreasuryInv, ViewsRead, ViewRead
    <2>2. view[r].since \in Nat /\ Slowest \in Nat
      BY TreasuryFacts DEF TreasuryInv, TreasuryTyped, ViewRecord
    <2>3. view[r].since <= ticks + 1 /\ ticks + 1 <= view[r].since + Slowest
      BY <1>1, <2>1, <2>2
    <2> QED BY <2>1, <2>3, Zenon DEF ViewRead
  <1>4. EntriesRead'
    <2> SUFFICES ASSUME NEW a \in Actor
                 PROVE  kept[a].until <= (ticks + 1) + life /\ KeptRead(a, kept[a], holds, turned, life)
      BY <1>1 DEF EntriesRead
    <2>1. kept[a].until <= ticks + life /\ KeptRead(a, kept[a], holds, turned, life)
      BY DEF TreasuryInv, EntriesRead
    <2>2. kept[a].until \in Nat /\ life \in Nat
      BY DEF TreasuryInv, TreasuryTyped, KeptRecord
    <2>3. kept[a].until <= (ticks + 1) + life
      BY <1>1, <2>1, <2>2
    <2> QED BY <2>1, <2>3
  <1> QED BY <1>1, <1>2, <1>3, <1>4 DEF TreasuryInv

LEMMA FactTurnsInv == ASSUME TreasuryInv, NEW f \in Fact, FactTurns(f) PROVE TreasuryInv'
  <1>1. /\ holds' = (IF f \in holds THEN holds \ {f} ELSE holds \cup {f}) /\ turned' = [turned EXCEPT ![f] = ticks]
        /\ UNCHANGED <<ticks, life, kept, view, aged, amiss>> /\ ticks \in Nat /\ life \in Nat /\ turned \in [Fact -> Nat]
    BY DEF FactTurns, TreasuryInv, TreasuryTyped
  <1>2. TreasuryTyped'
    BY <1>1 DEF TreasuryInv, TreasuryTyped
  <1>3. \A x \in Fact \ {f} : (x \in holds' <=> x \in holds) /\ turned'[x] = turned[x]
    BY <1>1
  <1>4. turned'[f] = ticks
    BY <1>1
  <1>5. ASSUME NEW s \in Int, s <= ticks
        PROVE  /\ \A a, rows : RowsFrom(a, rows, s, holds, turned) => RowsFrom(a, rows, s, holds', turned')
               /\ \A reserves : ReservesFrom(reserves, s, holds, turned) => ReservesFrom(reserves, s, holds', turned')
    <2>1. PICK h, t, g, u : h = holds /\ t = turned /\ g = holds' /\ u = turned'
      OBVIOUS
    <2>2. (\A x \in Fact \ {f} : (x \in g <=> x \in h) /\ u[x] = t[x]) /\ u[f] >= s
      BY <1>1, <1>3, <1>4, <1>5, <2>1
    <2>3. /\ \A a, rows : RowsFrom(a, rows, s, h, t) => RowsFrom(a, rows, s, g, u)
          /\ \A reserves : ReservesFrom(reserves, s, h, t) => ReservesFrom(reserves, s, g, u)
      BY <2>2, ReadRemains
    <2> QED BY <2>1, <2>3
  <1>6. ViewsRead'
    <2> SUFFICES ASSUME NEW r \in Reader, view[r] # NoView PROVE ViewRead(view[r], holds', turned', ticks)
      BY <1>1 DEF ViewsRead, ViewRead
    <2>1. /\ view[r].actor \in Actor /\ view[r].key = view[r].actor /\ view[r].since <= ticks /\ ticks <= view[r].since + Slowest
          /\ view[r].rows = Unread \/ RowsFrom(view[r].actor, view[r].rows, view[r].since, holds, turned)
          /\ view[r].reserves = Unread \/ ReservesFrom(view[r].reserves, view[r].since, holds, turned)
      BY DEF TreasuryInv, ViewsRead, ViewRead
    <2>2. view[r].since \in Int
      BY DEF TreasuryInv, TreasuryTyped, ViewRecord
    <2>3. /\ view[r].rows = Unread \/ RowsFrom(view[r].actor, view[r].rows, view[r].since, holds', turned')
          /\ view[r].reserves = Unread \/ ReservesFrom(view[r].reserves, view[r].since, holds', turned')
      BY <1>5, <2>1, <2>2
    <2> QED BY <2>1, <2>3, Zenon DEF ViewRead
  <1>7. EntriesRead'
    <2> SUFFICES ASSUME NEW a \in Actor
                 PROVE  kept[a].until <= ticks + life /\ KeptRead(a, kept[a], holds', turned', life)
      BY <1>1 DEF EntriesRead
    <2>1. kept[a].until <= ticks + life /\ KeptRead(a, kept[a], holds, turned, life)
      BY DEF TreasuryInv, EntriesRead
    <2>2. kept[a].until \in Nat /\ life \in Nat /\ Slowest \in Nat
      BY TreasuryFacts DEF TreasuryInv, TreasuryTyped, KeptRecord
    <2>3. kept[a].until - life - Slowest \in Int /\ kept[a].until - life - Slowest <= ticks
      BY <1>1, <2>1, <2>2
    <2> QED BY <1>5, <2>1, <2>3 DEF KeptRead
  <1> QED BY <1>1, <1>2, <1>6, <1>7 DEF TreasuryInv

LEMMA GetTreasuryInv == ASSUME TreasuryInv, NEW r \in Reader, getGovernmentTreasury(r) PROVE TreasuryInv'
  <1>1. PICK user \in Official \cup {Null}, org \in {Office, Null} :
          /\ user # Null \/ org # Null
          /\ LET a   == IF user # Null THEN user ELSE org
                 key == cacheKey(user, org)
             IN IF Live(key)
                THEN Told(a, kept[key].rows, kept[key].reserves) /\ UNCHANGED <<view, views>>
                ELSE /\ views < MaxViews /\ views' = views + 1
                     /\ view' = [view EXCEPT ![r] =
                                   [NoView EXCEPT !.actor = a, !.key = key, !.since = ticks]]
                     /\ UNCHANGED <<aged, amiss>>
    BY Zenon DEF getGovernmentTreasury
  <1>2. UNCHANGED <<ticks, life, holds, turned, kept>>
    BY DEF getGovernmentTreasury
  <1>3. PICK a : a = IF user # Null THEN user ELSE org
    OBVIOUS
  <1>4. a \in Actor /\ cacheKey(user, org) = a
    BY <1>1, <1>3 DEF Actor, cacheKey
  <1>5. \/ Live(a) /\ Told(a, kept[a].rows, kept[a].reserves) /\ view' = view
        \/ /\ view' = [view EXCEPT ![r] = [NoView EXCEPT !.actor = a, !.key = a, !.since = ticks]]
           /\ UNCHANGED <<aged, amiss>>
    BY <1>1, <1>3, <1>4, Zenon
  <1>6. CASE Live(a) /\ Told(a, kept[a].rows, kept[a].reserves) /\ view' = view
    <2>1. /\ ticks \in Nat /\ life \in Nat /\ turned \in [Fact -> Nat] /\ kept[a].until \in Nat /\ Slowest \in Nat
      BY <1>4, TreasuryFacts DEF TreasuryInv, TreasuryTyped, KeptRecord
    <2>2. PICK s \in Int : s = kept[a].until - life - Slowest
      BY <2>1
    <2>3. ticks <= s + life + Slowest
      BY <1>6, <2>1, <2>2 DEF Live
    <2>4. RowsFrom(a, kept[a].rows, s, holds, turned) /\ ReservesFrom(kept[a].reserves, s, holds, turned)
      BY <1>4, <2>2 DEF TreasuryInv, EntriesRead, KeptRead
    <2>5. ~aged /\ ~amiss
      BY DEF TreasuryInv
    <2>6. ~aged' /\ ~amiss'
      BY <1>6, <2>1, <2>3, <2>4, <2>5, ToldInv
    <2>7. TreasuryTyped' /\ ViewsRead' /\ EntriesRead'
      BY <1>2, <1>6 DEF TreasuryInv, TreasuryTyped, ViewsRead, EntriesRead
    <2> QED BY <2>6, <2>7 DEF TreasuryInv
  <1>7. CASE /\ view' = [view EXCEPT ![r] = [NoView EXCEPT !.actor = a, !.key = a, !.since = ticks]]
             /\ UNCHANGED <<aged, amiss>>
    <2>1. PICK v : v = [NoView EXCEPT !.actor = a, !.key = a, !.since = ticks]
      OBVIOUS
    <2>2. v = [actor |-> a, key |-> a, rows |-> Unread, reserves |-> Unread, since |-> ticks]
      BY <2>1 DEF NoView
    <2>3. ticks \in Nat /\ Slowest \in Nat
      BY TreasuryFacts DEF TreasuryInv, TreasuryTyped
    <2>4. v \in ViewRecord
      BY <1>4, <2>2, <2>3 DEF ViewRecord, Unread
    <2>5. v.actor = a /\ v.key = a /\ v.rows = Unread /\ v.reserves = Unread /\ v.since = ticks
      BY <2>2
    <2>6. ticks <= ticks /\ ticks <= ticks + Slowest
      BY <2>3
    <2>7. ViewRead(v, holds, turned, ticks)
      BY <1>4, <2>5, <2>6, Zenon DEF ViewRead
    <2>8. view' = [view EXCEPT ![r] = v]
      BY <1>7, <2>1
    <2> QED BY <1>2, <1>7, <2>4, <2>7, <2>8, ViewInv
  <1> QED BY <1>5, <1>6, <1>7

LEMMA FindTransactionsInv == ASSUME TreasuryInv, NEW r \in Reader, FindTransactions(r) PROVE TreasuryInv'
  <1> DEFINE found == {row \in LedgerRow \cap holds : Concerns(row, view[r].actor)}
  <1>1. PICK rows \in kSubset(Min({Take, Cardinality(found)}), found) : view' = [view EXCEPT ![r].rows = rows]
    BY DEF FindTransactions
  <1>2. UNCHANGED <<ticks, life, holds, turned, kept, aged, amiss>> /\ view[r] # NoView
    BY DEF FindTransactions
  <1>3. found \in SUBSET LedgerRow /\ \A row \in found : row \in LedgerRow /\ row \in holds /\ Concerns(row, view[r].actor)
    OBVIOUS
  <1>4. \A row \in LedgerRow \cap holds : Concerns(row, view[r].actor) => row \in found
    OBVIOUS
  <1> HIDE DEF found
  <1>5. rows \in SUBSET found /\ (Cardinality(rows) < Take => rows = found)
    BY <1>1, <1>3, AllFound
  <1>6. RowsFrom(view[r].actor, rows, view[r].since, holds, turned)
    BY <1>3, <1>4, <1>5, Zenon DEF RowsFrom
  <1>7. PICK v : v = [view[r] EXCEPT !.rows = rows]
    OBVIOUS
  <1>8. view[r] \in ViewRecord /\ rows \in SUBSET (LedgerRow \cup {Null})
    BY <1>3, <1>5 DEF TreasuryInv, TreasuryTyped
  <1>9. /\ v \in ViewRecord /\ v.actor = view[r].actor /\ v.key = view[r].key /\ v.since = view[r].since
        /\ v.rows = rows /\ v.reserves = view[r].reserves
    BY <1>7, <1>8 DEF ViewRecord
  <1>10. ViewRead(view[r], holds, turned, ticks)
    BY DEF TreasuryInv, ViewsRead
  <1>11. ViewRead(v, holds, turned, ticks)
    BY <1>2, <1>6, <1>9, <1>10, Zenon DEF ViewRead
  <1>12. view' = [view EXCEPT ![r] = v]
    BY <1>1, <1>7
  <1> QED BY <1>2, <1>9, <1>11, <1>12, ViewInv

LEMMA FindReservesInv == ASSUME TreasuryInv, NEW r \in Reader, FindReserves(r) PROVE TreasuryInv'
  <1>1. view' = [view EXCEPT ![r].reserves = Reserve \cap holds]
    BY DEF FindReserves
  <1>2. UNCHANGED <<ticks, life, holds, turned, kept, aged, amiss>> /\ view[r] # NoView
    BY DEF FindReserves
  <1>3. ReservesFrom(Reserve \cap holds, view[r].since, holds, turned)
    BY Zenon DEF ReservesFrom
  <1>4. PICK v : v = [view[r] EXCEPT !.reserves = Reserve \cap holds]
    OBVIOUS
  <1>5. view[r] \in ViewRecord /\ Reserve \cap holds \in SUBSET (Reserve \cup {Null})
    BY DEF TreasuryInv, TreasuryTyped
  <1>6. /\ v \in ViewRecord /\ v.actor = view[r].actor /\ v.key = view[r].key /\ v.since = view[r].since
        /\ v.rows = view[r].rows /\ v.reserves = Reserve \cap holds
    BY <1>4, <1>5 DEF ViewRecord
  <1>7. ViewRead(view[r], holds, turned, ticks)
    BY DEF TreasuryInv, ViewsRead
  <1>8. ViewRead(v, holds, turned, ticks)
    BY <1>2, <1>3, <1>6, <1>7, Zenon DEF ViewRead
  <1>9. view' = [view EXCEPT ![r] = v]
    BY <1>1, <1>4
  <1> QED BY <1>2, <1>6, <1>8, <1>9, ViewInv

LEMMA TreasuryDoneInv == ASSUME TreasuryInv, NEW r \in Reader, TreasuryDone(r) PROVE TreasuryInv'
  <1>1. PICK v \in ViewRecord : v = view[r]
    BY DEF TreasuryInv, TreasuryTyped
  <1>2. /\ v # NoView /\ v.rows # Unread /\ v.reserves # Unread
        /\ kept' = [kept EXCEPT ![v.key] = [rows |-> v.rows, reserves |-> v.reserves, until |-> ticks + life]]
        /\ Told(v.actor, v.rows, v.reserves) /\ view' = [view EXCEPT ![r] = NoView]
        /\ UNCHANGED <<ticks, life, holds, turned>>
    BY <1>1 DEF TreasuryDone
  <1>3. /\ v.actor \in Actor /\ v.key = v.actor /\ v.since <= ticks /\ ticks <= v.since + Slowest
        /\ RowsFrom(v.actor, v.rows, v.since, holds, turned) /\ ReservesFrom(v.reserves, v.since, holds, turned)
    BY <1>1, <1>2 DEF TreasuryInv, ViewsRead, ViewRead
  <1>4. /\ ticks \in Nat /\ life \in Nat /\ turned \in [Fact -> Nat] /\ Slowest \in Nat /\ v.since \in Nat
        /\ kept \in [Actor -> KeptRecord] /\ view \in [Reader -> ViewRecord]
    BY TreasuryFacts DEF TreasuryInv, TreasuryTyped, ViewRecord
  <1>5. ~aged' /\ ~amiss'
    <2>1. ticks <= v.since + life + Slowest /\ v.since \in Int
      BY <1>3, <1>4
    <2>2. ~aged /\ ~amiss
      BY DEF TreasuryInv
    <2> QED BY <1>2, <1>3, <1>4, <2>1, <2>2, ToldInv
  <1>6. PICK k : k = [rows |-> v.rows, reserves |-> v.reserves, until |-> ticks + life]
    OBVIOUS
  <1>7. k \in KeptRecord /\ k.rows = v.rows /\ k.reserves = v.reserves /\ k.until = ticks + life
    <2>1. v.rows \in SUBSET LedgerRow /\ v.reserves \in SUBSET Reserve
      BY <1>3 DEF RowsFrom, ReservesFrom
    <2> QED BY <1>4, <1>6, <2>1 DEF KeptRecord
  <1>8. KeptRead(v.actor, k, holds, turned, life)
    <2>1. PICK e \in Int : e = k.until - life - Slowest
      BY <1>4, <1>7
    <2>2. e <= v.since /\ v.since \in Int
      BY <1>3, <1>4, <1>7, <2>1
    <2>3. RowsFrom(v.actor, v.rows, e, holds, turned) /\ ReservesFrom(v.reserves, e, holds, turned)
      BY <1>3, <1>4, <2>2, ReadEarlier
    <2> QED BY <1>7, <2>1, <2>3 DEF KeptRead
  <1>9. kept' = [kept EXCEPT ![v.actor] = k]
    BY <1>2, <1>3, <1>6
  <1>10. NoView \in ViewRecord
    BY DEF NoView, ViewRecord, Unread
  <1>11. TreasuryTyped'
    BY <1>2, <1>4, <1>7, <1>9, <1>10 DEF TreasuryTyped
  <1>12. ViewsRead'
    <2> SUFFICES ASSUME NEW q \in Reader PROVE ViewRead(view'[q], holds, turned, ticks)
      BY <1>2 DEF ViewsRead
    <2>1. CASE q = r
      <3>1. view'[q] = NoView
        BY <1>2, <1>4, <2>1
      <3> QED BY <3>1 DEF ViewRead
    <2>2. CASE q # r
      <3>1. view'[q] = view[q]
        BY <1>2, <1>4, <2>2
      <3> QED BY <3>1 DEF TreasuryInv, ViewsRead
    <2> QED BY <2>1, <2>2
  <1>13. EntriesRead'
    <2> SUFFICES ASSUME NEW a \in Actor
                 PROVE  kept'[a].until <= ticks + life /\ KeptRead(a, kept'[a], holds, turned, life)
      BY <1>2 DEF EntriesRead
    <2>1. CASE a = v.actor
      <3>1. kept'[a] = k
        BY <1>4, <1>9, <2>1
      <3>2. ticks + life <= ticks + life
        BY <1>4
      <3> QED BY <1>7, <1>8, <2>1, <3>1, <3>2
    <2>2. CASE a # v.actor
      <3>1. kept'[a] = kept[a]
        BY <1>4, <1>9, <2>2
      <3> QED BY <3>1 DEF TreasuryInv, EntriesRead
    <2> QED BY <2>1, <2>2
  <1> QED BY <1>5, <1>11, <1>12, <1>13 DEF TreasuryInv

LEMMA TreasuryFailsInv == ASSUME TreasuryInv, NEW r \in Reader, TreasuryFails(r) PROVE TreasuryInv'
  <1>1. view' = [view EXCEPT ![r] = NoView] /\ UNCHANGED <<ticks, life, holds, turned, kept, aged, amiss>>
    BY DEF TreasuryFails
  <1>2. NoView \in ViewRecord
    BY DEF NoView, ViewRecord, Unread
  <1>3. ViewRead(NoView, holds, turned, ticks)
    BY DEF ViewRead
  <1> QED BY <1>1, <1>2, <1>3, ViewInv

LEMMA EvictExpiredInv == ASSUME TreasuryInv, EvictExpired PROVE TreasuryInv'
  <1>1. /\ kept' = [a \in Actor |-> IF Live(a) THEN kept[a] ELSE NotKept]
        /\ UNCHANGED <<ticks, life, holds, turned, view, aged, amiss>>
    BY DEF EvictExpired
  <1>2. /\ ticks \in Nat /\ life \in Nat /\ turned \in [Fact -> Nat] /\ Slowest \in Nat /\ kept \in [Actor -> KeptRecord]
    BY TreasuryFacts DEF TreasuryInv, TreasuryTyped
  <1>3. NotKept \in KeptRecord /\ NotKept.rows = {} /\ NotKept.reserves = {} /\ NotKept.until = 0
    BY DEF NotKept, KeptRecord
  <1>4. \A a \in Actor : kept'[a] = kept[a] \/ kept'[a] = NotKept
    BY <1>1
  <1>5. TreasuryTyped'
    <2>1. kept' \in [Actor -> KeptRecord]
      BY <1>1, <1>2, <1>3
    <2> QED BY <1>1, <2>1 DEF TreasuryInv, TreasuryTyped
  <1>6. ViewsRead'
    BY <1>1 DEF TreasuryInv, ViewsRead
  <1>7. EntriesRead'
    <2> SUFFICES ASSUME NEW a \in Actor
                 PROVE  kept'[a].until <= ticks + life /\ KeptRead(a, kept'[a], holds, turned, life)
      BY <1>1 DEF EntriesRead
    <2>1. CASE kept'[a] = kept[a]
      BY <2>1 DEF TreasuryInv, EntriesRead
    <2>2. CASE kept'[a] = NotKept
      <3>1. \A f \in Fact : turned[f] >= 0 - life - Slowest
        BY <1>2
      <3>2. RowsFrom(a, {}, 0 - life - Slowest, holds, turned) /\ ReservesFrom({}, 0 - life - Slowest, holds, turned)
        <4>1. kept[a].until \in Nat
          BY <1>2 DEF KeptRecord
        <4>2. ASSUME Cardinality({}) < Take
              PROVE \A row \in LedgerRow \cap holds : turned[row] >= 0 - life - Slowest
          BY <3>1 DEF Fact
        <4>3. \A c \in Reserve : turned[c] >= 0 - life - Slowest
          BY <3>1 DEF Fact
        <4> QED BY <4>2, <4>3, Zenon DEF RowsFrom, ReservesFrom
      <3>3. KeptRead(a, NotKept, holds, turned, life)
        BY <1>3, <3>2, Zenon DEF KeptRead
      <3>4. NotKept.until <= ticks + life
        BY <1>2, <1>3
      <3> QED BY <2>2, <3>3, <3>4
    <2> QED BY <1>4, <2>1, <2>2
  <1> QED BY <1>1, <1>5, <1>6, <1>7 DEF TreasuryInv

LEMMA TreasuryNextInv == TreasuryInv /\ [TreasuryNext]_treasuryVars => TreasuryInv'
  <1> SUFFICES ASSUME TreasuryInv, [TreasuryNext]_treasuryVars PROVE TreasuryInv'
    OBVIOUS
  <1>1. CASE ClockTicks
    BY <1>1, ClockTicksInv
  <1>2. CASE EvictExpired
    BY <1>2, EvictExpiredInv
  <1>3. CASE \E f \in Fact : FactTurns(f)
    BY <1>3, FactTurnsInv
  <1>4. ASSUME NEW r \in Reader,
               getGovernmentTreasury(r) \/ FindTransactions(r) \/ FindReserves(r) \/ TreasuryDone(r) \/ TreasuryFails(r)
        PROVE  TreasuryInv'
    BY <1>4, GetTreasuryInv, FindTransactionsInv, FindReservesInv, TreasuryDoneInv, TreasuryFailsInv
  <1>5. CASE UNCHANGED treasuryVars
    BY <1>5 DEF treasuryVars, TreasuryInv, TreasuryTyped, ViewsRead, EntriesRead
  <1> QED BY <1>1, <1>2, <1>3, <1>4, <1>5 DEF TreasuryNext

LEMMA TreasuryServes == TreasuryInv => TreasurySound
  <1> SUFFICES ASSUME TreasuryInv PROVE TreasurySound
    OBVIOUS
  <1>1. \A r \in Reader : view[r] # NoView => view[r].actor \in Actor /\ view[r].since <= ticks
    BY DEF TreasuryInv, ViewsRead, ViewRead
  <1> QED BY <1>1 DEF TreasuryInv, TreasurySound

(* What the caches of a process serve is fresh, an outage of a source is contained,  *)
(* and a government is told its own figures, that add up and are no older than the   *)
(* life of an entry and a load, with any number of sources' versions, readers, rows  *)
(* and reserves (config/limits.ts, acbuRateCache.ts, exchangeRateService.ts,         *)
(* governmentController.ts).                                                         *)
THEOREM CachesAreSound == ReadCachesSpec /\ TreasurySpec => []CachesSound
<1>1. ReadCachesInit => CachesInv
  BY CachesInitInv
<1>2. CachesInv /\ [ReadCachesNext]_cacheVars => CachesInv'
  BY CachesNextInv
<1>3. CachesInv => ServedFresh /\ OutageContained
  BY CachesServe
<1>4. TreasuryInit => TreasuryInv
  BY TreasuryInitInv
<1>5. TreasuryInv /\ [TreasuryNext]_treasuryVars => TreasuryInv'
  BY TreasuryNextInv
<1>6. TreasuryInv => TreasurySound
  BY TreasuryServes
<1>7. ReadCachesSpec => [](ServedFresh /\ OutageContained)
  BY <1>1, <1>2, <1>3, PTL DEF ReadCachesSpec
<1>8. TreasurySpec => []TreasurySound
  BY <1>4, <1>5, <1>6, PTL DEF TreasurySpec
<1>9. ServedFresh /\ OutageContained /\ TreasurySound => CachesSound
  BY DEF CachesSound
<1> QED BY <1>7, <1>8, <1>9, PTL
=============================================================================
