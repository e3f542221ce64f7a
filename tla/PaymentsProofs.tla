---------------------------- MODULE PaymentsProofs ----------------------------
(***************************************************************************)
(* What moves a user's money, for any number of users, requests, processes *)
(* and faults.                                                             *)
(***************************************************************************)
EXTENDS Bills, Wallet, Salary, Bulk, ChainCalls, Investment, Providers, Inbound, Sums, FiniteSetTheorems,
        SequenceTheorems, TLAPS

-----------------------------------------------------------------------------
(* The wallet: a tag is of a version that was, what is loaded for it is not    *)
(* older, and whoever still has the wallet's version saw the wallet's address. *)

Entries == [tag : Nat, loaded : Nat]

WalletTyped ==
    /\ version \in 1..MaxVersion /\ address \in Bound
    /\ transfer \in [Key -> {"none", "pending", "completed"}]
    /\ cache \in [Host -> Entries]
    /\ wpc \in [Caller -> {"idle", "reserve", "user", "load", "cache", "balance", "create", "complete"}]
    /\ req \in [Caller -> [op : Ops, host : Host \cup {NoAddress}, tag : Nat, new : Bound,
                           key : Key \cup {NoReq.key}, seen : Entries]]

CacheSound == \A h \in Host : cache[h].tag <= cache[h].loaded /\ cache[h].loaded <= version

CallerSound(c) ==
    /\ wpc[c] = "idle" => req[c] = NoReq
    /\ wpc[c] # "idle" => req[c].host \in Host
    /\ req[c].tag <= version
    /\ wpc[c] = "reserve" /\ req[c].op = "enroll" /\ req[c].tag = version => address \in {NoAddress, req[c].new}
    /\ wpc[c] = "load" => req[c].seen.tag <= version
    /\ wpc[c] = "cache" => req[c].seen.tag <= req[c].seen.loaded /\ req[c].seen.loaded <= version
    /\ wpc[c] \in {"cache", "balance"} => req[c].tag <= req[c].seen.loaded

WalletInv ==
    /\ WalletTyped /\ CacheSound /\ BalanceFresh /\ EnrolmentKeepsAddress
    /\ \A c \in Caller : CallerSound(c)

LEMMA WalletFacts ==
  /\ MaxVersion \in Nat \ {0} /\ NoAddress \in Bound /\ NoEntry \in Entries
  /\ NoEntry.tag = 0 /\ NoEntry.loaded = 0 /\ NoReq.tag = 0
  /\ NoReq \in [op : Ops, host : Host \cup {NoAddress}, tag : Nat, new : Bound,
                key : Key \cup {NoReq.key}, seen : Entries]
  BY WalletAssumption DEF WalletAssumption, Bound, NoEntry, Entries, NoReq, Ops

LEMMA WalletInitInv == WalletInit => WalletInv
  BY WalletFacts DEF WalletInit, WalletInv, WalletTyped, CacheSound, BalanceFresh, EnrolmentKeepsAddress,
     CallerSound

(* Callers that do not move, while the version stays with the address or grows. *)
LEMMA OtherCallers ==
  ASSUME WalletInv, NEW c \in Caller, WalletTyped',
         \A d \in Caller \ {c} : wpc'[d] = wpc[d] /\ req'[d] = req[d],
         UNCHANGED <<version, address>> \/ version' = version + 1
  PROVE  \A d \in Caller \ {c} : CallerSound(d)'
  <1> SUFFICES ASSUME NEW d \in Caller \ {c} PROVE CallerSound(d)'
    OBVIOUS
  <1>1. /\ CallerSound(d) /\ version \in Nat /\ version' \in Nat /\ version <= version'
        /\ req[d].tag \in Nat /\ req[d].seen.tag \in Nat /\ req[d].seen.loaded \in Nat
    BY WalletFacts DEF WalletInv, WalletTyped, Entries
  <1>2. wpc'[d] = wpc[d] /\ req'[d] = req[d]
    OBVIOUS
  <1>3. req[d].tag = version' => UNCHANGED <<version, address>>
    BY <1>1 DEF CallerSound
  <1> QED BY <1>1, <1>2, <1>3 DEF CallerSound

LEMMA AsksInv == ASSUME WalletInv, NEW c \in Caller, NEW op \in Ops, Asks(c, op) PROVE WalletInv'
  <1> USE WalletFacts DEF WalletInv
  <1>1. UNCHANGED <<version, address, transfer, cache, relied, replaced>>
    BY DEF Asks
  <1>2. PICK h \in Host, tag \in 1..version, new \in Bound, key \in Key :
          /\ op = "enroll" => address \in {NoAddress, new}
          /\ req' = [req EXCEPT ![c] = [op |-> op, host |-> h, new |-> new, key |-> key,
                                        tag |-> IF op = "get" THEN 0 ELSE tag, seen |-> NoEntry]]
          /\ wpc' = [wpc EXCEPT ![c] = IF op = "get" THEN "user" ELSE "reserve"]
    <2>1. PICK h \in Host, tag \in 1..version, new \in Bound, key \in Key :
            /\ Admitted(op, new, key)
            /\ req' = [req EXCEPT ![c] = [op |-> op, host |-> h, new |-> new, key |-> key,
                                          tag |-> IF op = "get" THEN 0 ELSE tag, seen |-> NoEntry]]
            /\ Next1(c, IF op = "get" THEN "user" ELSE "reserve")
      BY DEF Asks
    <2>2. op = "enroll" => address \in {NoAddress, new}
      BY <2>1 DEF Admitted
    <2> QED BY <2>1, <2>2 DEF Next1
  <1>3. tag \in Nat /\ tag <= version
    BY DEF WalletTyped
  <1>4. WalletTyped'
    BY <1>1, <1>2, <1>3 DEF WalletTyped
  <1>5. \A d \in Caller \ {c} : wpc'[d] = wpc[d] /\ req'[d] = req[d]
    BY <1>2 DEF WalletTyped
  <1>6. CallerSound(c)'
    <2>1. /\ req'[c].op = op /\ req'[c].host = h /\ req'[c].new = new
          /\ req'[c].tag \in {0, tag} /\ wpc'[c] \in {"user", "reserve"}
      BY <1>2 DEF WalletTyped
    <2> QED BY <1>1, <1>2, <1>3, <2>1 DEF CallerSound, WalletTyped
  <1>7. \A d \in Caller \ {c} : CallerSound(d)'
    BY <1>1, <1>4, <1>5, OtherCallers
  <1> QED BY <1>1, <1>4, <1>6, <1>7 DEF CacheSound, BalanceFresh, EnrolmentKeepsAddress

LEMMA ReserveInv == ASSUME WalletInv, NEW c \in Caller, Reserve(c) PROVE WalletInv'
  <1> USE WalletFacts DEF WalletInv
  <1>1. UNCHANGED <<transfer, relied>> /\ wpc[c] = "reserve" /\ CallerSound(c) /\ BalanceFresh'
    BY DEF Reserve, BalanceFresh
  <1>2. CASE ~Matches(c)
    <2>1. Ends(c) /\ UNCHANGED <<version, address, cache, replaced>>
      BY <1>2 DEF Reserve
    <2>2. WalletTyped'
      BY <1>1, <2>1 DEF WalletTyped, Ends
    <2>3. \A d \in Caller \ {c} : wpc'[d] = wpc[d] /\ req'[d] = req[d]
      BY <2>1 DEF WalletTyped, Ends
    <2>4. CallerSound(c)'
      BY <2>1 DEF WalletTyped, Ends, CallerSound
    <2> QED BY <1>1, <2>1, <2>2, <2>3, <2>4, OtherCallers DEF CacheSound, EnrolmentKeepsAddress
  <1>3. CASE Matches(c)
    <2>1. /\ version < MaxVersion /\ version' = version + 1 /\ address' = Rebound(c)
          /\ cache' = [cache EXCEPT ![req[c].host] = NoEntry]
          /\ replaced' = (replaced \/ (req[c].op = "enroll" /\ address \notin {NoAddress, req[c].new}))
          /\ \/ req[c].op = "transfer" /\ Next1(c, "user") /\ req' = [req EXCEPT ![c].tag = version']
             \/ Ends(c)
      BY <1>3 DEF Reserve
    <2>2. /\ version' \in 1..MaxVersion /\ version' \in Nat /\ version \in Nat
          /\ address' \in Bound
      BY <1>1, <2>1 DEF WalletTyped, Rebound
    <2>3. /\ req' \in [Caller -> [op : Ops, host : Host \cup {NoAddress}, tag : Nat, new : Bound,
                                  key : Key \cup {NoReq.key}, seen : Entries]]
          /\ wpc' \in [Caller -> {"idle", "reserve", "user", "load", "cache", "balance", "create", "complete"}]
          /\ \A d \in Caller \ {c} : wpc'[d] = wpc[d] /\ req'[d] = req[d]
      BY <2>1, <2>2 DEF WalletTyped, Next1, Ends
    <2>4. WalletTyped'
      BY <1>1, <2>1, <2>2, <2>3 DEF WalletTyped
    <2>5. CacheSound'
      <3> SUFFICES ASSUME NEW h \in Host PROVE cache'[h].tag <= cache'[h].loaded /\ cache'[h].loaded <= version'
        BY DEF CacheSound
      <3>1. cache'[h] = cache[h] \/ cache'[h] = NoEntry
        BY <2>1 DEF WalletTyped
      <3>2. cache[h].tag \in Nat /\ cache[h].loaded \in Nat
        BY DEF WalletTyped, Entries
      <3> QED BY <2>1, <2>2, <3>1, <3>2 DEF CacheSound
    <2>6. ~replaced'
      <3>1. req[c].op = "enroll" => address \in {NoAddress, req[c].new}
        BY <1>1, <1>3 DEF CallerSound, Matches
      <3> QED BY <2>1, <3>1 DEF EnrolmentKeepsAddress
    <2>7. CallerSound(c)'
      <3>1. CASE Ends(c)
        BY <3>1, <2>2 DEF WalletTyped, Ends, CallerSound
      <3>2. CASE Next1(c, "user") /\ req' = [req EXCEPT ![c].tag = version']
        <4>1. wpc'[c] = "user" /\ req'[c].host = req[c].host /\ req'[c].tag = version'
          BY <3>2 DEF WalletTyped, Next1
        <4> QED BY <1>1, <2>2, <4>1 DEF CallerSound
      <3> QED BY <2>1, <3>1, <3>2
    <2>8. \A d \in Caller \ {c} : CallerSound(d)'
      BY <2>1, <2>3, <2>4, OtherCallers
    <2> QED BY <1>1, <2>4, <2>5, <2>6, <2>7, <2>8 DEF EnrolmentKeepsAddress
  <1> QED BY <1>2, <1>3

(* A caller between its reservation and its row goes to step, and has seen e. *)
Reads(c, step, e) ==
    /\ wpc' = [wpc EXCEPT ![c] = step] /\ req' = [req EXCEPT ![c].seen = e]
    /\ wpc[c] \notin {"idle", "reserve"}
    /\ step = "load" => e.tag <= version
    /\ step = "cache" => e.tag <= e.loaded /\ e.loaded <= version
    /\ step \in {"cache", "balance"} => req[c].tag <= e.loaded

(* What it does there leaves the wallet alone. *)
LEMMA ReadsInv ==
  ASSUME WalletInv, NEW c \in Caller,
         FetchUser(c) \/ LoadAccount(c) \/ SetCache(c) \/ CheckTransfer(c) \/ CreateTransfer(c) \/ CompleteTransfer(c)
  PROVE  WalletInv'
  <1> USE WalletFacts DEF WalletInv
  <1>1. UNCHANGED <<version, address, replaced>> /\ version \in Nat
    BY DEF FetchUser, LoadAccount, SetCache, CheckTransfer, CreateTransfer, CompleteTransfer, WalletTyped
  <1>2. /\ CallerSound(c) /\ req[c].tag \in Nat /\ req[c].seen.tag \in Nat /\ req[c].seen.loaded \in Nat
        /\ \A h \in Host : cache[h].tag \in Nat /\ cache[h].loaded \in Nat
    BY DEF WalletTyped, Entries
  <1>3. transfer' \in [Key -> {"none", "pending", "completed"}]
    BY DEF FetchUser, LoadAccount, SetCache, CheckTransfer, CreateTransfer, CompleteTransfer, WalletTyped
  <1>4. /\ cache' \in [Host -> Entries] /\ CacheSound'
    <2>1. CASE SetCache(c)
      <3>1. /\ cache' = [cache EXCEPT ![req[c].host] = req[c].seen] /\ req[c].seen \in Entries
            /\ req[c].seen.tag <= req[c].seen.loaded /\ req[c].seen.loaded <= version
        BY <1>2, <2>1 DEF SetCache, CallerSound, WalletTyped
      <3> QED BY <1>1, <3>1 DEF CacheSound, WalletTyped
    <2>2. CASE UNCHANGED cache
      BY <1>1, <2>2 DEF CacheSound, WalletTyped
    <2> QED BY <2>1, <2>2 DEF FetchUser, LoadAccount, CheckTransfer, CreateTransfer, CompleteTransfer
  <1>5. BalanceFresh'
    <2>1. CASE CheckTransfer(c)
      BY <1>2, <2>1 DEF CheckTransfer, CallerSound, BalanceFresh
    <2>2. CASE UNCHANGED relied
      BY <2>2 DEF BalanceFresh
    <2> QED BY <2>1, <2>2 DEF FetchUser, LoadAccount, SetCache, CreateTransfer, CompleteTransfer
  <1>6. \/ Ends(c)
        \/ \E step \in {"user", "load", "cache", "balance", "create", "complete"}, e \in Entries : Reads(c, step, e)
    <2>1. CASE FetchUser(c)
      <3>1. CASE CacheHit(req[c].host) /\ req' = [req EXCEPT ![c].seen = cache[req[c].host]] /\ Next1(c, "balance")
        <4>1. /\ req[c].host \in Host /\ cache[req[c].host] \in Entries
              /\ req[c].tag <= cache[req[c].host].loaded
          BY <1>1, <1>2, <2>1, <3>1 DEF CallerSound, FetchUser, CacheHit, CacheSound, WalletTyped
        <4>2. Reads(c, "balance", cache[req[c].host])
          BY <2>1, <3>1, <4>1 DEF FetchUser, Next1, Reads
        <4> QED BY <4>1, <4>2
      <3>2. CASE req' = [req EXCEPT ![c].seen.tag = version] /\ Next1(c, "load")
        <4>1. PICK e : e = [req[c].seen EXCEPT !.tag = version]
          OBVIOUS
        <4>2. e \in Entries /\ e.tag = version
          BY <1>1, <4>1 DEF WalletTyped, Entries
        <4>3. req' = [req EXCEPT ![c].seen = e]
          BY <3>2, <4>1
        <4>4. wpc[c] = "user" /\ wpc' = [wpc EXCEPT ![c] = "load"]
          BY <2>1, <3>2 DEF FetchUser, Next1
        <4>5. Reads(c, "load", e)
          BY <1>1, <4>2, <4>3, <4>4 DEF Reads
        <4> QED BY <4>2, <4>5
      <3> QED BY <2>1, <3>1, <3>2 DEF FetchUser
    <2>2. CASE LoadAccount(c)
      <3>1. CASE req' = [req EXCEPT ![c].seen.loaded = version] /\ Next1(c, "cache")
        <4>0. PICK e : e = [req[c].seen EXCEPT !.loaded = version]
          OBVIOUS
        <4>1. req' = [req EXCEPT ![c].seen = e]
          BY <3>1, <4>0
        <4>2. e \in Entries /\ e.loaded = version /\ e.tag = req[c].seen.tag
          BY <1>1, <4>0 DEF WalletTyped, Entries
        <4>3. req[c].seen.tag <= version /\ req[c].tag <= version
          BY <1>2, <2>2 DEF CallerSound, LoadAccount
        <4>4. wpc[c] = "load" /\ wpc' = [wpc EXCEPT ![c] = "cache"]
          BY <2>2, <3>1 DEF LoadAccount, Next1
        <4>5. Reads(c, "cache", e)
          BY <1>1, <4>1, <4>2, <4>3, <4>4 DEF Reads
        <4> QED BY <4>2, <4>5
      <3> QED BY <2>2, <3>1 DEF LoadAccount
    <2>3. ASSUME UNCHANGED req PROVE req' = [req EXCEPT ![c].seen = req[c].seen] /\ req[c].seen \in Entries
      BY <2>3 DEF WalletTyped
    <2>4. CASE SetCache(c)
      <3>1. req[c].tag <= req[c].seen.loaded
        BY <1>2, <2>4 DEF CallerSound, SetCache
      <3> QED BY <2>3, <2>4, <3>1 DEF SetCache, Next1, Reads
    <2>5. CASE CheckTransfer(c) \/ CreateTransfer(c) \/ CompleteTransfer(c)
      BY <2>3, <2>5 DEF CheckTransfer, CreateTransfer, CompleteTransfer, Next1, Reads
    <2> QED BY <2>1, <2>2, <2>4, <2>5
  <1>7. CASE Ends(c)
    <2>1. WalletTyped' /\ \A d \in Caller \ {c} : wpc'[d] = wpc[d] /\ req'[d] = req[d]
      BY <1>1, <1>3, <1>4, <1>7 DEF WalletTyped, Ends
    <2>2. CallerSound(c)'
      BY <1>1, <1>7 DEF WalletTyped, Ends, CallerSound
    <2> QED BY <1>1, <1>4, <1>5, <2>1, <2>2, OtherCallers DEF EnrolmentKeepsAddress
  <1>8. ASSUME NEW step \in {"user", "load", "cache", "balance", "create", "complete"}, NEW e \in Entries,
               Reads(c, step, e)
        PROVE  WalletInv'
    <2>1. WalletTyped' /\ \A d \in Caller \ {c} : wpc'[d] = wpc[d] /\ req'[d] = req[d]
      BY <1>1, <1>3, <1>4, <1>8 DEF WalletTyped, Reads
    <2>2. CallerSound(c)'
      <3>1. wpc'[c] = step /\ req'[c].host = req[c].host /\ req'[c].tag = req[c].tag /\ req'[c].seen = e
        BY <1>8 DEF WalletTyped, Reads
      <3> QED BY <1>1, <1>2, <1>8, <3>1 DEF CallerSound, Reads
    <2> QED BY <1>1, <1>4, <1>5, <2>1, <2>2, OtherCallers DEF EnrolmentKeepsAddress
  <1> QED BY <1>6, <1>7, <1>8

LEMMA WalletNextInv == WalletInv /\ [WalletNext]_walletVars => WalletInv'
  <1> SUFFICES ASSUME WalletInv, [WalletNext]_walletVars PROVE WalletInv'
    OBVIOUS
  <1>1. CASE UNCHANGED walletVars
    BY <1>1 DEF walletVars, WalletInv, WalletTyped, CacheSound, BalanceFresh, EnrolmentKeepsAddress, CallerSound
  <1> QED BY <1>1, AsksInv, ReserveInv, ReadsInv DEF WalletNext, Request, postTransfers, Ops

(* reserveWalletVersion, balanceCache and enrollClientGeneratedWallet: for any     *)
(* processes and requests a transfer relies on a balance that was read after its   *)
(* version was reserved, and an enrolment overwrites no other address.             *)
THEOREM WalletsAreSound == WalletSpec => []WalletSound
  <1>1. WalletInv => WalletSound
    BY DEF WalletInv, WalletTyped, CacheSound, CallerSound, WalletSound, WalletTypeOK
  <1> QED BY <1>1, WalletInitInv, WalletNextInv, PTL DEF WalletSpec

-----------------------------------------------------------------------------
(* Investment withdrawals: one sweep at most is about to announce a request,   *)
(* and it is the one that made it available.                                   *)

SweepRecords == [at : {"rest", "read", "next", "update", "publish"}, now : 0..MaxClock,
                 left : SUBSET Withdraw, cur : SUBSET Withdraw, tries : 0..(SweepTries - 1)]

InvestmentTyped ==
    /\ clock \in 0..MaxClock /\ mishaps \in 0..MaxMishaps
    /\ asked \in [Withdraw -> Nat] /\ availableAt \in [Withdraw -> Nat] /\ notices \in [Withdraw -> Nat]
    /\ wstatus \in [Withdraw -> {"none", "timed", "requested", "available", "refused"}]
    /\ untold \subseteq Withdraw
    /\ sweep \in [Sweep -> SweepRecords]

SweepSound(s) ==
    /\ sweep[s].now <= clock
    /\ sweep[s].cur # {} <=> sweep[s].at \in {"update", "publish"}
    /\ \A v, w \in sweep[s].cur : v = w

Publishing(s, w) == sweep[s].at = "publish" /\ w \in sweep[s].cur

RequestSound(w) ==
    /\ wstatus[w] # "none" => availableAt[w] = asked[w] + Delay
    /\ wstatus[w] = "available" => availableAt[w] <= clock
    /\ wstatus[w] # "available" => notices[w] = 0 /\ \A s \in Sweep : ~Publishing(s, w)
    /\ notices[w] <= 1
    /\ \A s \in Sweep : Publishing(s, w) => notices[w] = 0 /\ \A r \in Sweep \ {s} : ~Publishing(r, w)
    /\ wstatus[w] = "available" => notices[w] = 1 \/ w \in untold \/ \E s \in Sweep : Publishing(s, w)

InvestmentInv ==
    /\ InvestmentTyped
    /\ \A s \in Sweep : SweepSound(s)
    /\ \A w \in Withdraw : RequestSound(w)

LEMMA InvestmentFacts ==
  /\ Delay \in Nat \ {0} /\ MaxClock \in Nat /\ SweepTries \in Nat \ {0} /\ MaxMishaps \in Nat
  /\ Resting \in SweepRecords /\ Resting.at = "rest" /\ Resting.cur = {} /\ Resting.now = 0
  BY InvestmentAssumption DEF InvestmentAssumption, Resting, SweepRecords

LEMMA InvestmentInitInv == InvestmentInit => InvestmentInv
  <1> USE InvestmentFacts DEF InvestmentInit
  <1> SUFFICES ASSUME InvestmentInit PROVE InvestmentInv
    OBVIOUS
  <1>1. InvestmentTyped
    BY DEF InvestmentTyped
  <1>2. \A s \in Sweep : SweepSound(s)
    BY DEF SweepSound
  <1>3. \A w \in Withdraw : RequestSound(w)
    BY DEF RequestSound, Publishing
  <1> QED BY <1>1, <1>2, <1>3 DEF InvestmentInv

LEMMA RequestsInv ==
  ASSUME InvestmentInv, ClockTicks \/ \E w \in Withdraw : getInvestmentWithdrawalTiming(w) \/ postInvestmentWithdrawRequest(w)
  PROVE  InvestmentInv'
  <1> USE InvestmentFacts DEF InvestmentInv
  <1>1. UNCHANGED <<sweep, notices, untold, mishaps>> /\ clock <= clock' /\ clock' \in 0..MaxClock
    BY DEF ClockTicks, getInvestmentWithdrawalTiming, postInvestmentWithdrawRequest, InvestmentTyped
  <1>2. \A s \in Sweep : SweepSound(s)'
    <2>1. \A s \in Sweep : sweep[s].now \in Nat
      BY DEF InvestmentTyped, SweepRecords
    <2> QED BY <1>1, <2>1 DEF SweepSound, InvestmentTyped
  <1>3. CASE ClockTicks
    <2>1. UNCHANGED <<asked, availableAt, wstatus, sweep, notices, untold, mishaps>>
      BY <1>3 DEF ClockTicks
    <2>2. InvestmentTyped'
      BY <1>1, <2>1 DEF InvestmentTyped
    <2>3. \A w \in Withdraw : availableAt[w] \in Nat /\ (availableAt[w] <= clock => availableAt[w] <= clock')
      BY <1>1 DEF InvestmentTyped
    <2>4. \A w \in Withdraw : RequestSound(w)'
      BY <2>1, <2>3 DEF RequestSound, Publishing
    <2> QED BY <1>2, <2>2, <2>4
  <1>4. ASSUME NEW w \in Withdraw, getInvestmentWithdrawalTiming(w) PROVE InvestmentInv'
    <2>1. /\ wstatus[w] = "none" /\ wstatus' = [wstatus EXCEPT ![w] = "timed"]
          /\ asked' = [asked EXCEPT ![w] = clock] /\ availableAt' = [availableAt EXCEPT ![w] = clock + Delay]
          /\ clock' = clock
      BY <1>4 DEF getInvestmentWithdrawalTiming
    <2>2. InvestmentTyped'
      BY <1>1, <2>1 DEF InvestmentTyped
    <2>3. \A v \in Withdraw : RequestSound(v)'
      BY <1>1, <2>1 DEF InvestmentTyped, RequestSound, Publishing
    <2> QED BY <1>2, <2>2, <2>3
  <1>5. ASSUME NEW w \in Withdraw, postInvestmentWithdrawRequest(w) PROVE InvestmentInv'
    <2>1. /\ wstatus[w] = "timed" /\ UNCHANGED <<clock, asked, availableAt>>
      BY <1>5 DEF postInvestmentWithdrawRequest
    <2>2. PICK t \in {"requested", "refused"} : wstatus' = [wstatus EXCEPT ![w] = t]
      BY <1>5 DEF postInvestmentWithdrawRequest
    <2>3. InvestmentTyped'
      BY <1>1, <2>1, <2>2 DEF InvestmentTyped
    <2>4. \A v \in Withdraw : RequestSound(v)'
      BY <1>1, <2>1, <2>2 DEF InvestmentTyped, RequestSound, Publishing
    <2> QED BY <1>2, <2>3, <2>4
  <1> QED BY <1>3, <1>4, <1>5

(* A step of sweep s to r that does not start or end an announcement, nor a row. *)
LEMMA QuietSweep ==
  ASSUME InvestmentInv, NEW s \in Sweep, NEW r \in SweepRecords, Does(s, r),
         UNCHANGED <<clock, asked, availableAt, wstatus, notices, untold>>, mishaps' \in 0..MaxMishaps,
         r.now <= clock, r.cur # {} <=> r.at \in {"update", "publish"}, \A v, w \in r.cur : v = w,
         r.at = "publish" \/ sweep[s].at = "publish" => r.at = sweep[s].at /\ r.cur = sweep[s].cur
  PROVE  InvestmentInv'
  <1> USE DEF InvestmentInv
  <1>1. /\ sweep' \in [Sweep -> SweepRecords] /\ sweep'[s] = r
        /\ \A q \in Sweep \ {s} : sweep'[q] = sweep[q]
    BY DEF InvestmentTyped, Does
  <1>2. InvestmentTyped'
    BY <1>1 DEF InvestmentTyped
  <1>3. \A q \in Sweep : SweepSound(q)'
    BY <1>1 DEF SweepSound
  <1>4. \A q \in Sweep, w \in Withdraw : Publishing(q, w)' <=> Publishing(q, w)
    BY <1>1 DEF Publishing
  <1>5. \A w \in Withdraw : RequestSound(w)'
    BY <1>4 DEF RequestSound
  <1> QED BY <1>2, <1>3, <1>5

(* The sweep goes on with the next record, from an update that announces nothing. *)
LEMMA DoneRecord ==
  ASSUME InvestmentInv, NEW s \in Sweep
  PROVE  /\ [sweep[s] EXCEPT !.at = "next", !.cur = {}, !.tries = 0] \in SweepRecords
         /\ [sweep[s] EXCEPT !.at = "next", !.cur = {}, !.tries = 0].at = "next"
         /\ [sweep[s] EXCEPT !.at = "next", !.cur = {}, !.tries = 0].cur = {}
         /\ [sweep[s] EXCEPT !.at = "next", !.cur = {}, !.tries = 0].now = sweep[s].now
  <1>1. sweep[s] \in SweepRecords /\ 0 \in 0..(SweepTries - 1)
    BY InvestmentFacts DEF InvestmentInv, InvestmentTyped
  <1> QED BY <1>1 DEF SweepRecords

LEMMA SweepsInv ==
  ASSUME InvestmentInv, NEW s \in Sweep, StartSweep(s) \/ getReadyInvestmentWithdrawalBatch(s) \/ NextRecord(s)
  PROVE  InvestmentInv'
  <1> USE InvestmentFacts
  <1>0. /\ sweep[s] \in SweepRecords /\ SweepSound(s) /\ clock \in 0..MaxClock /\ mishaps \in 0..MaxMishaps
        /\ UNCHANGED <<clock, asked, availableAt, wstatus, notices, untold, mishaps>>
    BY DEF InvestmentInv, InvestmentTyped, StartSweep, getReadyInvestmentWithdrawalBatch, NextRecord
  <1>1. CASE StartSweep(s)
    <2>1. PICK r : r = [Resting EXCEPT !.at = "read", !.now = clock]
      OBVIOUS
    <2>2. r \in SweepRecords /\ r.at = "read" /\ r.now = clock /\ r.cur = {}
      BY <1>0, <2>1 DEF SweepRecords, Resting
    <2>3. sweep[s].at = "rest" /\ Does(s, r)
      BY <1>1, <2>1 DEF StartSweep
    <2>4. r.now <= clock
      BY <1>0, <2>2
    <2> QED BY <1>0, <2>2, <2>3, <2>4, QuietSweep
  <1>2. CASE getReadyInvestmentWithdrawalBatch(s)
    <2>1. PICK r : r = [sweep[s] EXCEPT !.at = "next", !.left = Ready(sweep[s].now)]
      OBVIOUS
    <2>2. r \in SweepRecords /\ r.at = "next" /\ r.now = sweep[s].now /\ r.cur = sweep[s].cur
      BY <1>0, <2>1 DEF SweepRecords, Ready
    <2>3. r.cur = {} /\ sweep[s].at = "read"
      BY <1>0, <1>2, <2>2 DEF SweepSound, getReadyInvestmentWithdrawalBatch
    <2> QED BY <1>0, <1>2, <2>1, <2>2, <2>3, QuietSweep DEF getReadyInvestmentWithdrawalBatch, SweepSound
  <1>3. CASE NextRecord(s)
    <2>0. sweep[s].at = "next"
      BY <1>3 DEF NextRecord
    <2>1. CASE Does(s, Resting)
      BY <1>0, <2>0, <2>1, QuietSweep
    <2>2. ASSUME NEW w \in sweep[s].left,
                 Does(s, [sweep[s] EXCEPT !.at = "update", !.left = @ \ {w}, !.cur = {w}])
          PROVE  InvestmentInv'
      <3>1. PICK r : r = [sweep[s] EXCEPT !.at = "update", !.left = @ \ {w}, !.cur = {w}]
        OBVIOUS
      <3>2. r \in SweepRecords /\ r.at = "update" /\ r.now = sweep[s].now /\ r.cur = {w}
        BY <1>0, <3>1 DEF SweepRecords
      <3> QED BY <1>0, <2>0, <2>2, <3>1, <3>2, QuietSweep DEF SweepSound
    <2> QED BY <1>3, <2>1, <2>2 DEF NextRecord
  <1> QED BY <1>1, <1>2, <1>3

(* Sweep s makes the current request available: nobody else has, nor will. *)
LEMMA UpdateInv == ASSUME InvestmentInv, NEW s \in Sweep, NEW w \in Withdraw, MakeAvailable(s, w) PROVE InvestmentInv'
  <1> USE InvestmentFacts
  <1>0. /\ InvestmentTyped /\ sweep[s] \in SweepRecords /\ SweepSound(s) /\ sweep[s].at = "update" /\ w \in sweep[s].cur
        /\ UNCHANGED <<clock, asked, availableAt, notices>>
    BY DEF InvestmentInv, InvestmentTyped, MakeAvailable
  <1>1. PICK d : d = [sweep[s] EXCEPT !.at = "next", !.cur = {}, !.tries = 0]
    OBVIOUS
  <1>2. d \in SweepRecords /\ d.at = "next" /\ d.cur = {} /\ d.now = sweep[s].now
    BY <1>1, DoneRecord
  <1>3. PICK p : p = [sweep[s] EXCEPT !.at = "publish", !.tries = 0]
    OBVIOUS
  <1>4. p \in SweepRecords /\ p.at = "publish" /\ p.cur = sweep[s].cur /\ p.now = sweep[s].now
    <2>1. 0 \in 0..(SweepTries - 1)
      OBVIOUS
    <2> HIDE InvestmentFacts
    <2> QED BY <1>0, <1>3, <2>1 DEF SweepRecords
  <1>5. PICK a : a = [sweep[s] EXCEPT !.tries = @ + 1]
    OBVIOUS
  <1>6. /\ sweep[s].tries + 1 < SweepTries => a \in SweepRecords
        /\ a.at = "update" /\ a.cur = sweep[s].cur /\ a.now = sweep[s].now
    BY <1>0, <1>5 DEF SweepRecords
  <1>7. \/ StillReady(s, w) /\ wstatus' = [wstatus EXCEPT ![w] = "available"] /\ Does(s, p) /\ UNCHANGED <<untold, mishaps>>
        \/ Does(s, d) /\ UNCHANGED <<wstatus, untold, mishaps>>
        \/ /\ Mishap
           /\ \/ UNCHANGED <<wstatus, untold>>
              \/ /\ StillReady(s, w)
                 /\ wstatus' = [wstatus EXCEPT ![w] = "available"] /\ untold' = untold \cup {w}
           /\ (sweep[s].tries + 1 < SweepTries /\ Does(s, a)) \/ Does(s, d)
    BY <1>1, <1>3, <1>5 DEF MakeAvailable, Done
  <1>8. mishaps' \in 0..MaxMishaps
    BY <1>0, <1>7 DEF InvestmentTyped, Mishap
  <1>9. CASE UNCHANGED <<wstatus, untold>> /\ ((sweep[s].tries + 1 < SweepTries /\ Does(s, a)) \/ Does(s, d))
    <2>1. CASE Does(s, d)
      BY <1>0, <1>2, <1>8, <1>9, <2>1, QuietSweep DEF SweepSound
    <2>2. CASE sweep[s].tries + 1 < SweepTries /\ Does(s, a)
      BY <1>0, <1>6, <1>8, <1>9, <2>2, QuietSweep DEF SweepSound
    <2> QED BY <1>9, <2>1, <2>2
  <1>10. ASSUME StillReady(s, w), wstatus' = [wstatus EXCEPT ![w] = "available"], NEW r \in SweepRecords, Does(s, r),
                r.now = sweep[s].now, r.cur # {} <=> r.at \in {"update", "publish"}, r.cur \subseteq sweep[s].cur,
                r.at = "publish" => r.cur = sweep[s].cur /\ untold' = untold,
                r.at # "publish" => untold' = untold \cup {w}
         PROVE  InvestmentInv'
    <2>1. /\ sweep' \in [Sweep -> SweepRecords] /\ sweep'[s] = r
          /\ \A q \in Sweep \ {s} : sweep'[q] = sweep[q]
      BY <1>0, <1>10 DEF InvestmentTyped, Does
    <2>2. InvestmentTyped'
      BY <1>0, <1>8, <1>10, <2>1 DEF InvestmentTyped
    <2>3. \A q \in Sweep : SweepSound(q)'
      BY <1>0, <1>10, <2>1 DEF InvestmentInv, SweepSound
    <2>4. wstatus[w] = "requested" /\ availableAt[w] <= sweep[s].now /\ sweep[s].now <= clock
      BY <1>0, <1>10 DEF StillReady, Ready, SweepSound
    <2>5. RequestSound(w) /\ notices[w] = 0 /\ \A q \in Sweep : ~Publishing(q, w)
      BY <2>4 DEF InvestmentInv, RequestSound
    <2>6. \A v \in Withdraw \ {w}, q \in Sweep : Publishing(q, v)' <=> Publishing(q, v)
      BY <1>0, <1>10, <2>1 DEF Publishing, SweepSound
    <2>7. \A v \in Withdraw \ {w} : RequestSound(v)'
      BY <1>0, <1>10, <2>6 DEF InvestmentInv, InvestmentTyped, RequestSound
    <2>8. RequestSound(w)'
      <3>1. wstatus'[w] = "available" /\ availableAt[w] <= clock
        BY <1>0, <1>10, <2>4 DEF InvestmentTyped, SweepRecords
      <3>2. \A q \in Sweep \ {s} : ~Publishing(q, w)'
        BY <2>1, <2>5 DEF Publishing
      <3>3. Publishing(s, w)' \/ w \in untold'
        BY <1>0, <1>10, <2>1 DEF Publishing
      <3>4. availableAt[w] = asked[w] + Delay
        BY <2>4, <2>5 DEF RequestSound
      <3> QED BY <1>0, <2>5, <3>1, <3>2, <3>3, <3>4 DEF RequestSound
    <2> QED BY <2>2, <2>3, <2>7, <2>8 DEF InvestmentInv
  <1>11. CASE StillReady(s, w) /\ wstatus' = [wstatus EXCEPT ![w] = "available"] /\ Does(s, p) /\ UNCHANGED <<untold, mishaps>>
    BY <1>0, <1>4, <1>10, <1>11
  <1>12. CASE /\ StillReady(s, w) /\ wstatus' = [wstatus EXCEPT ![w] = "available"] /\ untold' = untold \cup {w}
              /\ (sweep[s].tries + 1 < SweepTries /\ Does(s, a)) \/ Does(s, d)
    <2>1. CASE Does(s, d)
      BY <1>2, <1>10, <1>12, <2>1
    <2>2. CASE sweep[s].tries + 1 < SweepTries /\ Does(s, a)
      BY <1>0, <1>6, <1>10, <1>12, <2>2
    <2> QED BY <1>12, <2>1, <2>2
  <1> QED BY <1>7, <1>9, <1>11, <1>12

(* The announcement ends: published once, or lost with its retries or its process. *)
LEMMA AnnounceInv ==
  ASSUME InvestmentInv, NEW s \in Sweep, NEW r \in SweepRecords, Does(s, r), NEW w \in Withdraw, Publishing(s, w),
         r.now <= clock, r.at \notin {"update", "publish"}, r.cur = {},
         UNCHANGED <<clock, asked, availableAt, wstatus>>, mishaps' \in 0..MaxMishaps,
         \/ notices' = [notices EXCEPT ![w] = @ + 1] /\ UNCHANGED untold
         \/ untold' = untold \cup {w} /\ UNCHANGED notices
  PROVE  InvestmentInv'
  <1> USE InvestmentFacts
  <1>0. InvestmentTyped /\ SweepSound(s) /\ RequestSound(w)
    BY DEF InvestmentInv
  <1>1. /\ sweep' \in [Sweep -> SweepRecords] /\ sweep'[s] = r
        /\ \A q \in Sweep \ {s} : sweep'[q] = sweep[q]
    BY <1>0 DEF InvestmentTyped, Does
  <1>2. notices' \in [Withdraw -> Nat] /\ untold' \subseteq Withdraw
        /\ \A v \in Withdraw \ {w} : notices'[v] = notices[v] /\ (v \in untold' <=> v \in untold)
    BY <1>0 DEF InvestmentTyped
  <1>3. InvestmentTyped'
    BY <1>0, <1>1, <1>2 DEF InvestmentTyped
  <1>4. \A q \in Sweep : SweepSound(q)'
    BY <1>1 DEF InvestmentInv, SweepSound
  <1>5. \A v \in Withdraw \ {w}, q \in Sweep : Publishing(q, v)' <=> Publishing(q, v)
    BY <1>0, <1>1 DEF Publishing, SweepSound
  <1>6. \A v \in Withdraw \ {w} : RequestSound(v)'
    BY <1>2, <1>5 DEF InvestmentInv, RequestSound
  <1>7. RequestSound(w)'
    <2>1. notices[w] = 0 /\ wstatus[w] = "available" /\ \A q \in Sweep \ {s} : ~Publishing(q, w)
      BY <1>0 DEF RequestSound
    <2>2. \A q \in Sweep : ~Publishing(q, w)'
      BY <1>1, <2>1 DEF Publishing
    <2>3. notices'[w] \in {0, 1} /\ (notices'[w] = 1 \/ w \in untold')
      BY <1>0, <2>1 DEF InvestmentTyped
    <2> QED BY <1>0, <2>1, <2>2, <2>3 DEF RequestSound
  <1> QED BY <1>3, <1>4, <1>6, <1>7 DEF InvestmentInv

LEMMA PublishInv == ASSUME InvestmentInv, NEW s \in Sweep, NEW w \in Withdraw, PublishReady(s, w) PROVE InvestmentInv'
  <1> USE InvestmentFacts
  <1>0. /\ InvestmentTyped /\ sweep[s] \in SweepRecords /\ SweepSound(s) /\ Publishing(s, w) /\ sweep[s].at = "publish"
        /\ UNCHANGED <<clock, asked, availableAt, wstatus>>
    BY DEF InvestmentInv, InvestmentTyped, PublishReady, Publishing
  <1>1. PICK d : d = [sweep[s] EXCEPT !.at = "next", !.cur = {}, !.tries = 0]
    OBVIOUS
  <1>2. d \in SweepRecords /\ d.at = "next" /\ d.cur = {} /\ d.now = sweep[s].now
    BY <1>1, DoneRecord
  <1>3. PICK a : a = [sweep[s] EXCEPT !.tries = @ + 1]
    OBVIOUS
  <1>4. /\ sweep[s].tries + 1 < SweepTries => a \in SweepRecords
        /\ a.at = "publish" /\ a.cur = sweep[s].cur /\ a.now = sweep[s].now
    BY <1>0, <1>3 DEF SweepRecords
  <1>5. \/ notices' = [notices EXCEPT ![w] = @ + 1] /\ Does(s, d) /\ UNCHANGED <<untold, mishaps>>
        \/ Mishap /\ UNCHANGED notices /\ sweep[s].tries + 1 < SweepTries /\ Does(s, a) /\ UNCHANGED untold
        \/ Mishap /\ UNCHANGED notices /\ Does(s, d) /\ untold' = untold \cup {w}
    BY <1>1, <1>3 DEF PublishReady, Done
  <1>6. mishaps' \in 0..MaxMishaps
    BY <1>0, <1>5 DEF InvestmentTyped, Mishap
  <1>7. CASE Does(s, d) /\ (\/ notices' = [notices EXCEPT ![w] = @ + 1] /\ UNCHANGED untold
                            \/ untold' = untold \cup {w} /\ UNCHANGED notices)
    BY <1>0, <1>2, <1>6, <1>7, AnnounceInv DEF SweepSound
  <1>8. CASE UNCHANGED <<notices, untold>> /\ sweep[s].tries + 1 < SweepTries /\ Does(s, a)
    BY <1>0, <1>4, <1>6, <1>8, QuietSweep DEF SweepSound
  <1> QED BY <1>5, <1>7, <1>8

LEMMA SweepDiesInv == ASSUME InvestmentInv, NEW s \in Sweep, SweepDies(s) PROVE InvestmentInv'
  <1> USE InvestmentFacts
  <1>0. /\ InvestmentTyped /\ sweep[s] \in SweepRecords /\ SweepSound(s) /\ Does(s, Resting)
        /\ UNCHANGED <<clock, asked, availableAt, wstatus, notices>>
        /\ untold' = IF sweep[s].at = "publish" THEN untold \cup sweep[s].cur ELSE untold
        /\ mishaps' \in 0..MaxMishaps /\ Resting.now <= clock
    BY DEF InvestmentInv, InvestmentTyped, SweepDies, Mishap
  <1>1. CASE sweep[s].at = "publish"
    <2>1. PICK w \in Withdraw : w \in sweep[s].cur
      BY <1>0, <1>1 DEF SweepSound, SweepRecords
    <2>2. sweep[s].cur = {w} /\ Publishing(s, w)
      BY <1>0, <1>1, <2>1 DEF SweepSound, Publishing
    <2> QED BY <1>0, <1>1, <2>2, AnnounceInv
  <1>2. CASE sweep[s].at # "publish"
    BY <1>0, <1>2, QuietSweep
  <1> QED BY <1>1, <1>2

LEMMA InvestmentNextInv == InvestmentInv /\ [InvestmentNext]_investmentVars => InvestmentInv'
  <1> SUFFICES ASSUME InvestmentInv, [InvestmentNext]_investmentVars PROVE InvestmentInv'
    OBVIOUS
  <1>1. CASE UNCHANGED investmentVars
    <2>1. UNCHANGED <<clock, asked, availableAt, wstatus, sweep, notices, untold, mishaps>>
      BY <1>1 DEF investmentVars
    <2>2. InvestmentTyped' /\ \A s \in Sweep : SweepSound(s)'
      BY <2>1 DEF InvestmentInv, InvestmentTyped, SweepSound
    <2>3. \A w \in Withdraw : RequestSound(w)'
      BY <2>1 DEF InvestmentInv, RequestSound, Publishing
    <2> QED BY <2>2, <2>3 DEF InvestmentInv
  <1> QED BY <1>1, RequestsInv, SweepsInv, UpdateInv, PublishInv, SweepDiesInv DEF InvestmentNext

(* investmentWithdrawalJob: however many sweeps overlap, retry and die, a         *)
(* withdrawal is announced at most once and not before its delay has passed, and  *)
(* no announcement is forgotten without a failure.                                *)
THEOREM AnnouncedAtMostOnce == InvestmentSpec => []AnnouncedOnce
  <1>1. InvestmentInv => AnnouncedOnce
    <2> SUFFICES ASSUME InvestmentInv PROVE AnnouncedOnce
      OBVIOUS
    <2>1. InvestmentTypeOK
      BY InvestmentFacts DEF InvestmentInv, InvestmentTyped, InvestmentTypeOK, SweepSound, SweepRecords
    <2>2. ASSUME NEW w \in Withdraw
          PROVE  /\ notices[w] <= 1
                 /\ wstatus[w] = "available" =>
                       /\ clock >= asked[w] + Delay
                       /\ notices[w] = 1 \/ w \in untold
                          \/ \E s \in Sweep : sweep[s].at = "publish" /\ w \in sweep[s].cur
      <3>1. RequestSound(w) /\ clock \in Nat /\ asked[w] \in Nat
        BY InvestmentFacts DEF InvestmentInv, InvestmentTyped
      <3>2. wstatus[w] = "available" => clock >= asked[w] + Delay
        BY <3>1, InvestmentFacts DEF RequestSound
      <3> QED BY <3>1, <3>2 DEF RequestSound, Publishing
    <2> QED BY <2>1, <2>2 DEF AnnouncedOnce
  <1> QED BY <1>1, InvestmentInitInv, InvestmentNextInv, PTL DEF InvestmentSpec

-----------------------------------------------------------------------------
(* Chain calls: a call signs a new transaction only when the one before can    *)
(* never be applied, so the network holds and the ledger has one of each call. *)

ChainTyped == ChainCallsTypeOK /\ sequence \in Nat

OneEach ==
    /\ \A t \in ledger : t[2] = number[t[1]]
    /\ \A m \in mempool : m[2] = number[m[1]]
    /\ \A t, u \in ledger : t[1] = u[1] => t = u

Unsent(c) == (\A t \in ledger : t[1] # c) /\ (\A m \in mempool : m[1] # c)
Void(c)   == Executed(c) = {} /\ <<c, number[c]>> \notin mempool

CallSound(c) ==
    /\ cpc[c] \in {"new", "load", "simulate"} => Unsent(c)
    /\ cpc[c] = "ok" => Executed(c) # {}
    /\ cpc[c] = "error" /\ c \notin givenUp \cup unwritten => Void(c)
    /\ record[c] = "completed" => Executed(c) # {}
    /\ record[c] = "failed" => cpc[c] = "done" /\ (c \notin givenUp \cup unwritten => Void(c))

ChainInv == ChainTyped /\ OneEach /\ \A c \in Call : CallSound(c)

LEMMA ChainFacts == MaxSends \in Nat \ {0} /\ MaxRounds \in Nat \ {0} /\ MaxLosses \in Nat
  BY ChainCallsAssumption DEF ChainCallsAssumption

LEMMA ChainInitInv == ChainCallsInit => ChainInv
  BY ChainFacts DEF ChainCallsInit, ChainInv, ChainTyped, ChainCallsTypeOK, Numbers, Places, OneEach, CallSound,
     Unsent, Void, Executed

(* The members of the network, as tuples. *)
LEMMA NetworkFacts ==
  ASSUME ChainInv
  PROVE  /\ \A m \in mempool : m[1] \in Call /\ m[2] = sequence + 1 /\ m = <<m[1], m[2]>> /\ number[m[1]] = sequence + 1
         /\ \A t \in ledger : t[1] \in Call /\ t[2] \in 1..sequence /\ t[3] \in BOOLEAN
         /\ sequence \in Nat
  BY DEF ChainInv, ChainTyped, ChainCallsTypeOK, OneEach

(* A step of c that leaves the network and the numbers alone concerns c only. *)
LEMMA LocalInv ==
  ASSUME ChainInv, NEW c \in Call, ChainCallsTypeOK', UNCHANGED <<network, number>>,
         \A d \in Call \ {c} : cpc'[d] = cpc[d] /\ record'[d] = record[d],
         givenUp \subseteq givenUp', unwritten \subseteq unwritten', CallSound(c)'
  PROVE  ChainInv'
  <1>1. UNCHANGED <<sequence, mempool, ledger, number>>
    BY DEF network
  <1>2. ChainTyped' /\ OneEach'
    BY <1>1 DEF ChainInv, ChainTyped, OneEach
  <1>3. \A d \in Call \ {c} : CallSound(d)'
    BY <1>1 DEF ChainInv, CallSound, Unsent, Void, Executed
  <1> QED BY <1>2, <1>3 DEF ChainInv

(* What follows for c when it moves to another place without a result. *)
LEMMA BeginInv == ASSUME ChainInv, NEW c \in Call, BeginCall(c) \/ simulateTransactionWithRetry(c) PROVE ChainInv'
  <1> USE ChainFacts
  <1>1. /\ UNCHANGED <<callKind, number, sends, rounds, network, losses, marks>>
        /\ UNCHANGED <<givenUp, unwritten, sequence, mempool, ledger>>
        /\ cpc[c] \in {"new", "simulate"} /\ CallSound(c)
    BY DEF BeginCall, simulateTransactionWithRetry, Moves, network, marks, ChainInv
  <1>2. PICK to \in {"load", "send", "error"}, r \in {"none", "pending", record[c]} :
          /\ cpc' = [cpc EXCEPT ![c] = to] /\ record' = [record EXCEPT ![c] = r]
    <2>1. record = [record EXCEPT ![c] = record[c]]
      BY DEF ChainInv, ChainTyped, ChainCallsTypeOK
    <2>2. CASE BeginCall(c)
      BY <2>2 DEF BeginCall, Moves
    <2>3. CASE simulateTransactionWithRetry(c)
      BY <2>1, <2>3 DEF simulateTransactionWithRetry, Moves
    <2> QED BY <2>2, <2>3
  <1>3. /\ cpc' \in [Call -> Places] /\ cpc'[c] = to
        /\ record' \in [Call -> {"none", "pending", "completed", "failed"}] /\ record'[c] = r
        /\ \A d \in Call \ {c} : cpc'[d] = cpc[d] /\ record'[d] = record[d]
    BY <1>2 DEF ChainInv, ChainTyped, ChainCallsTypeOK, Places
  <1>4. ChainCallsTypeOK'
    BY <1>1, <1>3 DEF ChainInv, ChainTyped, ChainCallsTypeOK, Numbers
  <1>5. Unsent(c) /\ Void(c) /\ record[c] \notin {"completed", "failed"}
    <2>1. Unsent(c)
      BY <1>1 DEF CallSound
    <2>2. Void(c)
      BY <2>1 DEF Unsent, Void, Executed
    <2> QED BY <1>1, <2>1, <2>2 DEF CallSound, Unsent, Executed
  <1>6. CallSound(c)'
    BY <1>1, <1>3, <1>5 DEF CallSound, Unsent, Void, Executed
  <1> QED BY <1>1, <1>3, <1>4, <1>6, LocalInv

LEMMA AccountInv == ASSUME ChainInv, NEW c \in Call, getAccount(c) PROVE ChainInv'
  <1> USE ChainFacts
  <1>1. /\ UNCHANGED <<callKind, sends, rounds, record, givenUp, unwritten, sequence, mempool, ledger>>
        /\ cpc[c] = "load" /\ CallSound(c) /\ Unsent(c) /\ sequence \in Nat
        /\ record[c] \notin {"completed", "failed"}
    <2>1. cpc[c] = "load" /\ CallSound(c) /\ Unsent(c)
      BY DEF getAccount, Moves, ChainInv, CallSound
    <2> QED BY <2>1 DEF getAccount, network, marks, ChainInv, ChainTyped, CallSound, Unsent, Executed
  <1>2. PICK to \in {"send", "simulate", "error"}, n \in {number[c], sequence + 1} :
          cpc' = [cpc EXCEPT ![c] = to] /\ number' = [number EXCEPT ![c] = n] /\ losses' \in 0..MaxLosses
    <2>1. number = [number EXCEPT ![c] = number[c]] /\ losses \in 0..MaxLosses
      BY DEF ChainInv, ChainTyped, ChainCallsTypeOK
    <2> QED BY <2>1 DEF getAccount, Moves, Loses
  <1>3. /\ cpc' \in [Call -> Places] /\ cpc'[c] = to /\ number' \in [Call -> Numbers]
        /\ \A d \in Call \ {c} : cpc'[d] = cpc[d] /\ number'[d] = number[d]
    BY <1>1, <1>2 DEF ChainInv, ChainTyped, ChainCallsTypeOK, Places, Numbers
  <1>4. ChainTyped'
    BY <1>1, <1>2, <1>3 DEF ChainInv, ChainTyped, ChainCallsTypeOK, Numbers
  <1>5. OneEach'
    BY <1>1, <1>3, NetworkFacts DEF ChainInv, OneEach, Unsent
  <1>6. CallSound(c)'
    <2>1. Unsent(c)' /\ Void(c)'
      BY <1>1 DEF Unsent, Void, Executed
    <2> QED BY <1>1, <1>3, <2>1 DEF CallSound
  <1>7. \A d \in Call \ {c} : CallSound(d)'
    BY <1>1, <1>3 DEF ChainInv, CallSound, Unsent, Void, Executed
  <1> QED BY <1>4, <1>5, <1>6, <1>7 DEF ChainInv

(* A transaction is handed to the network, or it seems so. *)
LEMMA SendInv == ASSUME ChainInv, NEW c \in Call, sendTransaction(c) \/ submitTransaction(c) PROVE ChainInv'
  <1> USE ChainFacts
  <1>1. /\ UNCHANGED <<callKind, number, rounds, record, sequence, ledger, unwritten>>
        /\ cpc[c] = "send" /\ CallSound(c) /\ sequence \in Nat
        /\ record[c] # "failed"
    BY DEF sendTransaction, submitTransaction, Moves, marks, ChainInv, ChainTyped, CallSound
  <1>2. mempool' \in {mempool, Taken(c)}
    BY DEF sendTransaction, submitTransaction
  <1>3. /\ \E to \in {"send", "poll", "await", "error"} : cpc' = [cpc EXCEPT ![c] = to] /\ (to = "error" => c \in givenUp')
        /\ sends' \in [Call -> 0..MaxSends] /\ losses' \in 0..MaxLosses /\ givenUp' \in {givenUp, givenUp \cup {c}}
    <2>1. cpc = [cpc EXCEPT ![c] = cpc[c]] /\ sends \in [Call -> 0..MaxSends] /\ losses \in 0..MaxLosses
      BY DEF ChainInv, ChainTyped, ChainCallsTypeOK
    <2>2. CASE submitTransaction(c)
      BY <2>1, <2>2 DEF submitTransaction, Moves, marks
    <2>3. CASE sendTransaction(c)
      <3>1. CASE Moves(c, "send", "poll") /\ UNCHANGED <<sends, losses, givenUp>>
        BY <2>1, <3>1 DEF Moves
      <3>2. CASE /\ Loses /\ sends' = [sends EXCEPT ![c] = @ + 1]
                 /\ \/ sends'[c] < MaxSends /\ UNCHANGED <<cpc, givenUp>>
                    \/ sends'[c] = MaxSends /\ Moves(c, "send", "error") /\ givenUp' = givenUp \cup {c}
        <4>1. sends'[c] = sends[c] + 1 /\ sends[c] \in Nat /\ sends'[c] <= MaxSends
          BY <2>1, <3>2
        <4>2. sends' \in [Call -> 0..MaxSends] /\ losses' \in 0..MaxLosses
          BY <2>1, <3>2, <4>1 DEF Loses
        <4> QED BY <1>1, <2>1, <3>2, <4>2 DEF Moves
      <3> QED BY <2>3, <3>1, <3>2 DEF sendTransaction
    <2> QED BY <2>2, <2>3
  <1>4. PICK to \in {"send", "poll", "await", "error"} : cpc' = [cpc EXCEPT ![c] = to] /\ (to = "error" => c \in givenUp')
    BY <1>3
  <1>5. cpc' \in [Call -> Places] /\ cpc'[c] = to /\ \A d \in Call \ {c} : cpc'[d] = cpc[d]
    BY <1>4 DEF ChainInv, ChainTyped, ChainCallsTypeOK, Places
  <1>6. \A m \in mempool' : m \in mempool \/ (m = <<c, number[c]>> /\ number[c] = sequence + 1)
    BY <1>2 DEF Taken
  <1>7. ChainTyped'
    BY <1>1, <1>3, <1>5, <1>6 DEF ChainInv, ChainTyped, ChainCallsTypeOK, Numbers
  <1>8. OneEach'
    BY <1>1, <1>6 DEF ChainInv, OneEach
  <1>9. CallSound(c)'
    BY <1>1, <1>4, <1>5 DEF CallSound, Executed
  <1>10. \A d \in Call \ {c} : CallSound(d)'
    <2> SUFFICES ASSUME NEW d \in Call \ {c} PROVE CallSound(d)'
      OBVIOUS
    <2>1. CallSound(d) /\ (Unsent(d) => Unsent(d)') /\ (Void(d) => Void(d)') /\ Executed(d)' = Executed(d)
      BY <1>1, <1>6 DEF ChainInv, Unsent, Void, Executed
    <2> QED BY <1>1, <1>3, <1>5, <2>1 DEF CallSound
  <1> QED BY <1>7, <1>8, <1>9, <1>10 DEF ChainInv

(* What is known of the transaction of a call that got its result, or gives up. *)
Answered(c, succeeds) == \E t \in ledger : t[1] = c /\ t[2] = number[c] /\ t[3] = succeeds
Resolves(c, to) ==
    /\ cpc' = [cpc EXCEPT ![c] = to]
    /\ to = "ok" => Answered(c, TRUE)
    /\ to = "error" => c \in givenUp' \/ Answered(c, FALSE)
    /\ to = "load" => BadSeq(c)

(* The result of a transaction is found, or the call tries again or gives up. *)
LEMMA ResultInv == ASSUME ChainInv, NEW c \in Call, getTransaction(c) \/ buildAndSubmitTransaction(c) PROVE ChainInv'
  <1> USE ChainFacts
  <1>1. /\ UNCHANGED <<callKind, number, sends, record, network, losses, unwritten>>
        /\ UNCHANGED <<sequence, mempool, ledger>>
        /\ cpc[c] \in {"poll", "await"} /\ CallSound(c) /\ record[c] # "failed"
    BY DEF getTransaction, buildAndSubmitTransaction, network, ChainInv, CallSound
  <1>2. /\ rounds' \in [Call -> 0..MaxRounds]
        /\ givenUp' \in {givenUp, givenUp \cup {c}}
        /\ \E to \in {"ok", "error", "load"} : Resolves(c, to)
    <2>1. rounds \in [Call -> 0..MaxRounds]
      BY DEF ChainInv, ChainTyped, ChainCallsTypeOK
    <2>2. CASE getTransaction(c)
      <3>1. rounds' \in [Call -> 0..MaxRounds]
        BY <2>1, <2>2 DEF getTransaction
      <3>2. CASE Moves(c, "poll", "error") /\ givenUp' = givenUp \cup {c}
        BY <3>1, <3>2 DEF Moves, Resolves
      <3>3. ASSUME NEW t \in ledger, t[1] = c, t[2] = number[c],
                   Moves(c, "poll", IF t[3] THEN "ok" ELSE "error"), UNCHANGED givenUp
            PROVE  UNCHANGED givenUp /\ \E to \in {"ok", "error", "load"} : Resolves(c, to)
        <4>1. Answered(c, t[3]) /\ t[3] \in BOOLEAN
          BY <3>3, NetworkFacts DEF Answered
        <4> QED BY <3>3, <4>1 DEF Moves, Resolves
      <3> QED BY <2>2, <3>1, <3>2, <3>3 DEF getTransaction
    <2>3. CASE buildAndSubmitTransaction(c)
      <3>1. CASE Moves(c, "await", "error") /\ givenUp' = givenUp \cup {c} /\ UNCHANGED rounds
        BY <2>1, <3>1 DEF Moves, Resolves
      <3>2. CASE /\ Retriable(c) /\ rounds[c] + 1 < MaxRounds
                 /\ rounds' = [rounds EXCEPT ![c] = @ + 1] /\ Moves(c, "await", "load") /\ UNCHANGED givenUp
        <4>1. rounds' \in [Call -> 0..MaxRounds]
          <5>1. rounds[c] + 1 \in 0..MaxRounds
            BY <2>1, <3>2
          <5> QED BY <2>1, <3>2, <5>1
        <4> QED BY <3>2, <4>1 DEF Moves, Retriable, Resolves
      <3>3. ASSUME NEW t \in ledger, t[1] = c, t[2] = number[c],
                   Moves(c, "await", IF t[3] THEN "ok" ELSE "error"), UNCHANGED <<rounds, givenUp>>
            PROVE  UNCHANGED <<rounds, givenUp>> /\ \E to \in {"ok", "error", "load"} : Resolves(c, to)
        <4>1. Answered(c, t[3]) /\ t[3] \in BOOLEAN
          BY <3>3, NetworkFacts DEF Answered
        <4> QED BY <3>3, <4>1 DEF Moves, Resolves
      <3> QED BY <2>1, <2>3, <3>1, <3>2, <3>3 DEF buildAndSubmitTransaction
    <2> QED BY <2>2, <2>3
  <1>3. PICK to \in {"ok", "error", "load"} : Resolves(c, to)
    BY <1>2
  <1>4. cpc' \in [Call -> Places] /\ cpc'[c] = to /\ \A d \in Call \ {c} : cpc'[d] = cpc[d]
    BY <1>3 DEF Resolves, ChainInv, ChainTyped, ChainCallsTypeOK, Places
  <1>5. ChainCallsTypeOK'
    BY <1>1, <1>2, <1>4 DEF ChainInv, ChainTyped, ChainCallsTypeOK, Numbers
  <1>6. to = "ok" => Executed(c) # {}
    BY <1>3 DEF Resolves, Answered, Executed
  <1>7. to = "error" => c \in givenUp' \/ Void(c)
    BY <1>3, NetworkFacts DEF Resolves, Answered, ChainInv, OneEach, Void, Executed
  <1>8. to = "load" => Unsent(c)
    BY <1>3, NetworkFacts DEF Resolves, ChainInv, OneEach, BadSeq, Unsent
  <1>9. CallSound(c)'
    <2>1. /\ Unsent(c) => Unsent(c)'
          /\ Void(c) => Void(c)'
          /\ Executed(c) = Executed(c)'
      BY <1>1 DEF Unsent, Void, Executed
    <2> QED BY <1>1, <1>4, <1>6, <1>7, <1>8, <2>1 DEF CallSound
  <1> QED BY <1>1, <1>2, <1>4, <1>5, <1>9, LocalInv

(* The row of a call that has ended is written, or it is not. *)
LEMMA RowInv ==
  ASSUME ChainInv, NEW c \in Call, simulateOnRamp(c) \/ requestFaucet(c) \/ CallDies(c) PROVE ChainInv'
  <1> USE ChainFacts
  <1>1. /\ UNCHANGED <<callKind, number, sends, rounds, network, givenUp>>
        /\ UNCHANGED <<sequence, mempool, ledger>>
        /\ losses' \in 0..MaxLosses /\ unwritten' \in {unwritten, unwritten \cup {c}}
    BY DEF simulateOnRamp, requestFaucet, CallDies, network, Loses, ChainInv, ChainTyped, ChainCallsTypeOK
  <1>2. CallSound(c)
    BY DEF ChainInv
  <1>3. \E to \in {"done", "error", "dead"}, r \in {"none", "pending", "completed", "failed"} :
              /\ cpc' = [cpc EXCEPT ![c] = to] /\ record' = [record EXCEPT ![c] = r]
              /\ to = "error" => c \in unwritten'
              /\ r = "completed" => Executed(c) # {}
              /\ r = "failed" => to = "done" /\ (Void(c) \/ c \in givenUp \cup unwritten')
    <2>1. record = [record EXCEPT ![c] = record[c]] /\ record[c] \in {"none", "pending", "completed", "failed"}
      BY DEF ChainInv, ChainTyped, ChainCallsTypeOK
    <2>2. CASE simulateOnRamp(c)
      <3>1. /\ cpc[c] = "ok" => RecordAfter(c) = "completed" /\ Executed(c) # {}
            /\ cpc[c] = "error" => RecordAfter(c) = "failed" /\ (Void(c) \/ c \in givenUp \cup unwritten)
            /\ record[c] # "failed" /\ (record[c] = "completed" => Executed(c) # {})
            /\ cpc[c] \in {"ok", "error"}
        BY <1>2, <2>2 DEF RecordAfter, CallSound, simulateOnRamp
      <3>2. CASE record' = [record EXCEPT ![c] = RecordAfter(c)] /\ Moves(c, cpc[c], "done") /\ UNCHANGED <<losses, unwritten>>
        BY <3>1, <3>2 DEF Moves
      <3>3. CASE /\ Loses /\ unwritten' = unwritten \cup {c}
                 /\ Moves(c, cpc[c], IF cpc[c] = "ok" THEN "error" ELSE "done")
                 /\ record' \in {record, [record EXCEPT ![c] = RecordAfter(c)]}
        BY <2>1, <3>1, <3>3 DEF Moves
      <3> QED BY <2>2, <3>2, <3>3 DEF simulateOnRamp
    <2>3. CASE requestFaucet(c)
      <3>1. cpc[c] = "ok" => Executed(c) # {}
        BY <1>2 DEF CallSound
      <3>2. /\ record[c] # "failed" /\ (record[c] = "completed" => Executed(c) # {})
            /\ cpc' = [cpc EXCEPT ![c] = "done"]
        BY <1>2, <2>3 DEF CallSound, requestFaucet, Moves
      <3>3. CASE record' = [record EXCEPT ![c] = IF callKind[c] = "drip" /\ cpc[c] = "ok" THEN "completed" ELSE "none"]
        <4>1. CASE callKind[c] = "drip" /\ cpc[c] = "ok"
          BY <3>1, <3>2, <3>3, <4>1
        <4>2. CASE ~(callKind[c] = "drip" /\ cpc[c] = "ok")
          BY <3>2, <3>3, <4>2
        <4> QED BY <4>1, <4>2
      <3>4. CASE UNCHANGED record
        BY <2>1, <3>2, <3>4
      <3> QED BY <2>3, <3>3, <3>4 DEF requestFaucet
    <2>4. CASE CallDies(c)
      <3>1. cpc[c] # "done" /\ cpc' = [cpc EXCEPT ![c] = "dead"] /\ UNCHANGED record
        BY <2>4 DEF CallDies
      <3> QED BY <1>2, <2>1, <3>1 DEF CallSound
    <2> QED BY <2>2, <2>3, <2>4
  <1>4. PICK to \in {"done", "error", "dead"}, r \in {"none", "pending", "completed", "failed"} :
              /\ cpc' = [cpc EXCEPT ![c] = to] /\ record' = [record EXCEPT ![c] = r]
              /\ to = "error" => c \in unwritten'
              /\ r = "completed" => Executed(c) # {}
              /\ r = "failed" => to = "done" /\ (Void(c) \/ c \in givenUp \cup unwritten')
    BY <1>3
  <1>5. /\ cpc' \in [Call -> Places] /\ cpc'[c] = to
        /\ record' \in [Call -> {"none", "pending", "completed", "failed"}] /\ record'[c] = r
        /\ \A d \in Call \ {c} : cpc'[d] = cpc[d] /\ record'[d] = record[d]
    BY <1>4 DEF ChainInv, ChainTyped, ChainCallsTypeOK, Places
  <1>6. ChainCallsTypeOK'
    BY <1>1, <1>5 DEF ChainInv, ChainTyped, ChainCallsTypeOK, Numbers
  <1>7. CallSound(c)'
    <2>1. (Void(c) => Void(c)') /\ Executed(c) = Executed(c)'
      BY <1>1 DEF Void, Executed
    <2> QED BY <1>1, <1>4, <1>5, <2>1 DEF CallSound
  <1> QED BY <1>1, <1>5, <1>6, <1>7, LocalInv

(* The network applies a transaction, or forgets it. *)
LEMMA ApplyInv == ASSUME ChainInv, NEW t \in mempool, Apply(t) PROVE ChainInv'
  <1>1. PICK succeeds \in BOOLEAN : ledger' = ledger \cup {<<t[1], t[2], succeeds>>}
    BY DEF Apply
  <1>2. /\ sequence' = sequence + 1 /\ mempool' = {}
        /\ UNCHANGED <<callKind, cpc, number, sends, rounds, record, losses, givenUp, unwritten>>
    BY DEF Apply, marks
  <1>3. /\ t[1] \in Call /\ t = <<t[1], t[2]>> /\ t[2] = sequence + 1 /\ number[t[1]] = sequence + 1
        /\ \A u \in ledger : u[2] <= sequence /\ u[2] = number[u[1]]
        /\ sequence \in Nat
    BY NetworkFacts DEF ChainInv, OneEach
  <1>4. \A u \in ledger' : u \in ledger \/ (u = <<t[1], t[2], succeeds>> /\ u[1] = t[1] /\ u[2] = t[2] /\ u[3] = succeeds)
    BY <1>1
  <1>5. \A u \in ledger : u[1] # t[1]
    BY <1>3
  <1>6. ledger' \subseteq Call \X (1..sequence') \X BOOLEAN
    <2>1. ledger \subseteq Call \X (1..sequence) \X BOOLEAN
      BY DEF ChainInv, ChainTyped, ChainCallsTypeOK
    <2>2. ledger \subseteq Call \X (1..(sequence + 1)) \X BOOLEAN
      BY <1>3, <2>1
    <2>3. <<t[1], t[2], succeeds>> \in Call \X (1..(sequence + 1)) \X BOOLEAN
      BY <1>3
    <2> QED BY <1>1, <1>2, <2>2, <2>3
  <1>7. ChainTyped'
    <2>1. number' \in [Call -> Numbers']
      BY <1>2, <1>3 DEF ChainInv, ChainTyped, ChainCallsTypeOK, Numbers
    <2> QED BY <1>2, <1>3, <1>6, <2>1 DEF ChainInv, ChainTyped, ChainCallsTypeOK
  <1>8. OneEach'
    BY <1>2, <1>3, <1>4, <1>5 DEF ChainInv, OneEach
  <1>9. \A c \in Call : CallSound(c)'
    <2> SUFFICES ASSUME NEW c \in Call PROVE CallSound(c)'
      OBVIOUS
    <2>1. Unsent(c) => Unsent(c)'
      BY <1>2, <1>4 DEF Unsent
    <2>2. Void(c) => Void(c)'
      <3>1. SUFFICES ASSUME Void(c) PROVE Void(c)'
        OBVIOUS
      <3>2. c # t[1]
        BY <1>3, <3>1 DEF Void
      <3> QED BY <1>2, <1>4, <3>1, <3>2 DEF Void, Executed
    <2>3. Executed(c) # {} => Executed(c)' # {}
      BY <1>1 DEF Executed
    <2> QED BY <1>2, <2>1, <2>2, <2>3 DEF ChainInv, CallSound
  <1> QED BY <1>7, <1>8, <1>9 DEF ChainInv

LEMMA EvictInv == ASSUME ChainInv, NEW t \in mempool, Evict(t) PROVE ChainInv'
  <1>1. /\ UNCHANGED <<callKind, cpc, number, sends, rounds, record, sequence, ledger, losses, givenUp, unwritten>>
        /\ mempool' \subseteq mempool
    BY DEF Evict, marks
  <1>2. ChainTyped' /\ OneEach'
    BY <1>1 DEF ChainInv, ChainTyped, ChainCallsTypeOK, Numbers, OneEach
  <1>3. \A c \in Call : CallSound(c)'
    BY <1>1 DEF ChainInv, CallSound, Unsent, Void, Executed
  <1> QED BY <1>2, <1>3 DEF ChainInv

LEMMA ChainNextInv == ChainInv /\ [ChainCallsNext]_chainVars => ChainInv'
  <1> SUFFICES ASSUME ChainInv, [ChainCallsNext]_chainVars PROVE ChainInv'
    OBVIOUS
  <1>1. CASE UNCHANGED chainVars
    BY <1>1 DEF chainVars, network, marks, ChainInv, ChainTyped, ChainCallsTypeOK, Numbers, OneEach, CallSound,
       Unsent, Void, Executed
  <1>2. ASSUME NEW c \in Call, BeginCall(c) \/ getAccount(c) \/ simulateTransactionWithRetry(c) \/ sendTransaction(c)
                               \/ getTransaction(c) \/ submitTransaction(c) \/ buildAndSubmitTransaction(c)
                               \/ simulateOnRamp(c) \/ requestFaucet(c) \/ CallDies(c)
        PROVE  ChainInv'
    BY <1>2, BeginInv, AccountInv, SendInv, ResultInv, RowInv
  <1>3. ASSUME NEW t \in mempool, Apply(t) \/ Evict(t) PROVE ChainInv'
    BY <1>3, ApplyInv, EvictInv
  <1> QED BY <1>1, <1>2, <1>3 DEF ChainCallsNext

(* However often a transaction is sent again, built again after tx_bad_seq or     *)
(* given up on (sendTransaction, buildAndSubmitTransaction), for any number of    *)
(* calls of the account: an operation takes effect at most once, and a row that   *)
(* says completed or failed is right, unless the call gave up or a write failed.  *)
THEOREM CallsAreAccounted == ChainCallsSpec => []CallsAccounted
  <1>1. ChainInv => CallsAccounted
    <2> SUFFICES ASSUME ChainInv PROVE CallsAccounted
      OBVIOUS
    <2>1. ChainCallsTypeOK
      BY DEF ChainInv, ChainTyped
    <2>2. \A c \in Call : \A t, u \in Executed(c) : t = u
      BY DEF ChainInv, OneEach, Executed
    <2>3. \A c \in Call : /\ record[c] = "completed" => Executed(c) # {}
                          /\ record[c] = "failed" /\ c \notin givenUp \cup unwritten => Void(c)
      BY DEF ChainInv, CallSound
    <2> QED BY <2>1, <2>2, <2>3 DEF CallsAccounted, Void
  <1> QED BY <1>1, ChainInitInv, ChainNextInv, PTL DEF ChainCallsSpec

-----------------------------------------------------------------------------
(* Bills: every refund under way is backed already, the first of a bill by the *)
(* completion it found and the others by their race; and what was checked      *)
(* with a user's key and has no row yet still has its place in the limit.      *)

BillsTyped ==
    /\ BillsTypeOK /\ crossed \in BOOLEAN
    /\ refunded \in [Bill -> Nat] /\ completions \in [Bill -> Nat]
    /\ unsettled \in [Bill -> Nat] /\ racing \in [Bill -> Nat]

Found(b)  == {r \in Refund : bill[r] = b /\ rpc[r] = "found"}
Active(b) == {r \in Refund : bill[r] = b /\ rpc[r] \in {"found", "granted"}}
Backing(b) == completions[b] + unsettled[b] + racing[b]

BillBacked(b) ==
    /\ IsFiniteSet(Found(b))
    /\ refunded[b] + Cardinality(Found(b)) <= Backing(b)
    /\ billStatus[b] = "completed" /\ Active(b) = {} => refunded[b] + 1 <= Backing(b)
    /\ billStatus[b] = "none" => Active(b) = {}

Checked == {b \in ofUser : bpc[b] = "checked"}
Lasting == Counted \ revived
Room ==
    ~crossed => /\ \A b, c \in Checked : b = c
                /\ Cardinality(Lasting) <= Limit
                /\ Checked # {} => Cardinality(Lasting) + 1 <= Limit

BillsInv == BillsTyped /\ (\A b \in Bill : BillBacked(b)) /\ IsFiniteSet(Counted) /\ Room

Statuses == Counting \cup {"none", "failed", "refunded"}

LEMMA BillsInitInv == BillsInit => BillsInv
  <1> SUFFICES ASSUME BillsInit PROVE BillsInv
    OBVIOUS
  <1>1. Limit \in Nat
    BY BillsAssumption DEF BillsAssumption
  <1>2. BillsTyped
    BY DEF BillsInit, BillsTyped, BillsTypeOK, Counting
  <1>3. Counted = {} /\ Lasting = {} /\ Checked = {}
    BY DEF BillsInit, Counted, Lasting, Checked, Counting
  <1>4. ASSUME NEW b \in Bill PROVE BillBacked(b)
    <2>1. Found(b) = {} /\ refunded[b] = 0 /\ Backing(b) = 0 /\ billStatus[b] # "completed" /\ Active(b) = {}
      BY DEF BillsInit, Found, Backing, Active
    <2> QED BY <2>1, FS_EmptySet DEF BillBacked
  <1>5. Room /\ IsFiniteSet(Counted)
    BY <1>1, <1>3, FS_EmptySet DEF Room
  <1> QED BY <1>2, <1>4, <1>5 DEF BillsInv

(* A step that has nothing to do with the refunds keeps them backed, *)
LEMMA BackedInv ==
  ASSUME BillsInv, UNCHANGED <<rpc, bill, refunded, unsettled, racing>>,
         \A b \in Bill : /\ completions'[b] \in Nat /\ completions'[b] >= completions[b]
                         /\ billStatus'[b] = "completed" => billStatus[b] = "completed" \/ completions'[b] > completions[b]
                         /\ billStatus'[b] = "none" => billStatus[b] = "none"
  PROVE  \A b \in Bill : BillBacked(b)'
  <1> SUFFICES ASSUME NEW b \in Bill PROVE BillBacked(b)'
    OBVIOUS
  <1>1. Found(b)' = Found(b) /\ Active(b)' = Active(b)
    BY DEF Found, Active
  <1>2. BillBacked(b) /\ Cardinality(Found(b)) \in Nat
    BY FS_CardinalityType DEF BillsInv, BillBacked
  <1>3. /\ refunded[b] \in Nat /\ completions[b] \in Nat /\ unsettled[b] \in Nat /\ racing[b] \in Nat
        /\ refunded'[b] = refunded[b] /\ Backing(b)' = Backing(b) + (completions'[b] - completions[b])
        /\ completions'[b] \in Nat /\ completions'[b] >= completions[b]
    BY DEF BillsInv, BillsTyped, Backing
  <1> QED BY <1>1, <1>2, <1>3 DEF BillBacked, Backing

(* and one that takes no place under the limit keeps it. *)
LEMMA RoomInv ==
  ASSUME BillsInv, Lasting' \subseteq Lasting, Checked' \subseteq Checked, crossed' = crossed
  PROVE  Room'
  <1>1. IsFiniteSet(Lasting)
    BY FS_Subset DEF BillsInv, Lasting
  <1>2. Cardinality(Lasting') <= Cardinality(Lasting) /\ Cardinality(Lasting) \in Nat /\ Cardinality(Lasting') \in Nat
    BY <1>1, FS_Subset, FS_CardinalityType
  <1>3. Limit \in Nat
    BY BillsAssumption DEF BillsAssumption
  <1> QED BY <1>2, <1>3 DEF BillsInv, Room

(* What a write of the status does. *)
LEMMA WriteFacts ==
  ASSUME BillsInv, NEW b \in Bill, NEW s \in Statuses, Write(b, s)
  PROVE  /\ billStatus' \in [Bill -> Statuses] /\ billStatus'[b] = s
         /\ \A c \in Bill \ {b} : billStatus'[c] = billStatus[c]
         /\ revived \subseteq revived' /\ revived' \subseteq Bill
         /\ completions' \in [Bill -> Nat]
         /\ \A c \in Bill : /\ completions'[c] >= completions[c]
                            /\ billStatus'[c] = "completed" =>
                                   billStatus[c] = "completed" \/ completions'[c] > completions[c]
         /\ billStatus[b] # "none" => Lasting' \subseteq Lasting
         /\ Lasting' \subseteq Lasting \cup {b}
         /\ IsFiniteSet(Counted') /\ ofUser' = ofUser
  <1>1. /\ billStatus \in [Bill -> Statuses] /\ completions \in [Bill -> Nat] /\ revived \subseteq Bill
        /\ IsFiniteSet(Counted) /\ ofUser \subseteq Bill /\ ofUser' = ofUser
    BY DEF BillsInv, BillsTyped, BillsTypeOK, Statuses, Write
  <1>2. /\ billStatus' \in [Bill -> Statuses] /\ billStatus'[b] = s
        /\ \A c \in Bill \ {b} : billStatus'[c] = billStatus[c]
    BY <1>1 DEF Write
  <1>3. revived \subseteq revived' /\ revived' \subseteq Bill
    BY <1>1 DEF Write
  <1>4. /\ completions' \in [Bill -> Nat] /\ \A c \in Bill : completions'[c] >= completions[c]
        /\ s = "completed" => completions'[b] > completions[b]
    <2>1. CASE s = "completed"
      BY <1>1, <2>1 DEF Write
    <2>2. CASE s # "completed"
      BY <1>1, <2>2 DEF Write
    <2> QED BY <2>1, <2>2
  <1>5. Counted' \subseteq Counted \cup {b}
    BY <1>1, <1>2 DEF Counted
  <1>6. IsFiniteSet(Counted')
    <2>1. IsFiniteSet(Counted \cup {b})
      BY <1>1, FS_AddElement
    <2> QED BY <1>5, <2>1, FS_Subset
  <1>7. Lasting' \subseteq Lasting \cup {b}
    BY <1>3, <1>5 DEF Lasting
  <1>8. billStatus[b] # "none" => Lasting' \subseteq Lasting
    <2>1. SUFFICES ASSUME billStatus[b] # "none", b \in Lasting' PROVE b \in Lasting
      BY <1>7
    <2>2. s \in Counting /\ b \notin revived'
      BY <1>2, <2>1 DEF Lasting, Counted
    <2>3. billStatus[b] \notin {"failed", "refunded"} /\ b \notin revived
      BY <2>2 DEF Write
    <2> QED BY <1>1, <2>1, <2>3 DEF Lasting, Counted, Statuses
  <1> QED BY <1>1, <1>2, <1>3, <1>4, <1>6, <1>7, <1>8

(* What such a write, or none, leaves of a bill that has a row. *)
StatusStep(b) ==
    /\ billStatus' \in [Bill -> Statuses] /\ billStatus'[b] # "none"
    /\ \A c \in Bill \ {b} : billStatus'[c] = billStatus[c]
    /\ revived' \subseteq Bill /\ completions' \in [Bill -> Nat]
    /\ \A c \in Bill : /\ completions'[c] \in Nat /\ completions'[c] >= completions[c]
                       /\ billStatus'[c] = "completed" =>
                              billStatus[c] = "completed" \/ completions'[c] > completions[c]
                       /\ billStatus'[c] = "none" => billStatus[c] = "none"
    /\ Lasting' \subseteq Lasting /\ IsFiniteSet(Counted') /\ ofUser' = ofUser

(* The steps of a bill that write its status, once it has a row. *)
LEMMA WritingInv ==
  ASSUME BillsInv, NEW b \in Bill,
         RecordDispatch(b) \/ ReconcileAnswer(b) \/ FailBill(b)
           \/ \E s \in {"completed", "failed", "refunded"} : reconcileBillsWebhook(b, s)
  PROVE  BillsInv'
  <1>1. /\ UNCHANGED <<rpc, bill, paid, refunded, unsettled, racing, crossed>>
        /\ reference' \in {reference, reference \cup {b}}
        /\ billStatus[b] # "none"
    BY DEF RecordDispatch, ReconcileAnswer, FailBill, reconcileBillsWebhook, partnerB, BillsInv, BillsTyped, BillsTypeOK
  <1>2. \/ UNCHANGED <<ofUser, billStatus, completions, revived>>
        \/ \E s \in {"completed", "failed", "refunded", "processing"} : Write(b, s)
    BY DEF RecordDispatch, ReconcileAnswer, FailBill, reconcileBillsWebhook
  <1>3. \E l \in {"dispatched", "done", "refused", bpc[b]} : bpc' = [bpc EXCEPT ![b] = l]
    <2>1. bpc = [bpc EXCEPT ![b] = bpc[b]]
      BY DEF BillsInv, BillsTyped, BillsTypeOK
    <2>2. CASE RecordDispatch(b) \/ FailBill(b)
      BY <2>2 DEF RecordDispatch, FailBill, Then
    <2>3. CASE ReconcileAnswer(b)
      BY <2>3 DEF ReconcileAnswer, Then
    <2>4. CASE \E s \in {"completed", "failed", "refunded"} : reconcileBillsWebhook(b, s)
      BY <2>1, <2>4 DEF reconcileBillsWebhook
    <2> QED BY <2>2, <2>3, <2>4
  <1>4. PICK l \in {"dispatched", "done", "refused", bpc[b]} : bpc' = [bpc EXCEPT ![b] = l]
    BY <1>3
  <1>5. bpc[b] \notin {"new", "checked"}
    BY <1>1 DEF BillsInv, BillsTyped, BillsTypeOK
  <1>6. /\ bpc' \in [Bill -> {"new", "checked", "created", "answered", "refused", "dispatched", "done"}]
        /\ bpc'[b] \notin {"new", "checked"} /\ \A c \in Bill \ {b} : bpc'[c] = bpc[c]
    BY <1>4, <1>5 DEF BillsInv, BillsTyped, BillsTypeOK
  <1>7. StatusStep(b)
    <2>1. CASE UNCHANGED <<ofUser, billStatus, completions, revived>>
      <3>1. Lasting' = Lasting /\ Counted' = Counted
        BY <2>1 DEF Lasting, Counted
      <3> QED BY <1>1, <2>1, <3>1 DEF StatusStep, BillsInv, BillsTyped, BillsTypeOK, Statuses
    <2>2. ASSUME NEW s \in {"completed", "failed", "refunded", "processing"}, Write(b, s) PROVE StatusStep(b)
      <3>1. s \in Statuses
        BY DEF Statuses, Counting
      <3> QED BY <1>1, <2>2, <3>1, WriteFacts DEF StatusStep
    <2> QED BY <1>2, <2>1, <2>2
  <1>8. BillsTyped'
    BY <1>1, <1>6, <1>7 DEF StatusStep, BillsInv, BillsTyped, BillsTypeOK, Statuses
  <1>9. Checked' \subseteq Checked
    BY <1>6, <1>7 DEF Checked, StatusStep, BillsInv, BillsTyped, BillsTypeOK
  <1> QED BY <1>1, <1>7, <1>8, <1>9, BackedInv, RoomInv DEF StatusStep, BillsInv

LEMMA DispatchInv == ASSUME BillsInv, NEW b \in Bill, payBill(b) PROVE BillsInv'
  <1>1. /\ UNCHANGED <<rowsB, rpc, bill, refunded, events, pastB>>
        /\ UNCHANGED <<ofUser, billStatus, reference, completions, unsettled, racing, crossed, revived>>
        /\ paid' \in {paid, paid \cup {b}} /\ bpc[b] = "created"
    BY DEF payBill, rowsB, pastB
  <1>2. PICK l \in {"answered", "refused"} : bpc' = [bpc EXCEPT ![b] = l]
    BY DEF payBill, Then
  <1>3. BillsTyped'
    BY <1>1, <1>2 DEF BillsInv, BillsTyped, BillsTypeOK
  <1>4. Checked' \subseteq Checked /\ Lasting' = Lasting /\ Counted' = Counted
    BY <1>1, <1>2 DEF BillsInv, BillsTyped, BillsTypeOK, Checked, Lasting, Counted
  <1>5. \A c \in Bill : completions'[c] \in Nat /\ completions'[c] >= completions[c] /\ billStatus'[c] = billStatus[c]
    BY <1>1 DEF BillsInv, BillsTyped
  <1> QED BY <1>1, <1>3, <1>4, <1>5, BackedInv, RoomInv DEF BillsInv

(* The place under the limit is taken by the check, ... *)
LEMMA CheckInv == ASSUME BillsInv, NEW b \in Bill, checkWithdrawalLimits(b) PROVE BillsInv'
  <1>1. /\ UNCHANGED <<rowsB, rpc, bill, partnerB, events, completions, unsettled, racing, revived>>
        /\ UNCHANGED <<ofUser, billStatus, reference, paid, refunded>>
        /\ bpc[b] = "new" /\ bpc' = [bpc EXCEPT ![b] = "checked"]
        /\ Cardinality(Counted) + 1 <= Limit
        /\ crossed' = (crossed \/ (b \in ofUser /\ Checked # {}))
    BY DEF checkWithdrawalLimits, rowsB, partnerB, Then, WithinLimit, Checked
  <1>2. Lasting' = Lasting /\ Counted' = Counted /\ Lasting \subseteq Counted
    BY <1>1 DEF Lasting, Counted
  <1>3. BillsTyped'
    BY <1>1 DEF BillsInv, BillsTyped, BillsTypeOK
  <1>4. Room'
    <2>1. IsFiniteSet(Counted) /\ Limit \in Nat
      BY BillsAssumption DEF BillsInv, BillsAssumption
    <2>2. /\ Cardinality(Lasting) \in Nat /\ Cardinality(Counted) \in Nat
          /\ Cardinality(Lasting) <= Cardinality(Counted)
      BY <1>2, <2>1, FS_Subset, FS_CardinalityType
    <2>3. Cardinality(Lasting') + 1 <= Limit /\ Cardinality(Lasting') <= Limit
      BY <1>1, <1>2, <2>1, <2>2
    <2>4. Checked' = IF b \in ofUser THEN Checked \cup {b} ELSE Checked
      BY <1>1 DEF BillsInv, BillsTyped, BillsTypeOK, Checked
    <2>5. ~crossed' => \A c, d \in Checked' : c = d
      <3>1. CASE b \in ofUser
        BY <1>1, <2>4, <3>1
      <3>2. CASE b \notin ofUser
        BY <1>1, <2>4, <3>2 DEF BillsInv, Room
      <3> QED BY <3>1, <3>2
    <2> QED BY <2>3, <2>5 DEF Room
  <1>5. \A c \in Bill : completions'[c] \in Nat /\ completions'[c] >= completions[c] /\ billStatus'[c] = billStatus[c]
    BY <1>1 DEF BillsInv, BillsTyped
  <1> QED BY <1>1, <1>2, <1>3, <1>4, <1>5, BackedInv DEF BillsInv

(* ... and filled with the row. *)
LEMMA CreateInv == ASSUME BillsInv, NEW b \in Bill, CreateBill(b) PROVE BillsInv'
  <1>1. /\ UNCHANGED <<reference, rpc, bill, partnerB, events, unsettled, racing, crossed>>
        /\ UNCHANGED <<paid, refunded>>
        /\ bpc[b] = "checked" /\ bpc' = [bpc EXCEPT ![b] = "created"]
        /\ Write(b, "pending")
    BY DEF CreateBill, partnerB, Then
  <1>2. "pending" \in Statuses
    BY DEF Statuses, Counting
  <1>3. /\ billStatus' \in [Bill -> Statuses] /\ billStatus'[b] = "pending"
        /\ \A c \in Bill \ {b} : billStatus'[c] = billStatus[c]
        /\ revived' \subseteq Bill /\ completions' \in [Bill -> Nat]
        /\ \A c \in Bill : /\ completions'[c] \in Nat /\ completions'[c] >= completions[c]
                           /\ billStatus'[c] = "completed" =>
                                  billStatus[c] = "completed" \/ completions'[c] > completions[c]
                           /\ billStatus'[c] = "none" => billStatus[c] = "none"
        /\ Lasting' \subseteq Lasting \cup {b} /\ IsFiniteSet(Counted') /\ ofUser' = ofUser
    BY <1>1, <1>2, WriteFacts
  <1>4. BillsTyped'
    BY <1>1, <1>3 DEF BillsInv, BillsTyped, BillsTypeOK, Statuses
  <1>5. Room'
    <2>1. IsFiniteSet(Lasting) /\ Limit \in Nat
      BY BillsAssumption, FS_Subset DEF BillsInv, BillsAssumption, Lasting
    <2>2. IsFiniteSet(Lasting \cup {b}) /\ Cardinality(Lasting \cup {b}) <= Cardinality(Lasting) + 1
      <3>1. /\ IsFiniteSet(Lasting \cup {b}) /\ Cardinality(Lasting) \in Nat
            /\ Cardinality(Lasting \cup {b}) \in {Cardinality(Lasting), Cardinality(Lasting) + 1}
        BY <2>1, FS_AddElement, FS_CardinalityType, Zenon
      <3> QED BY <3>1
    <2>3. IsFiniteSet(Lasting') /\ Cardinality(Lasting') <= Cardinality(Lasting \cup {b})
      BY <1>3, <2>2, FS_Subset
    <2>4. Cardinality(Lasting') \in Nat /\ Cardinality(Lasting \cup {b}) \in Nat /\ Cardinality(Lasting) \in Nat
      BY <2>1, <2>2, <2>3, FS_CardinalityType
    <2>5. Checked' = Checked \ {b}
      BY <1>1, <1>3 DEF BillsInv, BillsTyped, BillsTypeOK, Checked
    <2>6. CASE b \in ofUser
      <3>1. b \in Checked
        BY <1>1, <2>6 DEF Checked
      <3> QED BY <1>1, <2>1, <2>2, <2>3, <2>4, <2>5, <3>1 DEF BillsInv, Room
    <2>7. CASE b \notin ofUser
      <3>1. b \notin Lasting'
        BY <1>3, <2>7 DEF Lasting, Counted
      <3>2. Lasting' \subseteq Lasting
        BY <1>3, <3>1
      <3> QED BY <1>1, <2>5, <3>2, RoomInv
    <2> QED BY <2>6, <2>7
  <1> QED BY <1>1, <1>3, <1>4, <1>5, BackedInv DEF BillsInv

(* The refunds, which leave the limit alone. *)
RefundStep == UNCHANGED <<rowsB, bpc, bill, completions, crossed, revived>>

LEMMA RefundRest ==
  ASSUME BillsInv, RefundStep, NEW r \in Refund,
         rpc' = [rpc EXCEPT ![r] = "found"] \/ rpc' = [rpc EXCEPT ![r] = "granted"] \/ rpc' = [rpc EXCEPT ![r] = "done"],
         paid' = paid, refunded' \in [Bill -> Nat], unsettled' \in [Bill -> Nat], racing' \in [Bill -> Nat],
         \A b \in Bill : BillBacked(b)'
  PROVE  BillsInv'
  <1>1. UNCHANGED <<ofUser, billStatus, reference, bpc, bill, completions, crossed, revived>>
    BY DEF RefundStep, rowsB
  <1>2. BillsTyped'
    BY <1>1 DEF BillsInv, BillsTyped, BillsTypeOK
  <1>3. Lasting' = Lasting /\ Checked' = Checked /\ Counted' = Counted
    BY <1>1 DEF Lasting, Checked, Counted
  <1> QED BY <1>1, <1>2, <1>3, RoomInv DEF BillsInv

(* The numbers of a bill, and the requests of another. *)
LEMMA BillNumbers ==
  ASSUME BillsInv, NEW b \in Bill
  PROVE  /\ refunded[b] \in Nat /\ completions[b] \in Nat /\ unsettled[b] \in Nat /\ racing[b] \in Nat
         /\ Backing(b) \in Nat /\ IsFiniteSet(Found(b)) /\ Cardinality(Found(b)) \in Nat
         /\ refunded[b] + Cardinality(Found(b)) <= Backing(b)
  <1>1. refunded[b] \in Nat /\ completions[b] \in Nat /\ unsettled[b] \in Nat /\ racing[b] \in Nat
    BY DEF BillsInv, BillsTyped
  <1>2. BillBacked(b)
    BY DEF BillsInv
  <1> QED BY <1>1, <1>2, FS_CardinalityType DEF BillBacked, Backing

LEMMA OtherBill ==
  ASSUME BillsInv, NEW r \in Refund, NEW l, rpc' = [rpc EXCEPT ![r] = l], NEW b \in Bill, b # bill[r],
         bill' = bill, billStatus'[b] = billStatus[b], refunded'[b] = refunded[b],
         completions'[b] = completions[b], unsettled'[b] = unsettled[b], racing'[b] = racing[b]
  PROVE  BillBacked(b)'
  <1>1. Found(b)' = Found(b) /\ Active(b)' = Active(b) /\ Backing(b)' = Backing(b)
    BY DEF BillsInv, BillsTyped, BillsTypeOK, Found, Active, Backing
  <1> QED BY <1>1 DEF BillsInv, BillBacked

LEMMA FindInv == ASSUME BillsInv, NEW r \in Refund, FindBill(r) PROVE BillsInv'
  <1>1. PICK b \in Bill : b = bill[r]
    BY DEF BillsInv, BillsTyped, BillsTypeOK
  <1>2. /\ rpc[r] = "idle" /\ billStatus[b] = "completed" /\ rpc' = [rpc EXCEPT ![r] = "found"]
        /\ UNCHANGED <<billStatus, bill, paid, refunded, completions, unsettled>> /\ RefundStep
        /\ Active(b) = {} => racing' = racing
        /\ Active(b) # {} => racing' = [racing EXCEPT ![b] = @ + 1]
    <2>1. (\E q \in Refund : bill[q] = bill[r] /\ rpc[q] \in {"found", "granted"}) <=> Active(b) # {}
      BY <1>1 DEF Active
    <2>2. racing = [racing EXCEPT ![b] = racing[b]]
      BY DEF BillsInv, BillsTyped
    <2>3. racing' = [racing EXCEPT ![b] = IF Active(b) # {} THEN @ + 1 ELSE @]
      BY <1>1, <2>1 DEF FindBill
    <2>4. /\ Active(b) = {} => racing' = racing
          /\ Active(b) # {} => racing' = [racing EXCEPT ![b] = @ + 1]
      BY <2>2, <2>3
    <2> QED BY <1>1, <2>4 DEF FindBill, Refundable, RefundStep, partnerB, rowsB
  <1>3. /\ racing' \in [Bill -> Nat] /\ racing'[b] = IF Active(b) = {} THEN racing[b] ELSE racing[b] + 1
        /\ \A c \in Bill \ {b} : racing'[c] = racing[c]
    BY <1>2 DEF BillsInv, BillsTyped
  <1>4. BillBacked(b)'
    <2>1. Found(b)' = Found(b) \cup {r} /\ r \notin Found(b) /\ r \in Active(b)'
      BY <1>1, <1>2 DEF BillsInv, BillsTyped, BillsTypeOK, Found, Active
    <2>2. IsFiniteSet(Found(b)') /\ Cardinality(Found(b)') = Cardinality(Found(b)) + 1
      BY <2>1, BillNumbers, FS_AddElement
    <2>3. Backing(b)' = IF Active(b) = {} THEN Backing(b) ELSE Backing(b) + 1
      BY <1>2, <1>3, BillNumbers DEF Backing
    <2>4. Active(b) = {} => refunded[b] + 1 <= Backing(b) /\ Found(b) = {}
      BY <1>2 DEF BillsInv, BillBacked, Active, Found
    <2>5. Active(b) = {} => Cardinality(Found(b)) = 0
      BY <2>4, FS_EmptySet
    <2>6. refunded'[b] + Cardinality(Found(b)') <= Backing(b)'
      BY <1>2, <2>2, <2>3, <2>4, <2>5, BillNumbers
    <2>7. billStatus'[b] # "none"
      BY <1>2
    <2> QED BY <2>1, <2>2, <2>6, <2>7 DEF BillBacked
  <1>5. \A c \in Bill \ {b} : BillBacked(c)'
    BY <1>1, <1>2, <1>3, OtherBill
  <1> QED BY <1>2, <1>3, <1>4, <1>5, RefundRest DEF BillsInv, BillsTyped

LEMMA GrantInv == ASSUME BillsInv, NEW r \in Refund, refundBill(r) PROVE BillsInv'
  <1>1. PICK b \in Bill : b = bill[r]
    BY DEF BillsInv, BillsTyped, BillsTypeOK
  <1>2. /\ rpc[r] = "found" /\ UNCHANGED <<billStatus, bill, paid, completions, unsettled, racing>> /\ RefundStep
        /\ \/ refunded' = [refunded EXCEPT ![b] = @ + 1] /\ rpc' = [rpc EXCEPT ![r] = "granted"]
           \/ refunded' = refunded /\ rpc' = [rpc EXCEPT ![r] = "done"]
    BY <1>1 DEF refundBill, RefundStep, pastB, rowsB
  <1>3. /\ refunded' \in [Bill -> Nat] /\ \A c \in Bill \ {b} : refunded'[c] = refunded[c]
        /\ rpc'[r] # "found" /\ \A q \in Refund \ {r} : rpc'[q] = rpc[q]
        /\ refunded'[b] <= refunded[b] + 1
        /\ refunded'[b] = refunded[b] \/ rpc'[r] = "granted"
    BY <1>2 DEF BillsInv, BillsTyped, BillsTypeOK
  <1>4. BillBacked(b)'
    <2>1. Found(b)' = Found(b) \ {r} /\ r \in Found(b) /\ Backing(b)' = Backing(b)
      BY <1>1, <1>2, <1>3 DEF Found, Backing
    <2>2. IsFiniteSet(Found(b)') /\ Cardinality(Found(b)') = Cardinality(Found(b)) - 1
      BY <2>1, BillNumbers, FS_RemoveElement
    <2>3. /\ refunded'[b] + Cardinality(Found(b)') <= Backing(b)'
          /\ refunded'[b] = refunded[b] => refunded'[b] + 1 <= Backing(b)'
      <3>1. Cardinality(Found(b)') \in Nat /\ refunded'[b] \in Nat
        BY <1>3, <2>2, FS_CardinalityType
      <3> QED BY <1>3, <2>1, <2>2, <3>1, BillNumbers
    <2>4. Active(b)' = {} => refunded'[b] = refunded[b]
      BY <1>1, <1>2, <1>3 DEF Active
    <2>5. billStatus'[b] # "none"
      BY <1>1, <1>2 DEF BillsInv, BillBacked, Active
    <2> QED BY <2>2, <2>3, <2>4, <2>5 DEF BillBacked
  <1>5. \A c \in Bill \ {b} : BillBacked(c)'
    BY <1>1, <1>2, <1>3, OtherBill
  <1> QED BY <1>2, <1>3, <1>4, <1>5, RefundRest DEF BillsInv, BillsTyped

LEMMA SettleInv == ASSUME BillsInv, NEW r \in Refund, ReconcileRefund(r) PROVE BillsInv'
  <1>1. PICK b \in Bill : b = bill[r]
    BY DEF BillsInv, BillsTyped, BillsTypeOK
  <1>2. /\ rpc[r] = "granted" /\ rpc' = [rpc EXCEPT ![r] = "done"]
        /\ UNCHANGED <<reference, bpc, bill, paid, refunded, racing, crossed>>
        /\ \/ Write(b, "refunded") /\ UNCHANGED unsettled
           \/ /\ unsettled' = [unsettled EXCEPT ![b] = @ + 1]
              /\ UNCHANGED <<ofUser, billStatus, completions, revived>>
    BY <1>1 DEF ReconcileRefund, partnerB
  <1>3. \A c \in Bill : Found(c)' = Found(c)
    BY <1>2 DEF BillsInv, BillsTyped, BillsTypeOK, Found
  <1>4. CASE Write(b, "refunded") /\ UNCHANGED unsettled
    <2>1. "refunded" \in Statuses /\ "refunded" # "completed"
      BY DEF Statuses
    <2>2. billStatus[b] # "none"
      BY <1>1, <1>2 DEF BillsInv, BillBacked, Active
    <2>3. StatusStep(b) /\ billStatus'[b] = "refunded"
      BY <1>4, <2>1, <2>2, WriteFacts DEF StatusStep
    <2>4. BillsTyped'
      BY <1>2, <1>4, <2>2, <2>3 DEF StatusStep, BillsInv, BillsTyped, BillsTypeOK, Statuses
    <2>5. BillBacked(b)'
      <3>1. Backing(b)' >= Backing(b) /\ Backing(b)' \in Nat
        BY <1>2, <1>4, <2>3, BillNumbers DEF StatusStep, Backing
      <3> QED BY <1>2, <1>3, <2>3, <3>1, BillNumbers DEF BillBacked
    <2>6. ASSUME NEW c \in Bill \ {b} PROVE BillBacked(c)'
      <3>1. completions'[c] = completions[c] /\ billStatus'[c] = billStatus[c]
        BY <1>4, <2>3 DEF Write, StatusStep, BillsInv, BillsTyped
      <3> QED BY <1>1, <1>2, <1>4, <2>6, <3>1, OtherBill
    <2>7. Checked' = Checked
      BY <1>2, <2>3 DEF Checked, StatusStep
    <2> QED BY <1>2, <2>3, <2>4, <2>5, <2>6, <2>7, RoomInv DEF StatusStep, BillsInv
  <1>5. CASE /\ unsettled' = [unsettled EXCEPT ![b] = @ + 1]
             /\ UNCHANGED <<ofUser, billStatus, completions, revived>>
    <2>1. /\ unsettled' \in [Bill -> Nat] /\ unsettled'[b] = unsettled[b] + 1
          /\ \A c \in Bill \ {b} : unsettled'[c] = unsettled[c]
      BY <1>5 DEF BillsInv, BillsTyped
    <2>2. BillBacked(b)'
      <3>1. Backing(b)' = Backing(b) + 1
        BY <1>2, <1>5, <2>1, BillNumbers DEF Backing
      <3>2. billStatus'[b] # "none"
        BY <1>1, <1>2, <1>5 DEF BillsInv, BillBacked, Active
      <3> QED BY <1>2, <1>3, <3>1, <3>2, BillNumbers DEF BillBacked
    <2>3. \A c \in Bill \ {b} : BillBacked(c)'
      BY <1>1, <1>2, <1>5, <2>1, OtherBill
    <2> QED BY <1>2, <1>5, <2>1, <2>2, <2>3, RefundRest DEF BillsInv, BillsTyped, RefundStep, rowsB
  <1> QED BY <1>2, <1>4, <1>5

LEMMA BillsNextInv == BillsInv /\ [BillsNext]_billsVars => BillsInv'
  <1> SUFFICES ASSUME BillsInv, [BillsNext]_billsVars PROVE BillsInv'
    OBVIOUS
  <1>1. CASE UNCHANGED billsVars
    <2>1. /\ UNCHANGED <<ofUser, billStatus, reference, bpc, rpc, bill, paid, refunded, completions, unsettled, racing, crossed, revived>>
      BY <1>1 DEF billsVars, rowsB, partnerB, pastB
    <2>2. BillsTyped'
      BY <2>1 DEF BillsInv, BillsTyped, BillsTypeOK
    <2>3. Lasting' = Lasting /\ Checked' = Checked /\ Counted' = Counted
      BY <2>1 DEF Lasting, Checked, Counted
    <2>4. \A b \in Bill : Found(b)' = Found(b) /\ Active(b)' = Active(b) /\ Backing(b)' = Backing(b)
      BY <2>1 DEF Found, Active, Backing
    <2> QED BY <2>1, <2>2, <2>3, <2>4 DEF BillsInv, BillBacked, Room
  <1>2. ASSUME NEW b \in Bill,
               \/ checkWithdrawalLimits(b) \/ CreateBill(b) \/ payBill(b) \/ RecordDispatch(b)
               \/ ReconcileAnswer(b) \/ FailBill(b)
               \/ \E s \in {"completed", "failed", "refunded"} : reconcileBillsWebhook(b, s)
        PROVE  BillsInv'
    BY <1>2, CheckInv, CreateInv, DispatchInv, WritingInv
  <1>3. ASSUME NEW r \in Refund, FindBill(r) \/ refundBill(r) \/ ReconcileRefund(r) PROVE BillsInv'
    BY <1>3, FindInv, GrantInv, SettleInv
  <1> QED BY <1>1, <1>2, <1>3 DEF BillsNext

(* For any number of bills, refund requests and webhooks, late and repeated:      *)
(* refundBillPayment is granted once for every completion, but for the refunds    *)
(* that raced and those whose row was not written, and what checkWithdrawalLimits *)
(* lets through with a user's key stays within the limit unless two of the user's *)
(* requests crossed or a late write made a bill count again.                      *)
THEOREM BillsAreSound == BillsSpec => []BillsSound
  <1>1. BillsInv => BillsSound
    <2> SUFFICES ASSUME BillsInv PROVE BillsSound
      OBVIOUS
    <2>1. RefundsBacked
      <3> SUFFICES ASSUME NEW b \in Bill PROVE refunded[b] <= completions[b] + unsettled[b] + racing[b]
        BY DEF RefundsBacked
      <3> QED BY BillNumbers DEF Backing
    <2>2. LimitHeld
      BY DEF BillsInv, Room, LimitHeld, Lasting
    <2> QED BY <2>1, <2>2 DEF BillsSound, BillsInv, BillsTyped
  <1> QED BY <1>1, BillsInitInv, BillsNextInv, PTL DEF BillsSpec

-----------------------------------------------------------------------------
(* Inbound calls: what has passed the chain was signed, in time, and stays what *)
(* it was until it is answered.                                                 *)

Letters == [route : Route, id : EventId \cup {NoId}, flaws : SUBSET Flaws, stamp : Nat]
Statuses200 == {0, 200, 400, 401, 403, 413, 415, 500, 503}
Signed(q) == q.route \in secrets /\ q.flaws \cap {"unsigned", "forged"} = {}

InboundTyped ==
    /\ hour \in Nat /\ letter \in [Delivery -> Letters] /\ reply \in [Delivery -> Statuses200]
    /\ dpc \in [Delivery -> {"idle", "sent", "handle", "done"}]
    /\ rows \subseteq Fiat \X EventId /\ acked \subseteq EventId

CallPassed(d) ==
    /\ letter[d].stamp <= hour
    /\ dpc[d] # "done" => reply[d] = 0
    /\ dpc[d] = "handle" \/ reply[d] = 200 => Signed(letter[d])

RowsSound ==
    /\ \A x, y \in rows : x[2] = y[2] => x = y
    /\ \A i \in acked : \E x \in rows : x[2] = i

InboundInv == InboundTyped /\ ~unfit /\ RowsSound /\ \A d \in Delivery : CallPassed(d)

LEMMA InboundFacts == NoId \notin EventId /\ Tolerance \in Nat
  BY InboundAssumption DEF InboundAssumption

LEMMA InboundInitInv == InboundInit => InboundInv
  BY DEF InboundInit, InboundInv, InboundTyped, RowsSound, CallPassed, NoCall, Letters, Route, Fiat, Statuses200

(* The answer of the chain is one of its refusals, and none when the signature and *)
(* the time were right.                                                            *)
LEMMA ChainAnswers ==
  ASSUME NEW q \in Letters, hour \in Nat
  PROVE  /\ Refusal(q) \in Statuses200 \ {200}
         /\ Refusal(q) = 0 => Signed(q) /\ ~Mismatch(q) /\ hour <= q.stamp + Tolerance
  <1> DEFINE Refuses == Statuses200 \ {200}
             refused == {i \in DOMAIN Chain(q) : Chain(q)[i] # 0}
  <1>1. Signature(q) \in Refuses /\ (Signature(q) = 0 => Signed(q) /\ ~Mismatch(q) /\ hour <= q.stamp + Tolerance)
    BY DEF Signature, verifyMintConfirmationSignature, verifyPaystackSignature, verifyBillsWebhookSignature,
       verifyFlutterwaveSignature, Letters, Route, Statuses200, NoSecret, Mismatch, isTimestampValid, Signed
  <1>2. /\ blockGraphQLQueries(q) \in Refuses /\ validateRequestContentEncoding(q) \in Refuses
        /\ validateWebhookContentType(q) \in Refuses /\ userAgentFilter(q) \in Refuses /\ Parse(q) \in Refuses
    BY DEF blockGraphQLQueries, validateRequestContentEncoding, validateWebhookContentType, userAgentFilter,
       Parse, verifyContentLength, Statuses200
  <1>3. DOMAIN Chain(q) = 1..6 /\ Chain(q)[6] = Signature(q) /\ \A i \in 1..6 : Chain(q)[i] \in Refuses
    <2>1. DOMAIN Chain(q) = 1..6
      BY DEF Chain
    <2>2. /\ Chain(q)[1] = blockGraphQLQueries(q) /\ Chain(q)[2] = validateRequestContentEncoding(q)
          /\ Chain(q)[3] = validateWebhookContentType(q) /\ Chain(q)[4] = Parse(q)
          /\ Chain(q)[5] = userAgentFilter(q) /\ Chain(q)[6] = Signature(q)
      BY DEF Chain
    <2>3. \A i \in 1..6 : i = 1 \/ i = 2 \/ i = 3 \/ i = 4 \/ i = 5 \/ i = 6
      OBVIOUS
    <2> HIDE DEF Refuses
    <2> QED BY <1>1, <1>2, <2>1, <2>2, <2>3
  <1>4. refused # {} => \E i \in refused : \A j \in refused : i <= j
    <2>1. refused \subseteq 1..6
      BY <1>3
    <2> HIDE DEF refused
    <2>2. CASE 1 \in refused
      BY <2>1, <2>2
    <2>3. CASE 1 \notin refused /\ 2 \in refused
      BY <2>1, <2>3
    <2>4. CASE 1 \notin refused /\ 2 \notin refused /\ 3 \in refused
      BY <2>1, <2>4
    <2>5. CASE 1 \notin refused /\ 2 \notin refused /\ 3 \notin refused /\ 4 \in refused
      BY <2>1, <2>5
    <2>6. CASE 1 \notin refused /\ 2 \notin refused /\ 3 \notin refused /\ 4 \notin refused /\ 5 \in refused
      BY <2>1, <2>6
    <2>7. CASE 1 \notin refused /\ 2 \notin refused /\ 3 \notin refused /\ 4 \notin refused /\ 5 \notin refused
      <3>1. \A i \in refused : i = 6
        BY <2>1, <2>7
      <3> QED BY <3>1
    <2> QED BY <2>2, <2>3, <2>4, <2>5, <2>6, <2>7
  <1>5. CASE refused = {}
    <2>1. Refusal(q) = 0
      BY <1>5 DEF Refusal
    <2>2. Signature(q) = 0
      BY <1>3, <1>5
    <2> QED BY <1>1, <2>1, <2>2 DEF Statuses200
  <1>6. CASE refused # {}
    <2> DEFINE first == CHOOSE i \in refused : \A j \in refused : i <= j
    <2>1. first \in refused
      <3> HIDE DEF refused
      <3> QED BY <1>4, <1>6
    <2>2. Refusal(q) = Chain(q)[first]
      BY <1>6 DEF Refusal
    <2> HIDE DEF first
    <2>3. Chain(q)[first] # 0 /\ Chain(q)[first] \in Refuses
      BY <1>3, <2>1
    <2> QED BY <2>2, <2>3
  <1> QED BY <1>5, <1>6

(* A step of one delivery, whose call becomes q, at place p and answered with s. *)
Becomes(d, q, p, s) ==
    /\ UNCHANGED <<hour, secrets>> /\ ~unfit'
    /\ letter' = [letter EXCEPT ![d] = q] /\ dpc' = [dpc EXCEPT ![d] = p] /\ reply' = [reply EXCEPT ![d] = s]
    /\ q \in Letters /\ q.stamp <= hour
    /\ p \in {"idle", "sent", "handle", "done"} /\ s \in Statuses200 /\ (p # "done" => s = 0)
    /\ p = "handle" \/ s = 200 => Signed(q)
RowsStep == rows' \subseteq Fiat \X EventId /\ acked' \subseteq EventId /\ RowsSound'

LEMMA OneCallInv ==
  ASSUME InboundInv, NEW d \in Delivery, NEW q, NEW p, NEW s, Becomes(d, q, p, s), RowsStep
  PROVE  InboundInv'
  <1> USE DEF Becomes, RowsStep
  <1>1. InboundTyped'
    BY DEF InboundInv, InboundTyped
  <1>2. CallPassed(d)'
    BY DEF InboundInv, InboundTyped, CallPassed, Signed
  <1>3. \A e \in Delivery \ {d} : CallPassed(e)'
    BY DEF InboundInv, InboundTyped, CallPassed, Signed
  <1> QED BY <1>1, <1>2, <1>3 DEF InboundInv

(* What a delivery does not change, it keeps. *)
LEMMA SameCall ==
  ASSUME InboundInv, NEW d \in Delivery
  PROVE  /\ letter = [letter EXCEPT ![d] = letter[d]] /\ dpc = [dpc EXCEPT ![d] = dpc[d]]
         /\ reply = [reply EXCEPT ![d] = reply[d]] /\ letter[d] \in Letters /\ reply[d] \in Statuses200
         /\ letter[d].stamp <= hour /\ hour \in Nat
         /\ UNCHANGED <<rows, acked>> => RowsStep
         /\ UNCHANGED unfit => ~unfit'
  BY DEF InboundInv, InboundTyped, CallPassed, RowsSound, RowsStep

LEMMA PartnerInv == ASSUME InboundInv, NEW d \in Delivery, PartnerSends(d) \/ SendAgain(d) PROVE InboundInv'
  <1>1. CASE PartnerSends(d)
    <2>1. /\ dpc[d] = "idle" /\ dpc' = [dpc EXCEPT ![d] = "sent"]
          /\ UNCHANGED <<hour, secrets, reply, rows, unfit, acked>>
      BY <1>1 DEF PartnerSends
    <2>2. reply[d] = 0
      BY <2>1 DEF InboundInv, CallPassed
    <2>3. PICK r \in Route, i \in EventId \cup {NoId}, f \in SUBSET Flaws :
            letter' = [letter EXCEPT ![d] = [route |-> r, id |-> i, flaws |-> f, stamp |-> hour]]
      BY <1>1 DEF PartnerSends
    <2>4. PICK q : q = [route |-> r, id |-> i, flaws |-> f, stamp |-> hour]
      OBVIOUS
    <2>5. q \in Letters /\ q.stamp = hour /\ letter' = [letter EXCEPT ![d] = q] /\ hour <= hour
      BY <2>3, <2>4, SameCall DEF Letters
    <2>6. Becomes(d, q, "sent", 0)
      BY <2>1, <2>2, <2>5, SameCall DEF Statuses200, Becomes
    <2>7. RowsStep
      BY <2>1, SameCall
    <2> QED BY <2>6, <2>7, OneCallInv
  <1>2. CASE SendAgain(d)
    <2>1. /\ dpc' = [dpc EXCEPT ![d] = "sent"] /\ reply' = [reply EXCEPT ![d] = 0]
          /\ UNCHANGED <<hour, secrets, rows, unfit, acked>>
      BY <1>2 DEF SendAgain
    <2>2. PICK t \in {letter[d].stamp, hour} : letter' = [letter EXCEPT ![d].stamp = t]
      BY <1>2 DEF SendAgain
    <2>3. PICK q : q = [letter[d] EXCEPT !.stamp = t]
      OBVIOUS
    <2>4. letter' = [letter EXCEPT ![d] = q] /\ q \in Letters /\ q.stamp = t /\ t <= hour
      BY <2>2, <2>3, SameCall DEF Letters
    <2>5. Becomes(d, q, "sent", 0)
      BY <2>1, <2>4, SameCall DEF Statuses200, Becomes
    <2>6. RowsStep
      BY <2>1, SameCall
    <2> QED BY <2>5, <2>6, OneCallInv
  <1> QED BY <1>1, <1>2

LEMMA ArriveInv == ASSUME InboundInv, NEW d \in Delivery, Arrive(d) PROVE InboundInv'
  <1>1. /\ dpc[d] = "sent" /\ UNCHANGED <<hour, secrets, letter, rows, acked>> /\ reply[d] = 0
    BY DEF Arrive, InboundInv, CallPassed
  <1>2. /\ letter[d] \in Letters /\ hour \in Nat /\ Refusal(letter[d]) \in Statuses200 \ {200}
        /\ Refusal(letter[d]) = 0 =>
              Signed(letter[d]) /\ ~Mismatch(letter[d]) /\ hour <= letter[d].stamp + Tolerance
    BY SameCall, ChainAnswers
  <1>3. CASE Refusal(letter[d]) = 0
    <2>1. /\ dpc' = [dpc EXCEPT ![d] = "handle"] /\ UNCHANGED reply
          /\ unfit' = (unfit \/ Mismatch(letter[d]) \/ hour > letter[d].stamp + Tolerance)
      BY <1>3 DEF Arrive
    <2>2. ~(hour > letter[d].stamp + Tolerance)
      BY <1>2, <1>3, InboundFacts DEF Letters
    <2>3. ~unfit'
      BY <1>2, <1>3, <2>1, <2>2 DEF InboundInv
    <2>4. Becomes(d, letter[d], "handle", reply[d])
      BY <1>1, <1>2, <1>3, <2>1, <2>3, SameCall DEF Becomes
    <2>5. RowsStep
      BY <1>1, SameCall
    <2> QED BY <2>4, <2>5, OneCallInv
  <1>4. CASE Refusal(letter[d]) # 0
    <2>1. dpc' = [dpc EXCEPT ![d] = "done"] /\ reply' = [reply EXCEPT ![d] = Refusal(letter[d])] /\ UNCHANGED unfit
      BY <1>4 DEF Arrive
    <2>2. Becomes(d, letter[d], "done", Refusal(letter[d]))
      BY <1>1, <1>2, <2>1, SameCall DEF Becomes
    <2>3. RowsStep
      BY <1>1, SameCall
    <2> QED BY <2>2, <2>3, OneCallInv
  <1> QED BY <1>3, <1>4

LEMMA AnswerInv ==
  ASSUME InboundInv, NEW d \in Delivery, handleFiatWebhook(d) \/ HandleCall(d) \/ errorHandler(d) PROVE InboundInv'
  <1>1. /\ dpc[d] = "handle" /\ dpc' = [dpc EXCEPT ![d] = "done"]
        /\ UNCHANGED <<hour, secrets, letter, unfit>>
        /\ \E s \in {200, 400, 401, 500} : reply' = [reply EXCEPT ![d] = s]
    BY DEF handleFiatWebhook, HandleCall, errorHandler, Reply
  <1>2. PICK s \in {200, 400, 401, 500} : reply' = [reply EXCEPT ![d] = s]
    BY <1>1
  <1>3. Signed(letter[d])
    BY <1>1 DEF InboundInv, CallPassed
  <1>4. RowsStep
    <2>1. CASE UNCHANGED <<rows, acked>>
      BY <2>1, SameCall
    <2>2. CASE ~UNCHANGED <<rows, acked>>
      <3>1. PICK q \in Letters : q = letter[d]
        BY SameCall
      <3>2. /\ q.route \in Fiat /\ q.id \in EventId /\ acked' = acked \cup {q.id}
            /\ rows' = IF isWebhookEventIdConflict(q) THEN rows ELSE rows \cup {<<q.route, q.id>>}
        <4>1. handleFiatWebhook(d)
          BY <2>2 DEF HandleCall, errorHandler
        <4> QED BY <2>2, <3>1, <4>1 DEF handleFiatWebhook, Letters
      <3>3. RowsSound /\ rows \subseteq Fiat \X EventId /\ acked \subseteq EventId
        BY DEF InboundInv, InboundTyped
      <3>4. CASE isWebhookEventIdConflict(q)
        <4>1. \E x \in rows : x[2] = q.id
          BY <3>4 DEF isWebhookEventIdConflict
        <4> QED BY <3>2, <3>3, <3>4, <4>1 DEF RowsSound, RowsStep
      <3>5. CASE ~isWebhookEventIdConflict(q)
        <4>1. PICK y : y = <<q.route, q.id>>
          OBVIOUS
        <4>2. rows' = rows \cup {y} /\ y \in Fiat \X EventId /\ y[2] = q.id
          BY <3>2, <3>5, <4>1
        <4>3. \A x \in rows : x[2] # q.id
          BY <3>3, <3>5 DEF isWebhookEventIdConflict
        <4> QED BY <3>2, <3>3, <4>2, <4>3 DEF RowsSound, RowsStep
      <3> QED BY <3>4, <3>5
    <2> QED BY <2>1, <2>2
  <1>5. Becomes(d, letter[d], "done", s)
    <2>1. s \in Statuses200
      BY DEF Statuses200
    <2>2. ~unfit' /\ letter' = [letter EXCEPT ![d] = letter[d]] /\ letter[d] \in Letters /\ letter[d].stamp <= hour
      BY <1>1, SameCall
    <2> QED BY <1>1, <1>2, <1>3, <2>1, <2>2 DEF Becomes
  <1> QED BY <1>4, <1>5, OneCallInv

LEMMA InboundNextInv == InboundInv /\ [InboundNext]_inboundVars => InboundInv'
  <1> SUFFICES ASSUME InboundInv, [InboundNext]_inboundVars PROVE InboundInv'
    OBVIOUS
  <1>1. CASE UNCHANGED inboundVars
    BY <1>1 DEF inboundVars, InboundInv, InboundTyped, RowsSound, CallPassed, Signed
  <1>2. CASE HourPasses
    <2>1. hour' = hour + 1 /\ UNCHANGED <<secrets, dpc, letter, reply, rows, unfit, acked>>
      BY <1>2 DEF HourPasses
    <2>2. hour \in Nat /\ \A d \in Delivery : letter[d].stamp \in Nat
      BY DEF InboundInv, InboundTyped, Letters
    <2> QED BY <2>1, <2>2 DEF InboundInv, InboundTyped, RowsSound, CallPassed, Signed
  <1>3. ASSUME NEW d \in Delivery,
               PartnerSends(d) \/ SendAgain(d) \/ Arrive(d) \/ handleFiatWebhook(d) \/ HandleCall(d) \/ errorHandler(d)
        PROVE  InboundInv'
    BY <1>3, PartnerInv, ArriveInv, AnswerInv
  <1> QED BY <1>1, <1>2, <1>3 DEF InboundNext

(* Through the whole chain of index.ts and the signature checks, for any number   *)
(* of calls delayed and repeated: none that is forged, unsigned or too old has    *)
(* its handler run, an event has one row, and what was acknowledged has one.      *)
THEOREM InboundIsSound == InboundSpec => []InboundSound
  <1>1. InboundInv => InboundSound
    <2> SUFFICES ASSUME InboundInv PROVE InboundSound
      OBVIOUS
    <2>1. InboundTypeOK
      BY DEF InboundInv, InboundTyped, InboundTypeOK, CallPassed, Letters, Statuses200
    <2>2. \A d \in Delivery : reply[d] = 200 => Signed(letter[d])
      BY DEF InboundInv, CallPassed
    <2> QED BY <2>1, <2>2 DEF InboundInv, InboundSound, RowsSound, Signed
  <1> QED BY <1>1, InboundInitInv, InboundNextInv, PTL DEF InboundSpec

-----------------------------------------------------------------------------
(* Payouts: a reference is chosen once, before anything is sent, and what was  *)
(* made is under it; a payout made without a lost answer was answered.         *)

Refs == {NoRef} \cup ({"now"} \X Nat) \cup ({"unique"} \X Payout)

ProvidersTyped ==
    /\ ProvidersTypeOK /\ via \in [Payout -> Client] /\ what \in [Payout -> {"pay", "balance"}]
    /\ payRef \in [Payout -> Refs] /\ used \in [Client -> SUBSET Refs]
    /\ bearer \in [Payout -> Nat \cup {NoToken}] /\ began \in [Payout -> Nat]
    /\ made \in [Payout -> Nat] /\ unclear \subseteq Payout

PayoutSound(k) ==
    /\ ppc[k] \in {"idle", "token"} => made[k] = 0 /\ k \notin unclear
    /\ (ppc[k] \in {"send", "sent"} \/ made[k] > 0) /\ what[k] = "pay" /\ via[k] # "flutterwave" => payRef[k] # NoRef
    /\ made[k] > 0 => what[k] = "pay"
    /\ made[k] > 0 /\ payRef[k] # NoRef => payRef[k] \in used[via[k]] /\ made[k] <= 1
    /\ made[k] > 0 /\ k \notin unclear => ppc[k] = "ok" /\ made[k] = 1
    /\ ppc[k] = "ok" /\ what[k] = "pay" => made[k] > 0

BearerGood(k) ==
    via[k] = "mtn" /\ ppc[k] \in {"send", "sent"} => bearer[k] \in Nat /\ bearer[k] > began[k] + Margin

ProvidersInv == ProvidersTyped /\ ~stale /\ \A k \in Payout : PayoutSound(k) /\ BearerGood(k)

LEMMA ProvidersFacts ==
  /\ Margin \in Nat /\ Life \in Nat /\ Life > Margin /\ HttpRetries \in Nat /\ MaxTime \in Nat /\ NoToken \notin Nat
  /\ \A r \in Refs : r # NoRef <=> r \in ({"now"} \X Nat) \cup ({"unique"} \X Payout)
  <1>1. Margin \in Nat /\ Life \in Nat /\ Life > Margin /\ HttpRetries \in Nat /\ MaxTime \in Nat /\ NoToken \notin Nat
    BY ProvidersAssumption DEF ProvidersAssumption
  <1>2. \A r \in ({"now"} \X Nat) \cup ({"unique"} \X Payout) : r[1] # "none"
    OBVIOUS
  <1>3. NoRef[1] = "none"
    BY DEF NoRef
  <1> QED BY <1>1, <1>2, <1>3 DEF Refs

LEMMA ProvidersInitInv == ProvidersInit => ProvidersInv
  <1> USE ProvidersFacts
  <1> SUFFICES ASSUME ProvidersInit PROVE ProvidersInv
    OBVIOUS
  <1>1. NoRef \in Refs
    BY DEF Refs
  <1>2. ProvidersTyped
    BY <1>1 DEF ProvidersInit, ProvidersTyped, ProvidersTypeOK
  <1> QED BY <1>2 DEF ProvidersInit, ProvidersInv, PayoutSound, BearerGood

(* What a step of k does not touch stays as it was. *)
LEMMA OtherPayouts ==
  ASSUME ProvidersInv, NEW k \in Payout, ProvidersTyped', ~stale', UNCHANGED <<via, what>>,
         \A j \in Payout \ {k} : /\ ppc'[j] = ppc[j] /\ payRef'[j] = payRef[j] /\ made'[j] = made[j]
                                 /\ bearer'[j] = bearer[j] /\ began'[j] = began[j]
                                 /\ j \in unclear' <=> j \in unclear,
         \A c \in Client : used[c] \subseteq used'[c],
         PayoutSound(k)', BearerGood(k)'
  PROVE  ProvidersInv'
  <1>1. ASSUME NEW j \in Payout \ {k} PROVE PayoutSound(j)' /\ BearerGood(j)'
    <2>1. via[j] \in Client /\ PayoutSound(j) /\ BearerGood(j) /\ via'[j] = via[j] /\ what'[j] = what[j]
      BY DEF ProvidersInv, ProvidersTyped
    <2>2. used[via[j]] \subseteq used'[via[j]]
      BY <2>1
    <2>3. PayoutSound(j)'
      BY <2>1, <2>2 DEF PayoutSound
    <2>4. BearerGood(j)'
      BY <2>1 DEF BearerGood
    <2> QED BY <2>3, <2>4
  <1> QED BY <1>1 DEF ProvidersInv

(* The request of k is built: its reference is that of the call, and its token is good. *)
LEMMA LeavesFacts ==
  ASSUME ProvidersInv, NEW k \in Payout, NEW t \in Nat \cup {NoToken}, Leaves(k, t), made[k] = 0, k \notin unclear,
         UNCHANGED <<made, unclear, used>>, via[k] = "mtn" => t \in Nat /\ t > second + Margin
  PROVE  /\ ppc' \in [Payout -> {"idle", "token", "send", "sent", "ok", "failed"}]
         /\ payRef' \in [Payout -> Refs] /\ bearer' \in [Payout -> Nat \cup {NoToken}] /\ began' \in [Payout -> Nat]
         /\ UNCHANGED <<via, what>>
         /\ \A j \in Payout \ {k} : ppc'[j] = ppc[j] /\ payRef'[j] = payRef[j] /\ bearer'[j] = bearer[j] /\ began'[j] = began[j]
         /\ PayoutSound(k)' /\ BearerGood(k)'
  <1> USE ProvidersFacts
  <1>1. PICK l \in {"failed", "send"} : ppc' = [ppc EXCEPT ![k] = l]
    BY DEF Leaves, PayStage
  <1>2. /\ payRef' = [payRef EXCEPT ![k] = referenceId(k)] /\ bearer' = [bearer EXCEPT ![k] = t]
        /\ began' = [began EXCEPT ![k] = second] /\ UNCHANGED <<via, what>>
    BY DEF Leaves
  <1>3. second \in Nat
    BY DEF ProvidersInv, ProvidersTyped, ProvidersTypeOK
  <1>4. /\ referenceId(k) \in Refs
        /\ what[k] = "pay" /\ via[k] # "flutterwave" => referenceId(k) # NoRef
    <2>1. /\ <<"now", second>> \in {"now"} \X Nat /\ <<"unique", k>> \in {"unique"} \X Payout
          /\ <<"now", second>> \in Refs /\ <<"unique", k>> \in Refs /\ NoRef \in Refs
      BY <1>3 DEF Refs
    <2>2. <<"now", second>> # NoRef /\ <<"unique", k>> # NoRef
      BY <2>1
    <2>3. referenceId(k) = NoRef \/ referenceId(k) = <<"now", second>> \/ referenceId(k) = <<"unique", k>>
      BY DEF referenceId
    <2>4. what[k] = "pay" /\ via[k] # "flutterwave" =>
             referenceId(k) = <<"now", second>> \/ referenceId(k) = <<"unique", k>>
      BY DEF referenceId
    <2> QED BY <2>1, <2>2, <2>3, <2>4
  <1>5. /\ ppc' \in [Payout -> {"idle", "token", "send", "sent", "ok", "failed"}] /\ ppc'[k] = l
        /\ payRef' \in [Payout -> Refs] /\ payRef'[k] = referenceId(k)
        /\ bearer' \in [Payout -> Nat \cup {NoToken}] /\ bearer'[k] = t
        /\ began' \in [Payout -> Nat] /\ began'[k] = second
        /\ \A j \in Payout \ {k} : ppc'[j] = ppc[j] /\ payRef'[j] = payRef[j] /\ bearer'[j] = bearer[j] /\ began'[j] = began[j]
    BY <1>1, <1>2, <1>3, <1>4 DEF ProvidersInv, ProvidersTyped, ProvidersTypeOK
  <1>6. PayoutSound(k)'
    BY <1>2, <1>4, <1>5 DEF PayoutSound
  <1>7. BearerGood(k)'
    BY <1>2, <1>5 DEF BearerGood
  <1> QED BY <1>2, <1>5, <1>6, <1>7

(* The steps that build the request of k, or do not get that far. *)
LEMMA BuildInv == ASSUME ProvidersInv, NEW k \in Payout, disburseFunds(k) \/ ensureToken(k) PROVE ProvidersInv'
  <1> USE ProvidersFacts
  <1>1. /\ ppc[k] \in {"idle", "token"} /\ UNCHANGED <<second, resends, used, made, unclear, stale>>
        /\ made[k] = 0 /\ k \notin unclear
        /\ second \in Nat /\ token \in Nat \cup {NoToken} /\ second' \in 0..MaxTime
    BY DEF disburseFunds, ensureToken, ProvidersInv, PayoutSound, ProvidersTyped, ProvidersTypeOK
  <1>2. token' \in Nat \cup {NoToken} /\ open' \subseteq Client
    BY <1>1 DEF disburseFunds, ensureToken, Failure, Client, ProvidersInv, ProvidersTyped, ProvidersTypeOK
  <1>3. \/ \E t \in Nat \cup {NoToken} : Leaves(k, t) /\ (via[k] = "mtn" => t \in Nat /\ t > second + Margin)
        \/ \E l \in {"failed", "token"} : PayStage(k, l) /\ UNCHANGED callVars
    <2>1. CASE ensureToken(k)
      <3>1. CASE token' = second + Life /\ Leaves(k, token')
        <4>1. token' \in Nat /\ token' > second + Margin
          BY <1>1, <3>1
        <4> QED BY <3>1, <4>1
      <3>2. CASE PayStage(k, "failed") /\ UNCHANGED <<token, callVars>>
        BY <3>2
      <3> QED BY <2>1, <3>1, <3>2 DEF ensureToken
    <2>2. CASE disburseFunds(k)
      <3>1. CASE via[k] = "mtn" /\ ~TokenGood
        BY <2>2, <3>1 DEF disburseFunds
      <3>2. CASE via[k] = "mtn" /\ TokenGood
        <4>1. Leaves(k, token) /\ token \in Nat /\ token > second + Margin
          BY <1>1, <2>2, <3>2 DEF disburseFunds, TokenGood
        <4> QED BY <4>1
      <3>3. CASE via[k] # "mtn"
        BY <2>2, <3>3 DEF disburseFunds
      <3> QED BY <3>1, <3>2, <3>3
    <2> QED BY <2>1, <2>2
  <1>4. ASSUME NEW t \in Nat \cup {NoToken}, Leaves(k, t), via[k] = "mtn" => t \in Nat /\ t > second + Margin
        PROVE  ProvidersInv'
    <2>1. ProvidersTyped'
      BY <1>1, <1>2, <1>4, LeavesFacts DEF ProvidersInv, ProvidersTyped, ProvidersTypeOK
    <2> QED BY <1>1, <1>4, <2>1, LeavesFacts, OtherPayouts DEF ProvidersInv
  <1>5. ASSUME NEW l \in {"failed", "token"}, PayStage(k, l), UNCHANGED callVars
        PROVE  ProvidersInv'
    <2>1. ppc' = [ppc EXCEPT ![k] = l] /\ UNCHANGED <<via, what, payRef, bearer, began>>
      BY <1>5 DEF PayStage, callVars
    <2>2. ProvidersTyped' /\ ppc'[k] = l /\ \A j \in Payout \ {k} : ppc'[j] = ppc[j]
      BY <1>1, <1>2, <2>1 DEF ProvidersInv, ProvidersTyped, ProvidersTypeOK
    <2>3. PayoutSound(k)' /\ BearerGood(k)'
      BY <1>1, <2>1, <2>2 DEF PayoutSound, BearerGood
    <2> QED BY <1>1, <2>1, <2>2, <2>3, OtherPayouts DEF ProvidersInv
  <1> QED BY <1>3, <1>4, <1>5

LEMMA SendPayoutInv == ASSUME ProvidersInv, NEW k \in Payout, SendPayout(k) PROVE ProvidersInv'
  <1> USE ProvidersFacts
  <1>1. /\ ppc[k] = "send" /\ ppc' = [ppc EXCEPT ![k] = "sent"]
        /\ UNCHANGED <<second, via, what, payRef, bearer, began, resends, token, open, used, made, unclear>>
        /\ stale' = (stale \/ (via[k] = "mtn" /\ second <= began[k] + Margin /\ bearer[k] <= second))
    BY DEF SendPayout, PayStage, callVars
  <1>2. ~(via[k] = "mtn" /\ second <= began[k] + Margin /\ bearer[k] <= second)
    <2>1. BearerGood(k) /\ second \in Nat /\ began[k] \in Nat
      BY DEF ProvidersInv, ProvidersTyped, ProvidersTypeOK
    <2> QED BY <1>1, <2>1 DEF BearerGood
  <1>3. ~stale'
    BY <1>1, <1>2 DEF ProvidersInv
  <1>4. ProvidersTyped' /\ ppc'[k] = "sent" /\ \A j \in Payout \ {k} : ppc'[j] = ppc[j]
    BY <1>1 DEF ProvidersInv, ProvidersTyped, ProvidersTypeOK
  <1>5. PayoutSound(k)' /\ BearerGood(k)'
    BY <1>1, <1>4 DEF ProvidersInv, PayoutSound, BearerGood
  <1> QED BY <1>1, <1>3, <1>4, <1>5, OtherPayouts

(* The provider acts, and its answer is lost or not. *)
LEMMA ActsFacts ==
  ASSUME ProvidersInv, NEW k \in Payout, Admits(k), Acts(k), ppc[k] = "sent", UNCHANGED <<via, what, payRef>>
  PROVE  /\ made' \in [Payout -> Nat] /\ used' \in [Client -> SUBSET Refs]
         /\ \A j \in Payout \ {k} : made'[j] = made[j]
         /\ \A c \in Client : used[c] \subseteq used'[c]
         /\ what[k] = "pay" => made'[k] = made[k] + 1
         /\ made'[k] > 0 => what[k] = "pay"
         /\ made'[k] > 0 /\ payRef[k] # NoRef => payRef[k] \in used'[via[k]] /\ made'[k] <= 1
         /\ made[k] > 0 => k \in unclear
         /\ what[k] = "pay" /\ via[k] # "flutterwave" => payRef[k] # NoRef
  <1>1. /\ made \in [Payout -> Nat] /\ used \in [Client -> SUBSET Refs] /\ via[k] \in Client
        /\ payRef[k] \in Refs /\ PayoutSound(k)
    BY DEF ProvidersInv, ProvidersTyped
  <1>2. /\ used' \in [Client -> SUBSET Refs] /\ \A c \in Client : used[c] \subseteq used'[c]
        /\ payRef[k] # NoRef => payRef[k] \in used'[via[k]]
    <2>1. used' = [used EXCEPT ![via[k]] = used[via[k]] \cup ({payRef[k]} \ {NoRef})]
      BY DEF Acts
    <2> QED BY <1>1, <2>1
  <1>3. /\ made' \in [Payout -> Nat] /\ \A j \in Payout \ {k} : made'[j] = made[j]
        /\ made'[k] = IF what[k] = "pay" THEN made[k] + 1 ELSE made[k]
    BY <1>1 DEF Acts
  <1>4. payRef[k] # NoRef => made[k] = 0
    BY <1>1 DEF Admits, PayoutSound
  <1>5. (made[k] > 0 => k \in unclear) /\ (made[k] > 0 => what[k] = "pay")
    BY <1>1 DEF PayoutSound
  <1>6. what[k] = "pay" /\ via[k] # "flutterwave" => payRef[k] # NoRef
    BY <1>1 DEF PayoutSound
  <1> QED BY <1>1, <1>2, <1>3, <1>4, <1>5, <1>6

LEMMA AnsweredInv ==
  ASSUME ProvidersInv, NEW k \in Payout, Succeeds(k) \/ Refused(k) \/ attachRetryInterceptor(k) PROVE ProvidersInv'
  <1> USE ProvidersFacts
  <1>1. /\ ppc[k] = "sent" /\ UNCHANGED <<second, via, what, payRef, bearer, began, token, stale>>
        /\ PayoutSound(k) /\ BearerGood(k)
    BY DEF Succeeds, Refused, attachRetryInterceptor, callVars, ProvidersInv
  <1>2. PICK l \in {"ok", "failed", "send"} : ppc' = [ppc EXCEPT ![k] = l]
    BY DEF Succeeds, Refused, attachRetryInterceptor, PayStage
  <1>3. /\ ppc' \in [Payout -> {"idle", "token", "send", "sent", "ok", "failed"}] /\ ppc'[k] = l
        /\ \A j \in Payout \ {k} : ppc'[j] = ppc[j]
    BY <1>2 DEF ProvidersInv, ProvidersTyped, ProvidersTypeOK
  <1>4. open' \subseteq Client /\ resends' \in [Payout -> 0..HttpRetries]
    <2>1. via[k] \in Client /\ open \subseteq Client /\ resends \in [Payout -> 0..HttpRetries]
      BY DEF ProvidersInv, ProvidersTyped, ProvidersTypeOK
    <2>2. open' \subseteq Client
      BY <2>1 DEF Succeeds, Refused, attachRetryInterceptor, Failure
    <2>3. resends' = resends \/ (resends[k] < HttpRetries /\ resends' = [resends EXCEPT ![k] = @ + 1])
      BY DEF Succeeds, Refused, attachRetryInterceptor, Again
    <2>4. resends' \in [Payout -> 0..HttpRetries]
      <3>1. resends[k] < HttpRetries => resends[k] + 1 \in 0..HttpRetries
        BY <2>1
      <3> QED BY <2>1, <2>3, <3>1
    <2> QED BY <2>2, <2>4
  <1>5. BearerGood(k)'
    BY <1>1, <1>3 DEF BearerGood
  <1>6. CASE Succeeds(k)
    <2>1. Admits(k) /\ Acts(k) /\ ppc' = [ppc EXCEPT ![k] = "ok"] /\ UNCHANGED unclear
      BY <1>6 DEF Succeeds, PayStage
    <2>2. ppc'[k] = "ok"
      BY <2>1 DEF ProvidersInv, ProvidersTyped, ProvidersTypeOK
    <2>3. ProvidersTyped'
      BY <1>1, <1>3, <1>4, <2>1, ActsFacts DEF ProvidersInv, ProvidersTyped, ProvidersTypeOK
    <2>4. PayoutSound(k)'
      <3>1. made[k] \in Nat /\ made'[k] \in Nat
        BY <2>3 DEF ProvidersInv, ProvidersTyped
      <3> QED BY <1>1, <2>1, <2>2, <3>1, ActsFacts DEF PayoutSound
    <2> QED BY <1>1, <1>3, <1>5, <2>1, <2>3, <2>4, ActsFacts, OtherPayouts DEF ProvidersInv
  <1>7. CASE Admits(k) /\ Acts(k) /\ unclear' = unclear \cup {k} /\ l # "ok"
    <2>1. ProvidersTyped'
      BY <1>1, <1>3, <1>4, <1>7, ActsFacts DEF ProvidersInv, ProvidersTyped, ProvidersTypeOK
    <2>2. PayoutSound(k)'
      <3>1. made[k] \in Nat /\ made'[k] \in Nat
        BY <2>1 DEF ProvidersInv, ProvidersTyped
      <3> QED BY <1>1, <1>3, <1>7, <3>1, ActsFacts DEF PayoutSound
    <2> QED BY <1>1, <1>3, <1>5, <1>7, <2>1, <2>2, ActsFacts, OtherPayouts DEF ProvidersInv
  <1>8. CASE UNCHANGED <<made, used, unclear>> /\ l # "ok"
    <2>1. ProvidersTyped'
      BY <1>1, <1>3, <1>4, <1>8 DEF ProvidersInv, ProvidersTyped, ProvidersTypeOK
    <2>2. PayoutSound(k)'
      BY <1>1, <1>3, <1>8 DEF PayoutSound
    <2> QED BY <1>1, <1>3, <1>5, <1>8, <2>1, <2>2, OtherPayouts DEF ProvidersInv
  <1>9. Succeeds(k) \/ l # "ok"
    <2>1. ~Succeeds(k) => ppc'[k] # "ok"
      BY DEF ProvidersInv, ProvidersTyped, ProvidersTypeOK, Refused, attachRetryInterceptor, PayStage
    <2> QED BY <1>3, <2>1
  <1> QED BY <1>6, <1>7, <1>8, <1>9 DEF Refused, attachRetryInterceptor

LEMMA ProvidersNextInv == ProvidersInv /\ [ProvidersNext]_providerVars => ProvidersInv'
  <1> USE ProvidersFacts
  <1> SUFFICES ASSUME ProvidersInv, [ProvidersNext]_providerVars PROVE ProvidersInv'
    OBVIOUS
  <1>1. CASE UNCHANGED providerVars
    BY <1>1 DEF providerVars, ProvidersInv, ProvidersTyped, ProvidersTypeOK, PayoutSound, BearerGood
  <1>2. CASE SecondsPass \/ \E c \in Client : CoolsDown(c)
    <2>1. /\ UNCHANGED <<via, what, payRef, bearer, began, ppc, resends, token, used, made, unclear, stale>>
          /\ second' \in 0..MaxTime /\ open' \subseteq Client
      BY <1>2 DEF SecondsPass, CoolsDown, callVars, ProvidersInv, ProvidersTyped, ProvidersTypeOK
    <2> QED BY <2>1 DEF ProvidersInv, ProvidersTyped, ProvidersTypeOK, PayoutSound, BearerGood
  <1>3. ASSUME NEW k \in Payout,
               \/ disburseFunds(k) \/ ensureToken(k) \/ SendPayout(k) \/ Succeeds(k) \/ Refused(k)
               \/ attachRetryInterceptor(k)
        PROVE  ProvidersInv'
    BY <1>3, BuildInv, SendPayoutInv, AnsweredInv
  <1> QED BY <1>1, <1>2, <1>3 DEF ProvidersNext

(* For any number of calls, resends and renewals of the token: disburseFunds     *)
(* answered with success made its payout, attachRetryInterceptor makes none of   *)
(* Paystack or MTN twice, one of Flutterwave only after a lost answer, and the   *)
(* header that ensureToken set outlives the margin.                              *)
THEOREM PayoutsAreAccounted == ProvidersSpec => []PayoutsAccounted
  <1>1. ProvidersInv => PayoutsAccounted
    <2> SUFFICES ASSUME ProvidersInv PROVE PayoutsAccounted
      OBVIOUS
    <2>1. ASSUME NEW k \in Payout
          PROVE  /\ ppc[k] = "ok" /\ what[k] = "pay" => made[k] > 0
                 /\ via[k] # "flutterwave" \/ k \notin unclear => made[k] <= 1
                 /\ ppc[k] = "failed" /\ made[k] > 0 => k \in unclear
      <3>1. PayoutSound(k) /\ made[k] \in Nat
        BY DEF ProvidersInv, ProvidersTyped
      <3> QED BY <3>1 DEF PayoutSound
    <2> QED BY <2>1 DEF ProvidersInv, ProvidersTyped, PayoutsAccounted
  <1> QED BY <1>1, ProvidersInitInv, ProvidersNextInv, PTL DEF ProvidersSpec

-----------------------------------------------------------------------------
(* Salary: one request has the batch; what an item or its result shows was paid, *)
(* and no other payment went out but those that were misread.                    *)

SalaryTyped ==
    /\ SalaryTypeOK
    /\ transfers \in [Disburse -> [Item -> Nat]] /\ misread \in [Item -> Nat]

Outcomes == {"skip", "todo", "rejected", "pending", "completed", "failed"}

OneBatch == \A d, e \in Disburse : batch[d] # "none" /\ batch[e] # "none" => d = e

Completed(d) == {i \in Item : item[d][i] = "completed"}
Shown(d, i)  ==
    IF spc[d] = "pay" THEN outcome[d][i] \in {"skip", "completed"} ELSE item[d][i] = "completed"

PaidSound(d, i) ==
    /\ transfers[d][i] <= 1 + misread[i]
    /\ ~Shown(d, i) => transfers[d][i] <= misread[i]
    /\ Shown(d, i) \/ item[d][i] = "completed" => transfers[d][i] > 0
    /\ batch[d] = "none" => transfers[d][i] = 0 /\ item[d][i] = "pending"

ResultSound(d, i) ==
    /\ spc[d] \in {"take", "pay", "close"} /\ outcome[d][i] = "skip" => item[d][i] = "completed"
    /\ spc[d] = "take" => /\ outcome[d][i] \in {"skip", "todo"}
                          /\ item[d][i] = "completed" => outcome[d][i] = "skip"
    /\ spc[d] = "pay" /\ item[d][i] = "completed" => outcome[d][i] \in {"skip", "completed", "rejected"}
    /\ spc[d] = "close" => (item[d][i] = "completed" <=> outcome[d][i] \in {"skip", "completed"})

StatusSound(d) ==
    /\ batch[d] = "completed" => Completed(d) = Item
    /\ batch[d] = "partially_completed" => Completed(d) \notin {{}, Item}
    /\ batch[d] = "failed" => Completed(d) = {}

BatchSound(d) ==
    /\ batch[d] = "none" <=> spc[d] \in {"new", "looked", "answered"}
    /\ spc[d] = "take" => batch[d] \in {"pending", "failed"}
    /\ spc[d] \in {"pay", "close"} => batch[d] = "processing"
    /\ spc[d] = "process" /\ batch[d] = "processing" => errors > 0
    /\ spc[d] = "done" => batch[d] \in Final \/ errors > 0
    /\ spc[d] # "done" => tries[d] < MaxTries

SalaryInv ==
    /\ SalaryTyped /\ OneBatch
    /\ \A d \in Disburse : /\ BatchSound(d) /\ StatusSound(d)
                           /\ \A i \in Item : PaidSound(d, i) /\ ResultSound(d, i)

LEMMA SalaryFacts == MaxTries \in Nat \ {0} /\ MaxErrors \in Nat
  BY SalaryAssumption DEF SalaryAssumption

LEMMA SalaryInitInv == SalaryInit => SalaryInv
  <1> USE SalaryFacts
  <1> SUFFICES ASSUME SalaryInit PROVE SalaryInv
    OBVIOUS
  <1>1. SalaryTyped /\ OneBatch
    BY DEF SalaryInit, SalaryTyped, SalaryTypeOK, OneBatch, Final, Outcomes, Answers
  <1>2. ASSUME NEW d \in Disburse PROVE BatchSound(d) /\ StatusSound(d)
    BY DEF SalaryInit, BatchSound, StatusSound
  <1>3. ASSUME NEW d \in Disburse, NEW i \in Item PROVE PaidSound(d, i) /\ ResultSound(d, i)
    BY DEF SalaryInit, PaidSound, ResultSound, Shown
  <1> QED BY <1>1, <1>2, <1>3 DEF SalaryInv

(* A step of one request leaves the others as they are. *)
Others(d) ==
    /\ \A e \in Disburse \ {d} : /\ spc'[e] = spc[e] /\ batch'[e] = batch[e] /\ tries'[e] = tries[e]
                                 /\ item'[e] = item[e] /\ outcome'[e] = outcome[e] /\ transfers'[e] = transfers[e]
    /\ \A i \in Item : misread'[i] >= misread[i]
    /\ errors' >= errors

LEMMA OneRequestInv ==
  ASSUME SalaryInv, NEW d \in Disburse, SalaryTyped', OneBatch', Others(d), BatchSound(d)', StatusSound(d)',
         \A i \in Item : PaidSound(d, i)' /\ ResultSound(d, i)'
  PROVE  SalaryInv'
  <1> SUFFICES ASSUME NEW e \in Disburse \ {d}
               PROVE  /\ BatchSound(e)' /\ StatusSound(e)'
                      /\ \A i \in Item : PaidSound(e, i)' /\ ResultSound(e, i)'
    BY DEF SalaryInv
  <1>1. /\ spc'[e] = spc[e] /\ batch'[e] = batch[e] /\ tries'[e] = tries[e]
        /\ item'[e] = item[e] /\ outcome'[e] = outcome[e] /\ transfers'[e] = transfers[e]
        /\ errors' >= errors /\ errors \in Nat /\ errors' \in Nat
    BY SalaryFacts DEF Others, SalaryInv, SalaryTyped, SalaryTypeOK
  <1>2. BatchSound(e)'
    BY <1>1 DEF SalaryInv, BatchSound
  <1>3. StatusSound(e)'
    BY <1>1 DEF SalaryInv, StatusSound, Completed
  <1>4. ASSUME NEW i \in Item PROVE PaidSound(e, i)' /\ ResultSound(e, i)'
    <2>1. /\ misread'[i] >= misread[i] /\ misread[i] \in Nat /\ misread'[i] \in Nat /\ transfers[e][i] \in Nat
          /\ PaidSound(e, i) /\ ResultSound(e, i)
      BY DEF Others, SalaryInv, SalaryTyped
    <2>2. PaidSound(e, i)'
      BY <1>1, <2>1 DEF PaidSound, Shown
    <2>3. ResultSound(e, i)'
      BY <1>1, <2>1 DEF ResultSound
    <2> QED BY <2>2, <2>3
  <1> QED BY <1>2, <1>3, <1>4

(* An error: another try or the end, with one error more. *)
RetriesTo(d, to) == spc' = [spc EXCEPT ![d] = to] /\ (to = "process" => tries[d] + 1 < MaxTries)

LEMMA ThrowsFacts ==
  ASSUME SalaryInv, NEW d \in Disburse, Throws(d), spc[d] # "done"
  PROVE  /\ \E to \in {"process", "done"} : RetriesTo(d, to)
         /\ tries' \in [Disburse -> 0..MaxTries] /\ tries'[d] = tries[d] + 1
         /\ \A e \in Disburse \ {d} : tries'[e] = tries[e]
         /\ errors' \in 0..MaxErrors /\ errors' > 0 /\ errors' >= errors
  <1> USE SalaryFacts
  <1>1. /\ tries \in [Disburse -> 0..MaxTries] /\ tries[d] < MaxTries /\ errors \in 0..MaxErrors
    BY DEF SalaryInv, SalaryTyped, SalaryTypeOK, BatchSound
  <1>2. tries[d] + 1 \in 0..MaxTries
    BY <1>1
  <1>3. tries' = [tries EXCEPT ![d] = @ + 1] /\ errors < MaxErrors /\ errors' = errors + 1
    BY DEF Throws, Errs
  <1>4. \E to \in {"process", "done"} : RetriesTo(d, to)
    <2>1. CASE tries[d] + 1 < MaxTries
      BY <2>1 DEF Throws, RetriesTo
    <2>2. CASE ~(tries[d] + 1 < MaxTries)
      BY <2>2 DEF Throws, RetriesTo
    <2> QED BY <2>1, <2>2
  <1> QED BY <1>1, <1>2, <1>3, <1>4

(* The request and its batch, before anything is processed. *)
LEMMA LookInv == ASSUME SalaryInv, NEW d \in Disburse, FindBatch(d) \/ createSalaryBatch(d) PROVE SalaryInv'
  <1> USE SalaryFacts
  <1>1. /\ UNCHANGED <<tries, item, outcome, transfers, errors, misread>>
        /\ spc[d] \in {"new", "looked"}
        /\ BatchSound(d) /\ batch[d] = "none"
    BY DEF FindBatch, createSalaryBatch, Stage, SalaryInv, BatchSound
  <1>2. \/ \E l \in {"answered", "looked"} : spc' = [spc EXCEPT ![d] = l] /\ UNCHANGED batch
        \/ KeyFree /\ spc' = [spc EXCEPT ![d] = "process"] /\ batch' = [batch EXCEPT ![d] = "pending"]
    BY DEF FindBatch, createSalaryBatch, Stage
  <1>3. /\ spc' \in [Disburse -> {"new", "looked", "process", "take", "pay", "write", "close", "answered", "done"}]
        /\ batch' \in [Disburse -> Final \cup {"none", "pending", "processing"}]
        /\ \A e \in Disburse \ {d} : spc'[e] = spc[e] /\ batch'[e] = batch[e]
        /\ \/ spc'[d] \in {"answered", "looked"} /\ batch'[d] = "none"
           \/ spc'[d] = "process" /\ batch'[d] = "pending" /\ KeyFree
    BY <1>1, <1>2 DEF SalaryInv, SalaryTyped, SalaryTypeOK
  <1>4. SalaryTyped'
    BY <1>1, <1>3 DEF SalaryInv, SalaryTyped, SalaryTypeOK
  <1>5. OneBatch'
    BY <1>3 DEF SalaryInv, OneBatch, KeyFree
  <1>6. Others(d)
    BY <1>1, <1>3 DEF Others, SalaryInv, SalaryTyped, SalaryTypeOK
  <1>7. BatchSound(d)' /\ StatusSound(d)'
    BY <1>1, <1>3 DEF BatchSound, StatusSound
  <1>8. ASSUME NEW i \in Item PROVE PaidSound(d, i)' /\ ResultSound(d, i)'
    <2>1. PaidSound(d, i)
      BY DEF SalaryInv
    <2> QED BY <1>1, <1>3, <2>1 DEF PaidSound, Shown, ResultSound
  <1> QED BY <1>4, <1>5, <1>6, <1>7, <1>8, OneRequestInv

(* The steps that leave the items and the payments alone. *)
LEMMA StageInv ==
  ASSUME SalaryInv, NEW d \in Disburse, processSalaryBatch(d) \/ TakeBatch(d) PROVE SalaryInv'
  <1> USE SalaryFacts
  <1>1. /\ UNCHANGED <<item, transfers, misread>>
        /\ spc[d] \in {"process", "take"} /\ BatchSound(d) /\ StatusSound(d)
        /\ \A i \in Item : PaidSound(d, i) /\ ResultSound(d, i)
    BY DEF processSalaryBatch, TakeBatch, SalaryInv
  <1>2. batch' = batch \/ (batch' = [batch EXCEPT ![d] = "processing"] /\ spc[d] = "take")
    BY DEF processSalaryBatch, TakeBatch
  <1>3. /\ batch' \in [Disburse -> Final \cup {"none", "pending", "processing"}]
        /\ batch'[d] = batch[d] \/ (batch'[d] = "processing" /\ spc[d] = "take")
        /\ \A e \in Disburse \ {d} : batch'[e] = batch[e]
    BY <1>2 DEF SalaryInv, SalaryTyped, SalaryTypeOK
  <1>4. \/ /\ spc[d] = "process" /\ batch[d] \in {"pending", "failed"} /\ UNCHANGED batch
           /\ spc' = [spc EXCEPT ![d] = "take"] /\ UNCHANGED <<tries, errors>>
           /\ outcome' = [outcome EXCEPT ![d] = [i \in Item |-> IF item[d][i] = "completed" THEN "skip" ELSE "todo"]]
        \/ /\ spc[d] = "process" /\ batch[d] \notin {"pending", "failed"} /\ UNCHANGED batch
           /\ spc' = [spc EXCEPT ![d] = "done"] /\ UNCHANGED <<outcome, tries, errors>>
        \/ /\ spc[d] = "take" /\ batch' = [batch EXCEPT ![d] = "processing"]
           /\ spc' = [spc EXCEPT ![d] = "pay"] /\ UNCHANGED <<outcome, tries, errors>>
        \/ Throws(d) /\ UNCHANGED outcome
    BY DEF processSalaryBatch, TakeBatch, Stage
  <1>5. batch[d] # "none" /\ OneBatch'
    <2>1. batch[d] # "none"
      BY <1>1 DEF BatchSound
    <2> QED BY <1>3, <2>1 DEF SalaryInv, OneBatch
  <1>6. StatusSound(d)'
    BY <1>1, <1>3 DEF StatusSound, Completed
  <1>7. CASE Throws(d) /\ UNCHANGED outcome
    <2>1. PICK to \in {"process", "done"} : RetriesTo(d, to)
      BY <1>1, <1>7, ThrowsFacts
    <2>2. /\ tries' \in [Disburse -> 0..MaxTries] /\ tries'[d] = tries[d] + 1
          /\ \A e \in Disburse \ {d} : tries'[e] = tries[e]
          /\ errors' \in 0..MaxErrors /\ errors' > 0 /\ errors' >= errors
      BY <1>1, <1>7, ThrowsFacts
    <2>3. /\ spc' \in [Disburse -> {"new", "looked", "process", "take", "pay", "write", "close", "answered", "done"}]
          /\ spc'[d] = to /\ \A e \in Disburse \ {d} : spc'[e] = spc[e]
      BY <2>1 DEF RetriesTo, SalaryInv, SalaryTyped, SalaryTypeOK
    <2>4. SalaryTyped' /\ Others(d)
      BY <1>1, <1>3, <1>7, <2>2, <2>3 DEF Others, SalaryInv, SalaryTyped, SalaryTypeOK
    <2>5. BatchSound(d)'
      BY <1>1, <1>3, <1>5, <2>1, <2>2, <2>3 DEF RetriesTo, BatchSound
    <2>6. ASSUME NEW i \in Item PROVE PaidSound(d, i)' /\ ResultSound(d, i)'
      BY <1>1, <1>3, <1>5, <1>7, <2>3 DEF PaidSound, Shown, ResultSound
    <2> QED BY <1>5, <1>6, <2>4, <2>5, <2>6, OneRequestInv
  <1>8. ASSUME NEW to \in {"take", "done", "pay"}, spc' = [spc EXCEPT ![d] = to], UNCHANGED <<tries, errors>>,
               to = "take" => /\ spc[d] = "process" /\ batch[d] \in {"pending", "failed"} /\ UNCHANGED batch
                              /\ outcome' = [outcome EXCEPT ![d] = [i \in Item |-> IF item[d][i] = "completed" THEN "skip" ELSE "todo"]],
               to = "done" => /\ spc[d] = "process" /\ batch[d] \notin {"pending", "failed"} /\ UNCHANGED <<batch, outcome>>,
               to = "pay" => spc[d] = "take" /\ batch' = [batch EXCEPT ![d] = "processing"] /\ UNCHANGED outcome
        PROVE  SalaryInv'
    <2>1. /\ spc' \in [Disburse -> {"new", "looked", "process", "take", "pay", "write", "close", "answered", "done"}]
          /\ spc'[d] = to /\ \A e \in Disburse \ {d} : spc'[e] = spc[e]
      BY <1>8 DEF SalaryInv, SalaryTyped, SalaryTypeOK
    <2>2. /\ outcome' \in [Disburse -> [Item -> Outcomes]]
          /\ \A e \in Disburse \ {d} : outcome'[e] = outcome[e]
          /\ to = "take" => \A i \in Item : outcome'[d][i] = IF item[d][i] = "completed" THEN "skip" ELSE "todo"
          /\ to # "take" => outcome' = outcome
      <3>1. outcome \in [Disburse -> [Item -> Outcomes]]
        BY DEF SalaryInv, SalaryTyped, SalaryTypeOK, Outcomes, Answers
      <3>2. CASE to = "take"
        <4>1. PICK f : f = [i \in Item |-> IF item[d][i] = "completed" THEN "skip" ELSE "todo"]
          OBVIOUS
        <4>2. f \in [Item -> Outcomes]
          BY <4>1 DEF Outcomes, Answers
        <4>3. outcome' = [outcome EXCEPT ![d] = f]
          BY <1>8, <3>2, <4>1
        <4>4. \A i \in Item : f[i] = IF item[d][i] = "completed" THEN "skip" ELSE "todo"
          BY <4>1
        <4> QED BY <3>1, <3>2, <4>2, <4>3, <4>4
      <3>3. CASE to # "take"
        BY <1>8, <3>1, <3>3
      <3> QED BY <3>2, <3>3
    <2>3. SalaryTyped' /\ Others(d)
      BY <1>1, <1>3, <1>8, <2>1, <2>2 DEF Others, SalaryInv, SalaryTyped, SalaryTypeOK
    <2>4. batch'[d] = IF to = "pay" THEN "processing" ELSE batch[d]
      BY <1>8 DEF SalaryInv, SalaryTyped, SalaryTypeOK
    <2>5. BatchSound(d)'
      <3>1. to = "done" => batch[d] \in Final \/ errors > 0
        BY <1>1, <1>5, <1>8 DEF BatchSound, SalaryInv, SalaryTyped, SalaryTypeOK
      <3> QED BY <1>1, <1>5, <1>8, <2>1, <2>4, <3>1 DEF BatchSound
    <2>6. ASSUME NEW i \in Item PROVE PaidSound(d, i)' /\ ResultSound(d, i)'
      <3>1. PaidSound(d, i) /\ ResultSound(d, i)
        BY <1>1
      <3>2. CASE to = "take"
        BY <1>1, <1>5, <1>8, <2>1, <2>2, <2>4, <3>1, <3>2 DEF PaidSound, Shown, ResultSound
      <3>3. CASE to # "take"
        BY <1>1, <1>5, <1>8, <2>1, <2>2, <2>4, <3>1, <3>3 DEF PaidSound, Shown, ResultSound
      <3> QED BY <3>2, <3>3
    <2> QED BY <1>5, <1>6, <2>3, <2>5, <2>6, OneRequestInv
  <1> QED BY <1>4, <1>7, <1>8

(* The result of an item, its status, its payments and its misreadings become o, s, n and m. *)
ItemStep(d, i, o, s, n, m) ==
    /\ o \in Answers \cup {"rejected"} /\ s \in Answers
    /\ n \in Nat /\ m \in Nat /\ m >= misread[i]
    /\ outcome' = [outcome EXCEPT ![d][i] = o] /\ item' = [item EXCEPT ![d][i] = s]
    /\ transfers' = [transfers EXCEPT ![d][i] = n] /\ misread' = [misread EXCEPT ![i] = m]
    /\ errors' \in 0..MaxErrors /\ errors' >= errors
    /\ n <= 1 + m
    /\ s = "completed" \/ o = "completed" => n > 0
    /\ o # "completed" => n <= m
    /\ s = "completed" => o \in {"completed", "rejected"}

(* One item is paid, or its result written. *)
LEMMA ItemInv ==
  ASSUME SalaryInv, NEW d \in Disburse, NEW i \in Item, createTransfer(d, i) \/ WriteItem(d, i) PROVE SalaryInv'
  <1> USE SalaryFacts
  <1>1. /\ spc[d] = "pay" /\ UNCHANGED <<spc, tries, batch>> /\ BatchSound(d) /\ StatusSound(d)
        /\ batch[d] = "processing"
        /\ \A j \in Item : PaidSound(d, j) /\ ResultSound(d, j)
    BY DEF createTransfer, WriteItem, SalaryInv, BatchSound
  <1>2. /\ outcome \in [Disburse -> [Item -> Outcomes]]
        /\ item \in [Disburse -> [Item -> Answers]]
        /\ transfers \in [Disburse -> [Item -> Nat]] /\ misread \in [Item -> Nat]
        /\ errors \in 0..MaxErrors
    BY DEF SalaryInv, SalaryTyped, SalaryTypeOK, Outcomes, Answers
  <1>3. ASSUME NEW o, NEW s, NEW n, NEW m, ItemStep(d, i, o, s, n, m)
        PROVE  SalaryInv'
    <2> USE <1>3 DEF ItemStep
    <2>1. /\ outcome' \in [Disburse -> [Item -> Outcomes]]
          /\ outcome'[d][i] = o /\ \A j \in Item \ {i} : outcome'[d][j] = outcome[d][j]
          /\ \A e \in Disburse \ {d} : outcome'[e] = outcome[e]
      BY <1>2, <1>3 DEF Outcomes, Answers
    <2>2. /\ item' \in [Disburse -> [Item -> Answers]]
          /\ item'[d][i] = s /\ \A j \in Item \ {i} : item'[d][j] = item[d][j]
          /\ \A e \in Disburse \ {d} : item'[e] = item[e]
      BY <1>2, <1>3
    <2>3. /\ transfers' \in [Disburse -> [Item -> Nat]]
          /\ transfers'[d][i] = n /\ \A j \in Item \ {i} : transfers'[d][j] = transfers[d][j]
          /\ \A e \in Disburse \ {d} : transfers'[e] = transfers[e]
      BY <1>2, <1>3
    <2>4. /\ misread' \in [Item -> Nat] /\ misread'[i] = m /\ \A j \in Item \ {i} : misread'[j] = misread[j]
      BY <1>2, <1>3
    <2>5. SalaryTyped'
      BY <1>1, <1>3, <2>1, <2>2, <2>3, <2>4 DEF SalaryInv, SalaryTyped, SalaryTypeOK
    <2>6. Others(d)
      <3>1. \A j \in Item : misread'[j] >= misread[j]
        BY <1>2, <1>3, <2>4
      <3> QED BY <1>1, <1>3, <2>1, <2>2, <2>3, <3>1 DEF Others
    <2>7. BatchSound(d)' /\ StatusSound(d)' /\ OneBatch'
      BY <1>1 DEF SalaryInv, OneBatch, BatchSound, StatusSound
    <2>8. PaidSound(d, i)' /\ ResultSound(d, i)'
      BY <1>1, <1>3, <2>1, <2>2, <2>3, <2>4 DEF PaidSound, Shown, ResultSound, Outcomes, Answers
    <2>9. ASSUME NEW j \in Item \ {i} PROVE PaidSound(d, j)' /\ ResultSound(d, j)'
      BY <1>1, <2>1, <2>2, <2>3, <2>4 DEF PaidSound, Shown, ResultSound
    <2> QED BY <2>5, <2>6, <2>7, <2>8, <2>9, OneRequestInv
  <1>4. PICK n \in Nat, m \in Nat, o0 \in Outcomes,
             s0 \in Answers :
          n = transfers[d][i] /\ m = misread[i] /\ o0 = outcome[d][i] /\ s0 = item[d][i]
    BY <1>2
  <1>5. /\ outcome = [outcome EXCEPT ![d][i] = o0] /\ item = [item EXCEPT ![d][i] = s0]
        /\ transfers = [transfers EXCEPT ![d][i] = n] /\ misread = [misread EXCEPT ![i] = m]
        /\ PaidSound(d, i) /\ ResultSound(d, i)
    BY <1>1, <1>2, <1>4
  <1>6. CASE createTransfer(d, i)
    <2>1. PICK o \in Answers \cup {"rejected"}, pays \in BOOLEAN :
            /\ o = "completed" => pays
            /\ outcome' = [outcome EXCEPT ![d][i] = o]
            /\ transfers' = IF pays THEN [transfers EXCEPT ![d][i] = @ + 1] ELSE transfers
            /\ misread' = IF pays /\ o # "completed" THEN [misread EXCEPT ![i] = @ + 1] ELSE misread
      BY <1>6 DEF createTransfer
    <2>2. o0 = "todo" /\ item' = [item EXCEPT ![d][i] = s0] /\ errors' = errors /\ errors' >= errors
      BY <1>2, <1>4, <1>5, <1>6 DEF createTransfer
    <2>3. s0 # "completed" /\ n <= m
      BY <1>1, <1>4, <1>5, <2>2 DEF PaidSound, Shown, ResultSound
    <2>4. CASE ~pays
      <3>1. transfers' = [transfers EXCEPT ![d][i] = n] /\ misread' = [misread EXCEPT ![i] = m] /\ o # "completed"
        BY <1>5, <2>1, <2>4
      <3>2. outcome' = [outcome EXCEPT ![d][i] = o] /\ errors' \in 0..MaxErrors /\ m >= m
        BY <1>2, <1>4, <2>1, <2>2
      <3>3. ItemStep(d, i, o, s0, n, m)
        BY <1>4, <2>2, <2>3, <3>1, <3>2 DEF ItemStep
      <3> QED BY <1>3, <3>3
    <2>5. CASE pays /\ o # "completed"
      <3>1. transfers' = [transfers EXCEPT ![d][i] = n + 1] /\ misread' = [misread EXCEPT ![i] = m + 1]
        BY <1>4, <2>1, <2>5
      <3>2. ItemStep(d, i, o, s0, n + 1, m + 1)
        BY <1>2, <1>4, <2>1, <2>2, <2>3, <2>5, <3>1 DEF ItemStep
      <3> QED BY <1>3, <3>2
    <2>6. CASE pays /\ o = "completed"
      <3>1. transfers' = [transfers EXCEPT ![d][i] = n + 1] /\ misread' = [misread EXCEPT ![i] = m]
        BY <1>4, <1>5, <2>1, <2>6
      <3>2. ItemStep(d, i, o, s0, n + 1, m)
        BY <1>2, <1>4, <2>1, <2>2, <2>3, <2>6, <3>1 DEF ItemStep
      <3> QED BY <1>3, <3>2
    <2> QED BY <2>1, <2>4, <2>5, <2>6
  <1>7. CASE WriteItem(d, i)
    <2>1. o0 \in Answers /\ transfers' = [transfers EXCEPT ![d][i] = n]
      BY <1>4, <1>5, <1>7 DEF WriteItem
    <2>2. /\ n <= 1 + m /\ (o0 = "completed" \/ s0 = "completed" => n > 0)
          /\ o0 # "completed" => n <= m /\ s0 # "completed"
      BY <1>1, <1>4, <1>5, <2>1 DEF PaidSound, Shown, ResultSound, Answers
    <2>3. CASE item' = [item EXCEPT ![d][i] = outcome[d][i]] /\ UNCHANGED <<outcome, errors, misread>>
      <3>1. /\ item' = [item EXCEPT ![d][i] = o0] /\ outcome' = [outcome EXCEPT ![d][i] = o0]
            /\ misread' = [misread EXCEPT ![i] = m] /\ errors' \in 0..MaxErrors /\ errors' >= errors
        BY <1>2, <1>4, <1>5, <2>3
      <3>2. ItemStep(d, i, o0, o0, n, m)
        BY <1>2, <1>4, <2>1, <2>2, <3>1 DEF ItemStep
      <3> QED BY <1>3, <3>2
    <2>4. CASE /\ Errs /\ item' \in {item, [item EXCEPT ![d][i] = outcome[d][i]]}
               /\ outcome' = [outcome EXCEPT ![d][i] = "rejected"]
               /\ misread' = IF outcome[d][i] = "completed" THEN [misread EXCEPT ![i] = @ + 1] ELSE misread
      <3>1. PICK s \in {s0, o0} : item' = [item EXCEPT ![d][i] = s]
        BY <1>4, <1>5, <2>4
      <3>2. outcome' = [outcome EXCEPT ![d][i] = "rejected"] /\ m + 1 >= m /\ m >= m /\ m + 1 \in Nat
            /\ errors' \in 0..MaxErrors /\ errors' >= errors
        BY <1>2, <1>4, <2>4 DEF Errs
      <3>3. CASE o0 = "completed"
        <4>1. misread' = [misread EXCEPT ![i] = m + 1]
          BY <1>4, <2>4, <3>3
        <4>2. n > 0 /\ n <= m + 1 /\ n <= 1 + (m + 1)
          BY <1>4, <2>2, <3>3
        <4>3. ItemStep(d, i, "rejected", s, n, m + 1)
          BY <1>4, <2>1, <3>1, <3>2, <3>3, <4>1, <4>2 DEF ItemStep
        <4> QED BY <1>3, <4>3
      <3>4. CASE o0 # "completed"
        <4>1. misread' = [misread EXCEPT ![i] = m]
          BY <1>4, <1>5, <2>4, <3>4
        <4>2. ItemStep(d, i, "rejected", s, n, m)
          BY <1>4, <2>1, <2>2, <3>1, <3>2, <3>4, <4>1 DEF ItemStep
        <4> QED BY <1>3, <4>2
      <3> QED BY <3>3, <3>4
    <2> QED BY <1>7, <2>3, <2>4 DEF WriteItem
  <1> QED BY <1>6, <1>7

(* A run goes on, is tried again or ends, with items f and batch b. *)
CloseStep(d, to, f, b) ==
    /\ to \in {"close", "process", "done"} /\ f \in [Item -> Answers]
    /\ b \in Final \cup {"processing"}
    /\ spc' = [spc EXCEPT ![d] = to] /\ item' = [item EXCEPT ![d] = f] /\ batch' = [batch EXCEPT ![d] = b]
    /\ tries' \in [Disburse -> 0..MaxTries] /\ (\A e \in Disburse \ {d} : tries'[e] = tries[e])
    /\ errors' \in 0..MaxErrors /\ errors' >= errors
    /\ to # "done" => tries'[d] < MaxTries
    /\ \A i \in Item : IF f[i] = "completed" THEN item[d][i] = "completed"
                       ELSE item[d][i] # "completed" \/ outcome[d][i] = "rejected"
    /\ to = "close" \/ b \in Final =>
          \A i \in Item : f[i] = "completed" <=> outcome[d][i] \in {"skip", "completed"}
    /\ to = "close" => b = "processing"
    /\ to # "close" => b \in Final \/ errors' > 0
    /\ b \in Final => b = finalStatus(d)

(* The rejected items are failed, and the batch is closed. *)
LEMMA CloseInv == ASSUME SalaryInv, NEW d \in Disburse, FailItems(d) \/ CloseBatch(d) PROVE SalaryInv'
  <1> USE SalaryFacts
  <1>1. /\ UNCHANGED <<outcome, transfers, misread>>
        /\ spc[d] \in {"pay", "close"} /\ BatchSound(d) /\ StatusSound(d) /\ batch[d] = "processing"
        /\ \A i \in Item : PaidSound(d, i) /\ ResultSound(d, i)
    BY DEF FailItems, CloseBatch, SalaryInv, BatchSound
  <1>2. /\ outcome \in [Disburse -> [Item -> Outcomes]]
        /\ item \in [Disburse -> [Item -> Answers]]
        /\ transfers \in [Disburse -> [Item -> Nat]] /\ misread \in [Item -> Nat]
        /\ errors \in 0..MaxErrors
    BY DEF SalaryInv, SalaryTyped, SalaryTypeOK, Outcomes, Answers
  <1>3. spc[d] = "pay" /\ FailItems(d) => \A i \in Item : outcome[d][i] = "completed" => item[d][i] = "completed"
    BY <1>2 DEF FailItems
  <1>4. \A i \in Item : outcome[d][i] = "completed" => item[d][i] = "completed"
    <2>1. CASE FailItems(d)
      BY <1>3, <2>1 DEF FailItems
    <2>2. CASE CloseBatch(d)
      BY <1>1, <2>2 DEF CloseBatch, ResultSound
    <2> QED BY <2>1, <2>2
  <1>5. ASSUME NEW to, NEW f, NEW b, CloseStep(d, to, f, b)
        PROVE  SalaryInv'
    <2> USE <1>5 DEF CloseStep
    <2>1. /\ spc' \in [Disburse -> {"new", "looked", "process", "take", "pay", "write", "close", "answered", "done"}]
          /\ spc'[d] = to /\ \A e \in Disburse \ {d} : spc'[e] = spc[e]
          /\ item' \in [Disburse -> [Item -> Answers]]
          /\ item'[d] = f /\ \A e \in Disburse \ {d} : item'[e] = item[e]
          /\ batch' \in [Disburse -> Final \cup {"none", "pending", "processing"}]
          /\ batch'[d] = b /\ \A e \in Disburse \ {d} : batch'[e] = batch[e]
      BY <1>4, <1>5 DEF SalaryInv, SalaryTyped, SalaryTypeOK
    <2>2. SalaryTyped' /\ Others(d)
      BY <1>1, <1>2, <1>4, <1>5, <2>1 DEF Others, SalaryInv, SalaryTyped, SalaryTypeOK
    <2>3. OneBatch'
      BY <1>1, <1>4, <1>5, <2>1 DEF SalaryInv, OneBatch
    <2>4. BatchSound(d)'
      BY <1>1, <1>4, <1>5, <2>1 DEF BatchSound, Final
    <2>5. StatusSound(d)'
      <3>1. CASE b = "processing"
        BY <2>1, <3>1 DEF StatusSound
      <3>2. CASE b \in Final
        <4>1. Completed(d)' = {i \in Item : outcome[d][i] \in {"completed", "skip"}}
          BY <1>5, <2>1, <3>2 DEF Completed
        <4> QED BY <1>4, <1>5, <2>1, <3>2, <4>1 DEF StatusSound, finalStatus
      <3> QED BY <3>1, <3>2
    <2>6. ASSUME NEW i \in Item PROVE PaidSound(d, i)' /\ ResultSound(d, i)'
      <3>1. batch'[d] # "none"
        BY <2>1 DEF Final
      <3>2. PaidSound(d, i) /\ ResultSound(d, i) /\ spc'[d] \notin {"take", "pay"} /\ spc[d] \in {"pay", "close"}
        BY <1>1, <2>1
      <3>3. /\ item'[d][i] = "completed" => item[d][i] = "completed"
            /\ item'[d][i] # "completed" => item[d][i] # "completed" \/ outcome[d][i] = "rejected"
            /\ outcome[d][i] = "completed" => item[d][i] = "completed"
            /\ to = "close" => (item'[d][i] = "completed" <=> outcome[d][i] \in {"skip", "completed"})
        BY <1>4, <1>5, <2>1
      <3>4. item'[d][i] # "completed" => ~Shown(d, i)
        BY <3>2, <3>3 DEF Shown, ResultSound
      <3>5. PaidSound(d, i)'
        BY <1>1, <2>1, <3>1, <3>2, <3>3, <3>4 DEF PaidSound, Shown
      <3>6. ResultSound(d, i)'
        BY <1>1, <2>1, <3>2, <3>3 DEF ResultSound
      <3> QED BY <3>5, <3>6
    <2> QED BY <2>2, <2>3, <2>4, <2>5, <2>6, OneRequestInv
  <1>6. PICK f0 \in [Item -> Answers] : f0 = item[d]
    BY <1>2
  <1>7. item = [item EXCEPT ![d] = f0] /\ batch = [batch EXCEPT ![d] = "processing"]
    BY <1>1, <1>2, <1>6 DEF SalaryInv, SalaryTyped, SalaryTypeOK
  <1>f. PICK f \in [Item -> Answers] :
          /\ f = [i \in Item |-> IF outcome[d][i] = "rejected" THEN "failed" ELSE item[d][i]]
          /\ Corrected(d) = [item EXCEPT ![d] = f]
    <2>1. PICK g : g = [i \in Item |-> IF outcome[d][i] = "rejected" THEN "failed" ELSE item[d][i]]
      OBVIOUS
    <2>2. g \in [Item -> Answers] /\ Corrected(d) = [item EXCEPT ![d] = g]
      BY <1>2, <2>1 DEF Corrected, Answers
    <2> QED BY <2>1, <2>2
  <1>g. ASSUME NEW i \in Item PROVE IF f[i] = "completed" THEN item[d][i] = "completed"
                                    ELSE item[d][i] # "completed" \/ outcome[d][i] = "rejected"
    BY <1>f
  <1>8. CASE Throws(d) /\ FailItems(d)
    <2>1. PICK to \in {"process", "done"} : RetriesTo(d, to)
      BY <1>1, <1>8, ThrowsFacts
    <2>2. /\ tries' \in [Disburse -> 0..MaxTries] /\ tries'[d] = tries[d] + 1
          /\ \A e \in Disburse \ {d} : tries'[e] = tries[e]
          /\ errors' \in 0..MaxErrors /\ errors' > 0 /\ errors' >= errors
      BY <1>1, <1>8, ThrowsFacts
    <2>3. to # "close" /\ to \in {"close", "process", "done"} /\ (to # "done" => tries'[d] < MaxTries)
          /\ spc' = [spc EXCEPT ![d] = to] /\ batch' = [batch EXCEPT ![d] = "processing"] /\ "processing" \notin Final
      BY <1>7, <1>8, <2>1, <2>2 DEF RetriesTo, FailItems, Final
    <2>4. item' = item \/ item' = Corrected(d)
      BY <1>8 DEF FailItems, Throws, Stage
    <2>5. CASE item' = item
      <3>1. item' = [item EXCEPT ![d] = f0]
        BY <1>7, <2>5
      <3>2. \A i \in Item : IF f0[i] = "completed" THEN item[d][i] = "completed"
                            ELSE item[d][i] # "completed" \/ outcome[d][i] = "rejected"
        BY <1>6
      <3>3. CloseStep(d, to, f0, "processing")
        BY <2>2, <2>3, <3>1, <3>2 DEF CloseStep
      <3> QED BY <1>5, <3>3
    <2>6. CASE item' = Corrected(d)
      <3>1. item' = [item EXCEPT ![d] = f]
        BY <1>f, <2>6
      <3>2. CloseStep(d, to, f, "processing")
        BY <1>g, <2>2, <2>3, <3>1 DEF CloseStep
      <3> QED BY <1>5, <3>2
    <2> QED BY <2>4, <2>5, <2>6
  <1>c. CloseBatch(d) => \A i \in Item : f0[i] = "completed" <=> outcome[d][i] \in {"skip", "completed"}
    BY <1>1, <1>6 DEF CloseBatch, ResultSound, Stage, Throws
  <1>d. CASE Throws(d) /\ CloseBatch(d) /\ UNCHANGED item /\ batch' \in {batch, [batch EXCEPT ![d] = finalStatus(d)]}
    <2>1. PICK to \in {"process", "done"} : RetriesTo(d, to)
      BY <1>1, <1>d, ThrowsFacts
    <2>2. /\ tries' \in [Disburse -> 0..MaxTries] /\ tries'[d] = tries[d] + 1
          /\ \A e \in Disburse \ {d} : tries'[e] = tries[e]
          /\ errors' \in 0..MaxErrors /\ errors' > 0 /\ errors' >= errors
      BY <1>1, <1>d, ThrowsFacts
    <2>3. PICK b \in Final \cup {"processing"} : batch' = [batch EXCEPT ![d] = b] /\ (b \in Final => b = finalStatus(d))
      <3>1. finalStatus(d) \in Final /\ "processing" \notin Final
        BY DEF finalStatus, Final
      <3> QED BY <1>7, <1>d, <3>1
    <2>4. CloseStep(d, to, f0, b)
      BY <1>6, <1>7, <1>c, <1>d, <2>1, <2>2, <2>3 DEF RetriesTo, CloseStep
    <2> QED BY <1>5, <2>4
  <1>9. CASE /\ FailItems(d) /\ UNCHANGED <<tries, errors>> /\ Stage(d, "pay", "close")
             /\ item' = Corrected(d)
    <2>1. /\ item' = [item EXCEPT ![d] = f] /\ spc' = [spc EXCEPT ![d] = "close"] /\ spc[d] = "pay"
          /\ UNCHANGED <<tries, errors, batch>>
          /\ \A i \in Item : outcome[d][i] \in {"skip", "rejected", item[d][i]}
      BY <1>9, <1>f DEF FailItems, Stage
    <2>2. \A i \in Item : f[i] = "completed" <=> outcome[d][i] \in {"skip", "completed"}
      <3> SUFFICES ASSUME NEW i \in Item PROVE f[i] = "completed" <=> outcome[d][i] \in {"skip", "completed"}
        OBVIOUS
      <3>1. ResultSound(d, i) /\ f[i] = IF outcome[d][i] = "rejected" THEN "failed" ELSE item[d][i]
        BY <1>1, <1>f
      <3> QED BY <2>1, <3>1 DEF ResultSound
    <2>3. tries \in [Disburse -> 0..MaxTries] /\ tries[d] < MaxTries
      BY <1>1 DEF SalaryInv, SalaryTyped, SalaryTypeOK, BatchSound
    <2>4. "processing" \notin Final
      BY DEF Final
    <2>5. /\ batch' = [batch EXCEPT ![d] = "processing"]
          /\ tries' \in [Disburse -> 0..MaxTries] /\ tries'[d] < MaxTries /\ tries' = tries
          /\ errors' \in 0..MaxErrors /\ errors' >= errors
      <3>1. batch' = batch /\ tries' = tries /\ errors' = errors
        BY <2>1
      <3>2. batch' = [batch EXCEPT ![d] = "processing"]
        BY <1>7, <3>1
      <3>3. tries' \in [Disburse -> 0..MaxTries] /\ tries'[d] < MaxTries
        BY <2>3, <3>1
      <3>4. errors' \in 0..MaxErrors /\ errors' >= errors
        BY <1>2, <3>1
      <3> QED BY <3>1, <3>2, <3>3, <3>4, Zenon
    <2>6. CloseStep(d, "close", f, "processing")
      BY <1>g, <2>1, <2>2, <2>4, <2>5 DEF CloseStep
    <2> QED BY <1>5, <2>6
  <1>10. CASE /\ CloseBatch(d) /\ UNCHANGED <<tries, errors>> /\ Stage(d, "close", "done")
              /\ batch' = [batch EXCEPT ![d] = finalStatus(d)]
    <2>1. /\ batch' = [batch EXCEPT ![d] = finalStatus(d)] /\ spc' = [spc EXCEPT ![d] = "done"]
          /\ UNCHANGED <<tries, errors, item>>
      BY <1>10 DEF CloseBatch, Stage
    <2>2. finalStatus(d) \in Final
      BY DEF finalStatus, Final
    <2>3. PICK b \in Final : b = finalStatus(d)
      BY <2>2
    <2>4. tries \in [Disburse -> 0..MaxTries]
      BY DEF SalaryInv, SalaryTyped, SalaryTypeOK
    <2>5. \A i \in Item : f0[i] = "completed" <=> outcome[d][i] \in {"skip", "completed"}
      BY <1>10, <1>c
    <2>6. CloseStep(d, "done", f0, b)
      BY <1>2, <1>6, <1>7, <2>1, <2>3, <2>4, <2>5 DEF CloseStep
    <2> QED BY <1>5, <2>6
  <1> QED BY <1>8, <1>9, <1>d, <1>10 DEF FailItems, CloseBatch

LEMMA SalaryNextInv == SalaryInv /\ [SalaryNext]_salaryVars => SalaryInv'
  <1> SUFFICES ASSUME SalaryInv, [SalaryNext]_salaryVars PROVE SalaryInv'
    OBVIOUS
  <1>1. CASE UNCHANGED salaryVars
    BY <1>1 DEF salaryVars, SalaryInv, SalaryTyped, SalaryTypeOK, OneBatch, BatchSound, StatusSound, Completed,
       PaidSound, Shown, ResultSound
  <1>2. ASSUME NEW d \in Disburse,
               \/ FindBatch(d) \/ createSalaryBatch(d) \/ processSalaryBatch(d) \/ TakeBatch(d)
               \/ FailItems(d) \/ CloseBatch(d)
               \/ \E i \in Item : createTransfer(d, i) \/ WriteItem(d, i)
        PROVE  SalaryInv'
    BY <1>2, LookInv, StageInv, ItemInv, CloseInv
  <1> QED BY <1>1, <1>2 DEF SalaryNext

(* For any number of requests with one key (createSalaryBatch), items, retries    *)
(* of processSalaryBatch and failing writes: an item is paid by one request,      *)
(* once and again only after a payment that was answered with something else than *)
(* completed or whose answer was lost, an item that says completed was paid, and  *)
(* a batch that is done says what its items say unless a write was lost.          *)
THEOREM SalariesAreAccounted == SalarySpec => []SalaryAccounted
  <1>1. SalaryInv => SalaryAccounted
    <2> SUFFICES ASSUME SalaryInv PROVE SalaryAccounted
      OBVIOUS
    <2>1. SalaryTypeOK
      BY DEF SalaryInv, SalaryTyped
    <2>2. ASSUME NEW d \in Disburse, NEW i \in Item
          PROVE  /\ transfers[d][i] <= 1 + misread[i]
                 /\ item[d][i] = "completed" => transfers[d][i] > 0
                 /\ transfers[d][i] > 0 => batch[d] # "none"
      BY DEF SalaryInv, PaidSound, Shown
    <2>3. \A d, e \in Disburse, i \in Item : transfers[d][i] > 0 /\ transfers[e][i] > 0 => d = e
      BY <2>2 DEF SalaryInv, OneBatch
    <2>4. ASSUME NEW d \in Disburse, spc[d] = "done"
          PROVE  LET done == {i \in Item : item[d][i] = "completed"} IN
                 CASE batch[d] = "completed"           -> done = Item
                   [] batch[d] = "partially_completed" -> done \notin {{}, Item}
                   [] batch[d] = "failed"              -> done = {}
                   [] OTHER                            -> errors > 0
      <3>1. StatusSound(d) /\ (batch[d] \in Final \/ errors > 0)
        BY <2>4 DEF SalaryInv, BatchSound
      <3> QED BY <3>1 DEF StatusSound, Completed, Final
    <2> QED BY <2>1, <2>2, <2>3, <2>4 DEF SalaryAccounted
  <1> QED BY <1>1, SalaryInitInv, SalaryNextInv, PTL DEF SalarySpec

-----------------------------------------------------------------------------
(* Bulk *)
RowKinds == {"success", "skipped", "failure"}
BulkJob == [status : {"none", "processing", "completed"}, processedRows : Nat, successCount : Nat,
            failureCount : Nat, skipped : Nat]

BulkTyped ==
    /\ upc \in [Upload -> {"start", "find", "create", "count", "close", "done", "thrown"}]
    /\ job \in [Upload -> BulkJob] /\ results \in [Upload -> Seq(RowKinds)]
    /\ created \in [TransferKeys -> Nat] /\ rowErrors \in 0..MaxRowErrors /\ blurred \subseteq Upload

(* The counts of a job are those of its results, at the end of the file. *)
JobCounts(u) ==
    /\ Len(results[u]) = Len(File[u])
    /\ job[u].successCount = Kinds(u, "success") /\ job[u].failureCount = Kinds(u, "failure")

UploadSound(u) ==
    /\ job[u].processedRows <= Len(results[u]) /\ Len(results[u]) <= Len(File[u])
    /\ upc[u] = "start" => results[u] = <<>> /\ job[u] = NoJob
    /\ upc[u] \in {"find", "create"} => Len(results[u]) < Len(File[u])
    /\ upc[u] = "create" => RowKey(u) # "bad"
    /\ upc[u] \in {"close", "done"} => JobCounts(u)
    /\ upc[u] = "done" => job[u].status = "completed"
    /\ job[u].status = "completed" =>
          upc[u] \in {"done", "thrown"} /\ JobCounts(u) /\ job[u].skipped = Kinds(u, "skipped")

(* Every transfer was answered as a success, or its answer was lost. *)
SuccessesCreated == blurred = {} => SumFunction([u \in Upload |-> Kinds(u, "success")]) = SumFunction(created)

BulkInv ==
    /\ BulkTyped /\ SuccessesCreated
    /\ \A u \in Upload : UploadSound(u)
    /\ \A k \in TransferKeys : created[k] <= 1

-----------------------------------------------------------------------------
LEMMA RowsFinite == ASSUME NEW u \in Upload PROVE IsFiniteSet({File[u][i] : i \in DOMAIN File[u]})
  <1> DEFINE listed == {File[u][i] : i \in DOMAIN File[u]}
             f    == [i \in 1..Len(File[u]) |-> File[u][i]]
  <1>1. File[u] \in Seq(TransferKeys \cup {"bad"})
    BY BulkAssumption
  <1>2. Len(File[u]) \in Nat /\ DOMAIN File[u] = 1..Len(File[u])
    BY <1>1
  <1>3. f \in Surjection(1..Len(File[u]), listed)
    BY <1>2 DEF Surjection
  <1>4. IsFiniteSet(1..Len(File[u]))
    <2>1. 1 \in Int /\ Len(File[u]) \in Int
      BY <1>2
    <2> QED BY <2>1, FS_Interval
  <1> QED BY <1>3, <1>4, FS_Surjection

LEMMA BulkFacts ==
  /\ ChunkSize \in Nat \ {0} /\ MaxRowErrors \in Nat /\ IsFiniteSet(Upload) /\ IsFiniteSet(TransferKeys)
  /\ \A u \in Upload : /\ File[u] \in Seq(TransferKeys \cup {"bad"}) /\ Len(File[u]) \in Nat \ {0}
                       /\ DOMAIN File[u] = 1..Len(File[u])
  <1> DEFINE rowsOf(u) == {File[u][i] : i \in DOMAIN File[u]}
             files == {rowsOf(u) : u \in Upload}
             f == [u \in Upload |-> rowsOf(u)]
  <1>1. f \in Surjection(Upload, files)
    BY DEF Surjection
  <1>2. IsFiniteSet(files)
    BY <1>1, BulkAssumption, FS_Surjection
  <1>3. \A T \in files : IsFiniteSet(T)
    BY RowsFinite
  <1>4. IsFiniteSet(UNION files)
    BY <1>2, <1>3, FS_UNION
  <1>5. TransferKeys = (UNION files) \ {"bad"}
    <2>1. files = {{File[u][i] : i \in DOMAIN File[u]} : u \in Upload}
      OBVIOUS
    <2> QED BY <2>1 DEF TransferKeys
  <1>6. IsFiniteSet(TransferKeys)
    BY <1>4, <1>5, FS_Subset
  <1>7. ASSUME NEW u \in Upload
        PROVE  /\ File[u] \in Seq(TransferKeys \cup {"bad"}) /\ Len(File[u]) \in Nat \ {0}
               /\ DOMAIN File[u] = 1..Len(File[u])
    BY BulkAssumption
  <1> QED BY <1>6, <1>7, BulkAssumption

(* How often a kind occurs in a sequence of results. *)
Occurs(s, kind) == Cardinality({i \in DOMAIN s : s[i] = kind})

LEMMA OccursTyped ==
  ASSUME NEW s \in Seq(RowKinds), NEW kind
  PROVE  IsFiniteSet({i \in DOMAIN s : s[i] = kind}) /\ Occurs(s, kind) \in Nat
  <1>1. IsFiniteSet(1..Len(s)) /\ DOMAIN s = 1..Len(s)
    <2>1. 1 \in Int /\ Len(s) \in Int /\ DOMAIN s = 1..Len(s)
      OBVIOUS
    <2> QED BY <2>1, FS_Interval
  <1>2. IsFiniteSet({i \in DOMAIN s : s[i] = kind})
    BY <1>1, FS_Subset
  <1> QED BY <1>2, FS_CardinalityType DEF Occurs

LEMMA OccursAppend ==
  ASSUME NEW s \in Seq(RowKinds), NEW e \in RowKinds, NEW kind
  PROVE  Occurs(Append(s, e), kind) = Occurs(s, kind) + IF e = kind THEN 1 ELSE 0
  <1> DEFINE at  == {i \in DOMAIN s : s[i] = kind}
             n   == Len(s) + 1
             new == {i \in DOMAIN Append(s, e) : Append(s, e)[i] = kind}
  <1>1. /\ Len(s) \in Nat /\ DOMAIN s = 1..Len(s) /\ DOMAIN Append(s, e) = 1..n
        /\ Append(s, e)[n] = e /\ \A i \in 1..Len(s) : Append(s, e)[i] = s[i]
    OBVIOUS
  <1>2. n \notin at /\ IsFiniteSet(at) /\ Cardinality(at) \in Nat
    <2>1. IsFiniteSet(at)
      BY OccursTyped
    <2> QED BY <1>1, <2>1, FS_CardinalityType
  <1>a. Occurs(s, kind) = Cardinality(at) /\ Occurs(Append(s, e), kind) = Cardinality(new)
    BY DEF Occurs
  <1> HIDE DEF at
  <1>3. CASE e = kind
    <2>1. new = at \cup {n}
      BY <1>1, <1>3 DEF at
    <2>2. Cardinality(new) = Cardinality(at) + 1
      BY <1>2, <2>1, FS_AddElement
    <2> HIDE DEF new
    <2> QED BY <1>a, <1>3, <2>2
  <1>4. CASE e # kind
    <2>1. new = at
      BY <1>1, <1>4 DEF at
    <2> HIDE DEF new
    <2> QED BY <1>a, <1>2, <1>4, <2>1
  <1> QED BY <1>3, <1>4

(* A result is of one of the three kinds. *)
LEMMA KindsAddUp ==
  ASSUME NEW s \in Seq(RowKinds)
  PROVE  Occurs(s, "success") + Occurs(s, "failure") + Occurs(s, "skipped") = Len(s)
  <1> DEFINE good == {i \in DOMAIN s : s[i] = "success"}
             bad  == {i \in DOMAIN s : s[i] = "failure"}
             old  == {i \in DOMAIN s : s[i] = "skipped"}
  <1>1. Len(s) \in Nat /\ DOMAIN s = 1..Len(s) /\ \A i \in DOMAIN s : s[i] \in RowKinds
    OBVIOUS
  <1>2. /\ IsFiniteSet(good) /\ Occurs(s, "success") = Cardinality(good)
        /\ IsFiniteSet(bad) /\ Occurs(s, "failure") = Cardinality(bad)
        /\ IsFiniteSet(old) /\ Occurs(s, "skipped") = Cardinality(old)
    BY OccursTyped DEF Occurs
  <1>3. good \cap bad = {} /\ (good \cup bad) \cap old = {} /\ (good \cup bad) \cup old = 1..Len(s)
    BY <1>1 DEF RowKinds
  <1> HIDE DEF good, bad, old
  <1>4. Cardinality(good) \in Nat /\ Cardinality(bad) \in Nat /\ Cardinality(old) \in Nat /\ Cardinality({}) = 0
    BY <1>2, FS_CardinalityType, FS_EmptySet
  <1> DEFINE both == good \cup bad
  <1>5. IsFiniteSet(both) /\ Cardinality(both) = Cardinality(good) + Cardinality(bad) - Cardinality({}) /\ both \cap old = {}
    BY <1>2, <1>3, FS_Union
  <1>b. both \cup old = 1..Len(s)
    BY <1>3
  <1> HIDE DEF both
  <1>6. Cardinality(both \cup old) = Cardinality(both) + Cardinality(old) - Cardinality({})
    BY <1>2, <1>5, FS_Union
  <1>7. Cardinality(1..Len(s)) = Len(s)
    <2>1. 1 \in Int /\ Len(s) \in Int
      BY <1>1
    <2>2. Cardinality(1..Len(s)) = IF 1 > Len(s) THEN 0 ELSE Len(s) - 1 + 1
      BY <2>1, FS_Interval
    <2> QED BY <1>1, <2>2
  <1>8. Cardinality(both \cup old) = Len(s)
    BY <1>b, <1>7
  <1> QED BY <1>1, <1>2, <1>4, <1>5, <1>6, <1>8

LEMMA BulkInitInv == BulkInit => BulkInv
  <1> SUFFICES ASSUME BulkInit PROVE BulkInv
    OBVIOUS
  <1> USE BulkFacts DEF BulkInit
  <1>1. BulkTyped
    <2>1. NoJob \in BulkJob /\ <<>> \in Seq(RowKinds)
      BY DEF NoJob, BulkJob
    <2> QED BY <2>1 DEF BulkTyped
  <1>2. \A u \in Upload : UploadSound(u)
    BY DEF UploadSound, NoJob
  <1>3. SuccessesCreated
    <2>1. \A u \in Upload : Kinds(u, "success") = 0
      <3> TAKE u \in Upload
      <3>1. {i \in DOMAIN results[u] : results[u][i] = "success"} = {}
        OBVIOUS
      <3> QED BY <3>1, FS_EmptySet DEF Kinds
    <2> DEFINE v == [u \in Upload |-> Kinds(u, "success")]
    <2>2. DOMAIN v = Upload /\ \A u \in Upload : v[u] = 0
      BY <2>1
    <2>3. DOMAIN created = TransferKeys /\ \A k \in TransferKeys : created[k] = 0
      OBVIOUS
    <2> HIDE DEF v
    <2>4. SumFunction(v) = 0
      <3>1. \A u \in Upload : v[u] = IF u \in {} THEN 1 ELSE 0
        BY <2>2
      <3> QED BY <2>2, <3>1, SumCounts, SumIsOnDomain, FS_EmptySet
    <2>5. SumFunction(created) = 0
      <3>1. \A k \in TransferKeys : created[k] = IF k \in {} THEN 1 ELSE 0
        BY <2>3
      <3> QED BY <2>3, <3>1, SumCounts, SumIsOnDomain, FS_EmptySet
    <2> QED BY <2>4, <2>5 DEF SuccessesCreated, v
  <1> QED BY <1>1, <1>2, <1>3 DEF BulkInv

(* What a result that is pushed changes: the row, its kind's count, and whose turn it is. *)
LEMMA PushAdds ==
  ASSUME BulkTyped, NEW u \in Upload, NEW kind \in RowKinds, Push(u, kind)
  PROVE  /\ results' \in [Upload -> Seq(RowKinds)]
         /\ \A w \in Upload : w # u => results'[w] = results[w] /\ upc'[w] = upc[w]
         /\ Len(results'[u]) = Len(results[u]) + 1
         /\ \A k : Kinds(u, k)' = Kinds(u, k) + IF k = kind THEN 1 ELSE 0
         /\ \A w \in Upload : w # u => \A k : Kinds(w, k)' = Kinds(w, k)
         /\ upc'[u] \in {"count", "find"} /\ (upc'[u] = "find" => Len(results'[u]) # Len(File[u]))
         /\ upc' \in [Upload -> {"start", "find", "create", "count", "close", "done", "thrown"}]
  <1> USE DEF BulkTyped
  <1>1. results[u] \in Seq(RowKinds) /\ results' = [results EXCEPT ![u] = Append(@, kind)]
    BY DEF Push
  <1>2. results'[u] = Append(results[u], kind) /\ \A w \in Upload : w # u => results'[w] = results[w]
    BY <1>1
  <1>3. Append(results[u], kind) \in Seq(RowKinds) /\ Len(Append(results[u], kind)) = Len(results[u]) + 1
    BY <1>1
  <1>4. ASSUME NEW k PROVE Kinds(u, k)' = Kinds(u, k) + IF k = kind THEN 1 ELSE 0
    <2>1. Kinds(u, k)' = Occurs(Append(results[u], kind), k) /\ Kinds(u, k) = Occurs(results[u], k)
      BY <1>2 DEF Kinds, Occurs
    <2>2. Occurs(Append(results[u], kind), k) = Occurs(results[u], k) + IF kind = k THEN 1 ELSE 0
      BY <1>1, OccursAppend
    <2> QED BY <2>1, <2>2
  <1>5. ASSUME NEW w \in Upload, w # u, NEW k PROVE Kinds(w, k)' = Kinds(w, k)
    BY <1>2, <1>5 DEF Kinds
  <1>6. /\ \A w \in Upload : w # u => upc'[w] = upc[w]
        /\ upc'[u] \in {"count", "find"} /\ (upc'[u] = "find" => Len(results[u]) + 1 # Len(File[u]))
        /\ upc' \in [Upload -> {"start", "find", "create", "count", "close", "done", "thrown"}]
    BY DEF Push
  <1> QED BY <1>1, <1>2, <1>3, <1>4, <1>5, <1>6

LEMMA KindsTyped == ASSUME BulkTyped, NEW u \in Upload, NEW k PROVE Kinds(u, k) \in Nat
  <1>1. results[u] \in Seq(RowKinds)
    BY DEF BulkTyped
  <1> QED BY <1>1, OccursTyped DEF Kinds, Occurs

(* Neither a result nor a transfer is added. *)
LEMMA SameSuccesses ==
  ASSUME BulkTyped, SuccessesCreated, created' = created, \A u \in Upload : Kinds(u, "success")' = Kinds(u, "success"),
         blurred \subseteq blurred'
  PROVE  SuccessesCreated'
  <1>1. [u \in Upload |-> Kinds(u, "success")'] = [u \in Upload |-> Kinds(u, "success")]
    OBVIOUS
  <1>2. blurred' = {} => blurred = {}
    OBVIOUS
  <1> QED BY <1>1, <1>2 DEF SuccessesCreated

(* One of each is added. *)
LEMMA OneMoreSuccess ==
  ASSUME BulkTyped, BulkTyped', SuccessesCreated, NEW u \in Upload, NEW k \in TransferKeys,
         Kinds(u, "success")' = Kinds(u, "success") + 1, created' = [created EXCEPT ![k] = @ + 1],
         \A w \in Upload : w # u => Kinds(w, "success")' = Kinds(w, "success"), blurred' = blurred
  PROVE  SuccessesCreated'
  <1> DEFINE v == [w \in Upload |-> Kinds(w, "success")]
             x == [w \in Upload |-> Kinds(w, "success")']
  <1>1. DOMAIN v = Upload /\ DOMAIN x = Upload /\ \A w \in Upload : v[w] \in Int
    BY KindsTyped
  <1>2. \A w \in Upload \ {u} : x[w] = v[w]
    OBVIOUS
  <1>3. x[u] = v[u] + 1
    OBVIOUS
  <1> HIDE DEF v, x
  <1>4. \A w \in Upload : v[w] \in Int /\ x[w] \in Int
    <2> TAKE w \in Upload
    <2>1. CASE w = u
      BY <1>1, <1>3, <2>1
    <2>2. CASE w # u
      BY <1>1, <1>2, <2>2
    <2> QED BY <2>1, <2>2
  <1>5. SumFunction(x) = SumFunction(v) + 1 /\ SumFunction(v) \in Int
    <2>1. SumFunctionOnSet(x, Upload) = SumFunctionOnSet(v, Upload) - v[u] + x[u]
      BY <1>2, <1>4, BulkFacts, SumChanged
    <2>2. SumFunctionOnSet(v, Upload) \in Int
      BY <1>4, BulkFacts, SumTyped
    <2> QED BY <1>1, <1>3, <2>1, <2>2, SumIsOnDomain
  <1> DEFINE tally == created
             more == created'
  <1>6. /\ DOMAIN tally = TransferKeys /\ DOMAIN more = TransferKeys
        /\ \A j \in TransferKeys : tally[j] \in Int /\ more[j] \in Int
        /\ more[k] = tally[k] + 1 /\ \A j \in TransferKeys \ {k} : more[j] = tally[j]
    BY DEF BulkTyped
  <1> HIDE DEF tally, more
  <1>7. SumFunction(more) = SumFunction(tally) + 1
    <2>0. IsFiniteSet(TransferKeys)
      BY BulkFacts
    <2>1. SumFunctionOnSet(more, TransferKeys) = SumFunctionOnSet(tally, TransferKeys) - tally[k] + more[k]
      BY ONLY <1>6, <2>0, k \in TransferKeys, SumChanged
    <2>2. SumFunctionOnSet(tally, TransferKeys) \in Int
      BY <1>6, BulkFacts, SumTyped
    <2> QED BY <1>6, <2>1, <2>2, SumIsOnDomain
  <1>8. blurred = {} => SumFunction(v) = SumFunction(tally)
    BY DEF SuccessesCreated, v, tally
  <1>9. blurred' = {} => SumFunction(x) = SumFunction(more)
    BY <1>5, <1>7, <1>8
  <1> QED BY <1>9 DEF SuccessesCreated, x, more

(* An upload of which nothing changes stays sound. *)
LEMMA OtherUpload ==
  ASSUME NEW w \in Upload, UploadSound(w), job'[w] = job[w], upc'[w] = upc[w], results'[w] = results[w]
  PROVE  UploadSound(w)'
  <1>1. \A k : Kinds(w, k)' = Kinds(w, k)
    BY DEF Kinds
  <1> QED BY <1>1 DEF UploadSound, JobCounts, RowKey

LEMMA UploadKinds ==
  ASSUME BulkTyped, NEW u \in Upload
  PROVE  /\ job[u] \in BulkJob /\ results[u] \in Seq(RowKinds) /\ Len(results[u]) \in Nat
         /\ Len(File[u]) \in Nat /\ Len(File[u]) > 0
         /\ upc[u] \in {"start", "find", "create", "count", "close", "done", "thrown"}
  BY BulkFacts DEF BulkTyped

(* A request that ends in an error, with or without its last write. *)
LEMMA ThrownInv ==
  ASSUME BulkInv, NEW u \in Upload, ThrowOut(u), upc[u] \notin {"done", "thrown"}, NEW b \in BulkJob,
         job' = [job EXCEPT ![u] = b], UNCHANGED <<results, created, blurred>>,
         b.processedRows <= Len(results[u]),
         b.status = "completed" => Len(results[u]) = Len(File[u]) /\ b.successCount = Kinds(u, "success")
                                   /\ b.failureCount = Kinds(u, "failure") /\ b.skipped = Kinds(u, "skipped")
  PROVE  BulkInv'
  <1> USE BulkFacts DEF BulkInv
  <1>1. /\ upc'[u] = "thrown" /\ rowErrors' \in 0..MaxRowErrors
        /\ upc' \in [Upload -> {"start", "find", "create", "count", "close", "done", "thrown"}]
        /\ \A w \in Upload : w # u => upc'[w] = upc[w]
    BY DEF ThrowOut, RowFails, BulkTyped
  <1>2. job'[u] = b /\ job' \in [Upload -> BulkJob] /\ \A w \in Upload : w # u => job'[w] = job[w]
    BY DEF BulkTyped
  <1>3. BulkTyped'
    BY <1>1, <1>2 DEF BulkTyped
  <1>4. \A w \in Upload : \A k : Kinds(w, k)' = Kinds(w, k)
    BY DEF Kinds
  <1>5. SuccessesCreated'
    BY <1>4, SameSuccesses
  <1>6. ASSUME NEW w \in Upload PROVE UploadSound(w)'
    <2>1. CASE w = u
      BY <1>1, <1>2, <1>4, <2>1 DEF UploadSound, JobCounts
    <2>2. CASE w # u
      BY <1>1, <1>2, <2>2, OtherUpload
    <2> QED BY <2>1, <2>2
  <1> QED BY <1>3, <1>5, <1>6

LEMMA CreateJobInv == ASSUME BulkInv, NEW u \in Upload, CreateJob(u) PROVE BulkInv'
  <1> USE DEF BulkInv
  <1>0. upc[u] = "start" /\ job[u] \in BulkJob /\ UNCHANGED <<results, created, blurred>>
    BY UploadKinds DEF CreateJob
  <1>1. CASE ThrowOut(u) /\ UNCHANGED job
    <2>1. job' = [job EXCEPT ![u] = job[u]]
      BY <1>1 DEF BulkTyped
    <2> QED BY <1>0, <1>1, <2>1, ThrownInv DEF UploadSound
  <1>2. CASE upc' = [upc EXCEPT ![u] = "find"] /\ job' = [job EXCEPT ![u].status = "processing"] /\ UNCHANGED rowErrors
    <2>1. /\ upc'[u] = "find" /\ \A w \in Upload : w # u => upc'[w] = upc[w] /\ job'[w] = job[w]
          /\ upc' \in [Upload -> {"start", "find", "create", "count", "close", "done", "thrown"}]
          /\ job'[u] = [job[u] EXCEPT !.status = "processing"] /\ job' = [w \in Upload |-> job'[w]]
      BY <1>2 DEF BulkTyped
    <2>2. /\ job'[u] \in BulkJob /\ job'[u].status = "processing" /\ job'[u].processedRows = job[u].processedRows
      BY ONLY <1>0, <2>1 DEF BulkJob
    <2>3. job' \in [Upload -> BulkJob]
      BY <2>1, <2>2, UploadKinds
    <2>4. BulkTyped'
      BY <1>0, <1>2, <2>1, <2>3 DEF BulkTyped
    <2>5. SuccessesCreated'
      BY <1>0, SameSuccesses DEF Kinds
    <2>6. ASSUME NEW w \in Upload PROVE UploadSound(w)'
      <3>1. CASE w = u
        <4>1. Len(results[u]) = 0 /\ results'[u] = results[u] /\ job[u].processedRows = 0
          BY <1>0 DEF UploadSound, NoJob
        <4>2. upc'[u] = "find" /\ job'[u].status = "processing" /\ job'[u].processedRows = 0 /\ Len(File[u]) > 0
              /\ Len(File[u]) \in Nat
          BY <2>1, <2>2, <4>1, UploadKinds
        <4> QED BY ONLY <3>1, <4>1, <4>2 DEF UploadSound
      <3>2. CASE w # u
        BY <1>0, <2>1, <3>2, OtherUpload
      <3> QED BY <3>1, <3>2
    <2> QED BY <1>0, <2>4, <2>5, <2>6
  <1> QED BY <1>1, <1>2 DEF CreateJob

(* A row is answered: the invariant holds if the transfers and successes go together. *)
LEMMA PushInv ==
  ASSUME BulkInv, NEW u \in Upload, upc[u] \in {"find", "create"}, NEW kind \in RowKinds, Push(u, kind),
         job' = job, rowErrors' \in 0..MaxRowErrors, created' \in [TransferKeys -> Nat],
         \A k \in TransferKeys : created'[k] <= 1, blurred' \subseteq Upload, SuccessesCreated'
  PROVE  BulkInv'
  <1> USE DEF BulkInv
  <1>1. BulkTyped'
    BY PushAdds DEF BulkTyped
  <1>2. ASSUME NEW w \in Upload PROVE UploadSound(w)'
    <2>1. CASE w = u
      <3>1. /\ job[u].status # "completed" /\ job[u].processedRows <= Len(results[u])
            /\ Len(results[u]) < Len(File[u]) /\ Len(results'[u]) = Len(results[u]) + 1
            /\ upc'[u] \in {"count", "find"} /\ (upc'[u] = "find" => Len(results'[u]) # Len(File[u]))
        BY PushAdds DEF UploadSound
      <3>2. job[u].processedRows \in Nat
        BY UploadKinds DEF BulkJob
      <3>3. /\ job[u].processedRows <= Len(results'[u]) /\ Len(results'[u]) <= Len(File[u])
            /\ upc'[u] \in {"find", "create"} => Len(results'[u]) < Len(File[u])
        BY <3>1, <3>2, UploadKinds
      <3>4. job'[u] = job[u]
        OBVIOUS
      <3> QED BY ONLY <2>1, <3>1, <3>3, <3>4 DEF UploadSound
    <2>2. CASE w # u
      BY <2>2, PushAdds, OtherUpload
    <2> QED BY <2>1, <2>2
  <1> QED BY <1>1, <1>2

LEMMA RowKeyKnown == ASSUME BulkTyped, NEW u \in Upload, Len(results[u]) < Len(File[u]), RowKey(u) # "bad" PROVE RowKey(u) \in TransferKeys
  <1>1. Len(results[u]) + 1 \in 1..Len(File[u]) /\ File[u] \in Seq(TransferKeys \cup {"bad"})
    BY UploadKinds, BulkFacts
  <1>2. File[u][Len(results[u]) + 1] \in TransferKeys \cup {"bad"}
    BY <1>1
  <1> QED BY <1>2 DEF RowKey

LEMMA FindTransferInv == ASSUME BulkInv, NEW u \in Upload, FindTransfer(u) PROVE BulkInv'
  <1> USE DEF BulkInv
  <1>0. upc[u] = "find" /\ job[u] \in BulkJob /\ Len(results[u]) < Len(File[u]) /\ UNCHANGED <<job, created, blurred>>
    BY UploadKinds DEF FindTransfer, UploadSound
  <1>1. ASSUME NEW kind \in {"failure", "skipped"}, Push(u, kind), UNCHANGED rowErrors PROVE BulkInv'
    <2>1. kind \in RowKinds
      BY DEF RowKinds
    <2>2. \A w \in Upload : Kinds(w, "success")' = Kinds(w, "success")
      <3> TAKE w \in Upload
      <3>1. CASE w = u
        <4>1. Kinds(u, "success")' = Kinds(u, "success") + 0 /\ Kinds(u, "success") \in Nat
          BY <1>1, <2>1, PushAdds, KindsTyped
        <4> QED BY <3>1, <4>1
      <3>2. CASE w # u
        BY <1>1, <2>1, <3>2, PushAdds
      <3> QED BY <3>1, <3>2
    <2>3. SuccessesCreated'
      BY <1>0, <2>2, SameSuccesses
    <2> QED BY <1>0, <1>1, <2>1, <2>3, PushInv DEF BulkTyped
  <1>2. CASE RowKey(u) # "bad" /\ ThrowOut(u) /\ UNCHANGED results
    <2>1. job' = [job EXCEPT ![u] = job[u]]
      BY <1>0 DEF BulkTyped
    <2> QED BY <1>0, <1>2, <2>1, ThrownInv DEF UploadSound
  <1>3. CASE RowKey(u) # "bad" /\ UNCHANGED rowErrors /\ upc' = [upc EXCEPT ![u] = "create"] /\ UNCHANGED results
    <2>1. BulkTyped'
      BY <1>0, <1>3 DEF BulkTyped
    <2>2. SuccessesCreated'
      BY <1>0, <1>3, SameSuccesses DEF Kinds
    <2>3. upc'[u] = "create" /\ \A w \in Upload : w # u => upc'[w] = upc[w]
      BY <1>3 DEF BulkTyped
    <2>4. ASSUME NEW w \in Upload PROVE UploadSound(w)'
      <3>1. CASE w = u
        <4>1. results'[u] = results[u] /\ RowKey(u)' = RowKey(u) /\ job'[u] = job[u]
          BY <1>0, <1>3 DEF RowKey
        <4>2. job[u].status # "completed" /\ job[u].processedRows <= Len(results[u])
          BY <1>0 DEF UploadSound
        <4> QED BY <1>0, <1>3, <2>3, <3>1, <4>1, <4>2 DEF UploadSound
      <3>2. CASE w # u
        BY <1>0, <1>3, <2>3, <3>2, OtherUpload
      <3> QED BY <3>1, <3>2
    <2> QED BY <1>0, <2>1, <2>2, <2>4
  <1> QED BY <1>1, <1>2, <1>3 DEF FindTransfer

LEMMA ProcessRowInv == ASSUME BulkInv, NEW u \in Upload, processRow(u) PROVE BulkInv'
  <1> USE DEF BulkInv
  <1> DEFINE k == RowKey(u)
  <1>0. upc[u] = "create" /\ job[u] \in BulkJob /\ Len(results[u]) < Len(File[u]) /\ k \in TransferKeys /\ job' = job
    BY UploadKinds, RowKeyKnown DEF processRow, UploadSound
  <1>1. created \in [TransferKeys -> Nat] /\ rowErrors \in 0..MaxRowErrors /\ blurred \subseteq Upload
    BY DEF BulkTyped
  <1>a. RowFails => rowErrors' \in 0..MaxRowErrors
    BY <1>1, BulkFacts DEF RowFails
  <1>b. {"success", "skipped", "failure"} = RowKinds
    BY DEF RowKinds
  <1>c. ASSUME FreeKey(u), created' = [created EXCEPT ![k] = @ + 1]
        PROVE  created' \in [TransferKeys -> Nat] /\ \A j \in TransferKeys : created'[j] <= 1
    <2>1. created[k] = 0
      BY <1>c DEF FreeKey
    <2> HIDE DEF k
    <2> QED BY <1>0, <1>1, <1>c, <2>1
  <1>2. CASE FreeKey(u) /\ created' = [created EXCEPT ![k] = @ + 1] /\ Push(u, "success") /\ UNCHANGED <<rowErrors, blurred>>
    <2>1. Kinds(u, "success")' = Kinds(u, "success") + 1 /\ \A w \in Upload : w # u => Kinds(w, "success")' = Kinds(w, "success")
      BY <1>2, <1>b, PushAdds
    <2>2. BulkTyped'
      BY <1>0, <1>1, <1>2, <1>b, <1>c, PushAdds DEF BulkTyped
    <2>3. SuccessesCreated'
      <3>1. created' = [created EXCEPT ![k] = @ + 1] /\ blurred' = blurred /\ k \in TransferKeys
        BY <1>0, <1>2
      <3> HIDE DEF k
      <3> QED BY <2>1, <2>2, <3>1, OneMoreSuccess
    <2> QED BY <1>0, <1>1, <1>2, <1>b, <1>c, <2>3, PushInv
  <1>3. CASE FreeKey(u) /\ created' = [created EXCEPT ![k] = @ + 1] /\ RowFails /\ Push(u, "failure") /\ blurred' = blurred \cup {u}
    <2>1. SuccessesCreated' /\ blurred' \subseteq Upload
      BY <1>1, <1>3 DEF SuccessesCreated
    <2> QED BY <1>0, <1>1, <1>3, <1>a, <1>b, <1>c, <2>1, PushInv
  <1>4. ASSUME NEW kind \in {"failure", "skipped"}, Push(u, kind), UNCHANGED <<created, blurred>>, rowErrors' \in 0..MaxRowErrors
        PROVE  BulkInv'
    <2>1. kind \in RowKinds
      BY DEF RowKinds
    <2>2. \A w \in Upload : Kinds(w, "success")' = Kinds(w, "success")
      <3> TAKE w \in Upload
      <3>1. CASE w = u
        <4>1. Kinds(u, "success")' = Kinds(u, "success") + 0 /\ Kinds(u, "success") \in Nat
          BY <1>4, <2>1, PushAdds, KindsTyped
        <4> QED BY <3>1, <4>1
      <3>2. CASE w # u
        BY <1>4, <2>1, <3>2, PushAdds
      <3> QED BY <3>1, <3>2
    <2>3. SuccessesCreated'
      BY <1>4, <2>2, SameSuccesses
    <2> QED BY <1>0, <1>1, <1>4, <2>1, <2>3, PushInv
  <1>5. CASE ThrowOut(u) /\ UNCHANGED <<created, blurred, results>>
    <2>1. job' = [job EXCEPT ![u] = job[u]]
      BY <1>0 DEF BulkTyped
    <2> QED BY <1>0, <1>5, <2>1, ThrownInv DEF UploadSound
  <1> QED BY <1>1, <1>2, <1>3, <1>4, <1>5, <1>a DEF processRow

LEMMA CountsRight ==
  ASSUME BulkTyped, NEW u \in Upload
  PROVE  /\ Counts(u) \in BulkJob /\ Counts(u).processedRows = Len(results[u])
         /\ Counts(u).successCount = Kinds(u, "success") /\ Counts(u).failureCount = Kinds(u, "failure")
         /\ Counts(u).status = job[u].status /\ Counts(u).skipped = job[u].skipped
  <1>1. job[u] \in BulkJob /\ Len(results[u]) \in Nat /\ Kinds(u, "success") \in Nat /\ Kinds(u, "failure") \in Nat
    BY UploadKinds, KindsTyped
  <1> QED BY ONLY <1>1 DEF Counts, BulkJob

LEMMA UpdateCountsInv == ASSUME BulkInv, NEW u \in Upload, UpdateCounts(u) PROVE BulkInv'
  <1> USE DEF BulkInv
  <1>0. upc[u] = "count" /\ job[u] \in BulkJob /\ job[u].status # "completed" /\ UNCHANGED <<results, created, blurred>>
    BY UploadKinds DEF UpdateCounts, UploadSound
  <1>1. CASE ThrowOut(u) /\ job' \in {job, [job EXCEPT ![u] = Counts(u)]}
    <2>1. CASE job' = job
      <3>1. job' = [job EXCEPT ![u] = job[u]]
        BY <2>1 DEF BulkTyped
      <3> QED BY <1>0, <1>1, <3>1, ThrownInv DEF UploadSound
    <2>2. CASE job' = [job EXCEPT ![u] = Counts(u)]
      <3>1. Len(results[u]) <= Len(results[u])
        BY UploadKinds
      <3> QED BY <1>0, <1>1, <2>2, <3>1, CountsRight, ThrownInv
    <2> QED BY <1>1, <2>1, <2>2
  <1>2. CASE /\ job' = [job EXCEPT ![u] = Counts(u)]
             /\ upc' = [upc EXCEPT ![u] = IF Len(results[u]) = Len(File[u]) THEN "close" ELSE "find"]
             /\ UNCHANGED rowErrors
    <2>1. /\ upc'[u] = (IF Len(results[u]) = Len(File[u]) THEN "close" ELSE "find") /\ job'[u] = Counts(u)
          /\ \A w \in Upload : w # u => upc'[w] = upc[w] /\ job'[w] = job[w]
          /\ upc' \in [Upload -> {"start", "find", "create", "count", "close", "done", "thrown"}]
          /\ job' \in [Upload -> BulkJob]
      BY <1>2, CountsRight DEF BulkTyped
    <2>2. BulkTyped'
      BY <1>0, <1>2, <2>1 DEF BulkTyped
    <2>3. \A w \in Upload : \A k : Kinds(w, k)' = Kinds(w, k)
      BY <1>0 DEF Kinds
    <2>4. SuccessesCreated'
      BY <1>0, <2>3, SameSuccesses
    <2>5. ASSUME NEW w \in Upload PROVE UploadSound(w)'
      <3>1. CASE w = u
        <4>1. results'[u] = results[u] /\ Len(results[u]) <= Len(File[u]) /\ Len(results[u]) <= Len(results[u])
          BY <1>0, UploadKinds DEF UploadSound
        <4>2. upc'[u] = "find" => Len(results[u]) < Len(File[u])
          BY <2>1, <4>1, UploadKinds
        <4> QED BY <1>0, <2>1, <2>3, <3>1, <4>1, <4>2, CountsRight DEF UploadSound, JobCounts
      <3>2. CASE w # u
        BY <1>0, <2>1, <3>2, OtherUpload
      <3> QED BY <3>1, <3>2
    <2> QED BY <1>0, <2>2, <2>4, <2>5
  <1> QED BY <1>1, <1>2 DEF UpdateCounts

LEMMA CompleteJobInv == ASSUME BulkInv, NEW u \in Upload, CompleteJob(u) PROVE BulkInv'
  <1> USE DEF BulkInv
  <1> DEFINE b == [job[u] EXCEPT !.status = "completed", !.skipped = Kinds(u, "skipped")]
  <1>0. upc[u] = "close" /\ job[u] \in BulkJob /\ JobCounts(u) /\ job[u].processedRows <= Len(results[u])
        /\ UNCHANGED <<results, created, blurred>>
    BY UploadKinds DEF CompleteJob, UploadSound
  <1>1. /\ b \in BulkJob /\ b.status = "completed" /\ b.skipped = Kinds(u, "skipped")
        /\ b.processedRows = job[u].processedRows /\ b.successCount = job[u].successCount
        /\ b.failureCount = job[u].failureCount
    <2>1. Kinds(u, "skipped") \in Nat
      BY KindsTyped
    <2> QED BY ONLY <1>0, <2>1 DEF BulkJob
  <1>2. \/ job' = [job EXCEPT ![u] = b] /\ upc' = [upc EXCEPT ![u] = "done"] /\ UNCHANGED rowErrors
        \/ ThrowOut(u) /\ job' \in {job, [job EXCEPT ![u] = b]}
    BY DEF CompleteJob
  <1> HIDE DEF b
  <1>3. CASE ThrowOut(u) /\ job' \in {job, [job EXCEPT ![u] = b]}
    <2>1. CASE job' = job
      <3>1. job' = [job EXCEPT ![u] = job[u]] /\ job[u].status # "completed"
        BY <1>0, <2>1 DEF BulkTyped, UploadSound
      <3> QED BY <1>0, <1>3, <3>1, ThrownInv
    <2>2. CASE job' = [job EXCEPT ![u] = b]
      BY <1>0, <1>1, <1>3, <2>2, ThrownInv DEF JobCounts
    <2> QED BY <1>3, <2>1, <2>2
  <1>4. CASE job' = [job EXCEPT ![u] = b] /\ upc' = [upc EXCEPT ![u] = "done"] /\ UNCHANGED rowErrors
    <2>1. /\ upc'[u] = "done" /\ job'[u] = b
          /\ \A w \in Upload : w # u => upc'[w] = upc[w] /\ job'[w] = job[w]
          /\ upc' \in [Upload -> {"start", "find", "create", "count", "close", "done", "thrown"}]
          /\ job' \in [Upload -> BulkJob]
      BY <1>1, <1>4 DEF BulkTyped
    <2>2. BulkTyped'
      BY <1>0, <1>4, <2>1 DEF BulkTyped
    <2>3. \A w \in Upload : \A k : Kinds(w, k)' = Kinds(w, k)
      BY <1>0 DEF Kinds
    <2>4. SuccessesCreated'
      BY <1>0, <2>3, SameSuccesses
    <2>5. ASSUME NEW w \in Upload PROVE UploadSound(w)'
      <3>1. CASE w = u
        BY <1>0, <1>1, <2>1, <2>3, <3>1 DEF UploadSound, JobCounts
      <3>2. CASE w # u
        BY <1>0, <2>1, <3>2, OtherUpload
      <3> QED BY <3>1, <3>2
    <2> QED BY <1>0, <2>2, <2>4, <2>5
  <1> QED BY <1>2, <1>3, <1>4

(* Over any files processed at once, a key is transferred at most once, a completed  *)
(* job accounts for its rows, and what the jobs report is what was transferred.      *)
THEOREM BulkIsAccounted == BulkSpec => []BulkAccounted
  <1>1. BulkInv /\ [BulkNext]_bulkVars => BulkInv'
    <2> SUFFICES ASSUME BulkInv, [BulkNext]_bulkVars PROVE BulkInv'
      OBVIOUS
    <2>1. CASE UNCHANGED bulkVars
      <3>1. BulkTyped' /\ SuccessesCreated' /\ \A k \in TransferKeys : created'[k] <= 1
        BY <2>1, SameSuccesses DEF bulkVars, BulkInv, BulkTyped, Kinds
      <3>2. \A u \in Upload : UploadSound(u)'
        BY <2>1, OtherUpload DEF bulkVars, BulkInv
      <3> QED BY <3>1, <3>2 DEF BulkInv
    <2> QED BY <2>1, CreateJobInv, FindTransferInv, ProcessRowInv, UpdateCountsInv, CompleteJobInv DEF BulkNext
  <1>2. BulkInv => BulkAccounted
    <2> SUFFICES ASSUME BulkInv PROVE BulkAccounted
      OBVIOUS
    <2> USE DEF BulkInv
    <2>1. BulkTypeOK
      <3>1. \A u \in Upload : job[u] \in BulkJob
        BY UploadKinds
      <3> QED BY <3>1 DEF BulkTyped, BulkTypeOK, UploadSound, BulkJob
    <2>2. ASSUME NEW u \in Upload
          PROVE  /\ job[u].status = "completed" => job[u].successCount + job[u].failureCount + job[u].skipped = Len(File[u])
                 /\ job[u].status = "processing" => upc[u] # "done"
      <3>1. Kinds(u, "success") + Kinds(u, "failure") + Kinds(u, "skipped") = Len(results[u])
        BY UploadKinds, KindsAddUp DEF Kinds, Occurs
      <3> QED BY <3>1 DEF UploadSound, JobCounts
    <2>3. ASSUME blurred = {}, \A u \in Upload : upc[u] \in {"start", "done"}
          PROVE  SumFunction([u \in Upload |-> job[u].successCount]) = SumFunction(created)
      <3>1. ASSUME NEW u \in Upload PROVE job[u].successCount = Kinds(u, "success")
        <4>1. CASE upc[u] = "done"
          BY <4>1 DEF UploadSound, JobCounts
        <4>2. CASE upc[u] = "start"
          <5>1. results[u] = <<>> /\ job[u].successCount = 0
            BY <4>2 DEF UploadSound, NoJob
          <5>2. {i \in DOMAIN results[u] : results[u][i] = "success"} = {}
            BY <5>1
          <5> QED BY <5>1, <5>2, FS_EmptySet DEF Kinds
        <4> QED BY <2>3, <4>1, <4>2
      <3>2. [u \in Upload |-> job[u].successCount] = [u \in Upload |-> Kinds(u, "success")]
        BY <3>1
      <3> QED BY <2>3, <3>2 DEF SuccessesCreated
    <2> QED BY <2>1, <2>2, <2>3 DEF BulkAccounted
  <1> QED BY <1>1, <1>2, BulkInitInv, PTL DEF BulkSpec
=============================================================================
