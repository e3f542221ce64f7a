------------------------------ MODULE Wallet ------------------------------
(***************************************************************************)
(* One user's wallet: the version that every change must present as its    *)
(* If-Match, the balance cache of each process, and the transfers of       *)
(* services/transfer/transferService.ts, which reserve a version, check    *)
(* the balance and create one Transaction per idempotency key.  The        *)
(* service has createTransfer twice; the one the controller's arguments    *)
(* fit, and the one in force, is the second.  No caller passes it a        *)
(* signing key, so it submits nothing.                                     *)
(***************************************************************************)
EXTENDS Naturals

CONSTANTS
    Caller,      \* requests that may run at the same time
    Host,        \* processes, each with its own balanceCache
    Key,         \* idempotency keys
    Address,     \* Stellar addresses the user may bind
    NoAddress,
    MaxVersion   \* bound: changes of the wallet

ASSUME WalletAssumption == NoAddress \notin Address /\ MaxVersion \in Nat \ {0}

VARIABLES
    version, address,  \* User.walletVersion and User.stellarAddress
    transfer,          \* the Transaction of each key: "none", "pending" or "completed"
    cache,             \* balanceCache: of each process, [tag, loaded] or NoEntry
    wpc, req,          \* where each request is, and what it carries
    \* what happened, for the properties
    relied,            \* [reserved, loaded] of every transfer whose balance sufficed
    replaced           \* an enrolment overwrote another address

walletVars == <<version, address, transfer, cache, wpc, req, relied, replaced>>

Ops      == {"get", "transfer", "put", "delete", "enroll", "activate"}
Bound    == Address \cup {NoAddress}
NoEntry  == [tag |-> 0, loaded |-> 0]
NoReq    == [op |-> "get", host |-> NoAddress, tag |-> 0, new |-> NoAddress,
             key |-> CHOOSE k \in Key : TRUE, seen |-> NoEntry]

(* A tag is never newer than the wallet, a cached balance never older than its tag. *)
WalletTypeOK ==
    /\ version \in 1..MaxVersion /\ address \in Bound
    /\ transfer \in [Key -> {"none", "pending", "completed"}]
    /\ \A h \in Host : cache[h].tag <= cache[h].loaded /\ cache[h].loaded <= version
    /\ \A c \in Caller : wpc[c] = "idle" => req[c] = NoReq

WalletInit ==
    /\ version = 1 /\ address \in Bound
    /\ transfer = [k \in Key |-> "none"] /\ cache = [h \in Host |-> NoEntry]
    /\ wpc = [c \in Caller |-> "idle"] /\ req = [c \in Caller |-> NoReq]
    /\ relied = {} /\ replaced = FALSE

Next1(c, l) == wpc' = [wpc EXCEPT ![c] = l]
Ends(c)     == wpc' = [wpc EXCEPT ![c] = "idle"] /\ req' = [req EXCEPT ![c] = NoReq]

-----------------------------------------------------------------------------
(* A request, with the ETag of an earlier answer: GET and PUT wallet, DELETE,    *)
(* enroll, activate, POST transfers.  PUT answers an unchanged address at once,  *)
(* enroll refuses to replace another, activate needs one, and a transfer whose   *)
(* key has a row returns it: all from a read before the version is compared.     *)
Admitted(op, new, key) ==
    CASE op = "put"      -> new \in Address /\ new # address
      [] op = "enroll"   -> new \in Address /\ address \in {NoAddress, new}
      [] op = "activate" -> address # NoAddress /\ new = NoAddress
      [] op = "transfer" -> transfer[key] = "none" /\ new = NoAddress
      [] OTHER           -> new = NoAddress

Asks(c, op) ==
    /\ wpc[c] = "idle"
    /\ \E h \in Host, tag \in 1..version, new \in Bound, key \in Key :
          /\ Admitted(op, new, key)
          /\ op # "transfer" => key = NoReq.key
          /\ req' = [req EXCEPT ![c] = [op |-> op, host |-> h, new |-> new, key |-> key,
                                        tag |-> IF op = "get" THEN 0 ELSE tag, seen |-> NoEntry]]
          /\ Next1(c, IF op = "get" THEN "user" ELSE "reserve")
    /\ UNCHANGED <<version, address, transfer, cache, relied, replaced>>

Request(c)       == \E op \in Ops \ {"transfer"} : Asks(c, op)
postTransfers(c) == Asks(c, "transfer")

(* Mutation: the version that was read is not compared. *)
AnyVersion(c) == TRUE

(* The where of the updateMany in reserveWalletVersion and                       *)
(* updateWalletWithConcurrency.                                                  *)
Matches(c) == version = req[c].tag

Rebound(c) ==
    CASE req[c].op \in {"put", "enroll"} -> req[c].new
      [] req[c].op = "delete"            -> NoAddress
      [] OTHER                           -> address

(* The compare and increment, with the new address if there is one; the cache of *)
(* this process forgets the user.                                                *)
Reserve(c) ==
    /\ wpc[c] = "reserve"
    /\ IF ~Matches(c)
       THEN Ends(c) /\ UNCHANGED <<version, address, cache, replaced>>
       ELSE /\ version < MaxVersion
            /\ version' = version + 1 /\ address' = Rebound(c)
            /\ cache' = [cache EXCEPT ![req[c].host] = NoEntry]
            /\ replaced' = (replaced \/ (req[c].op = "enroll" /\ address \notin {NoAddress, req[c].new}))
            /\ IF req[c].op = "transfer"
               THEN Next1(c, "user") /\ req' = [req EXCEPT ![c].tag = version']
               ELSE Ends(c)
    /\ UNCHANGED <<transfer, relied>>

-----------------------------------------------------------------------------
(* Mutation: any cached balance will do. *)
HitsAny(h) == cache[h] # NoEntry

(* A cached balance, not yet expired, of the version the user has. *)
CacheHit(h) == cache[h] # NoEntry /\ cache[h].tag = version

(* fetchWalletBalance reads the user, and asks the cache; without an address the *)
(* balance is zero, which ends a transfer.                                       *)
FetchUser(c) ==
    /\ wpc[c] = "user"
    /\ \/ address = NoAddress /\ Ends(c)
       \/ /\ address # NoAddress /\ CacheHit(req[c].host)
          /\ req' = [req EXCEPT ![c].seen = cache[req[c].host]] /\ Next1(c, "balance")
       \/ /\ address # NoAddress   \* a miss, or an expired entry
          /\ req' = [req EXCEPT ![c].seen.tag = version] /\ Next1(c, "load")
    /\ UNCHANGED <<version, address, transfer, cache, relied, replaced>>

(* Horizon answers with the balance of now, ... *)
LoadAccount(c) ==
    /\ wpc[c] = "load"
    /\ \/ req' = [req EXCEPT ![c].seen.loaded = version] /\ Next1(c, "cache")
       \/ Ends(c)
    /\ UNCHANGED <<version, address, transfer, cache, relied, replaced>>

(* ... which is cached under the version read before. *)
SetCache(c) ==
    /\ wpc[c] = "cache"
    /\ cache' = [cache EXCEPT ![req[c].host] = req[c].seen]
    /\ Next1(c, "balance") /\ UNCHANGED req
    /\ UNCHANGED <<version, address, transfer, relied, replaced>>

(* The rest of createTransfer: the balance, the recipient, the Travel Rule. *)
CheckTransfer(c) ==
    /\ wpc[c] = "balance"
    /\ \/ /\ req[c].op = "transfer"
          /\ relied' = relied \cup {[reserved |-> req[c].tag, loaded |-> req[c].seen.loaded]}
          /\ Next1(c, "create") /\ UNCHANGED req
       \/ Ends(c) /\ UNCHANGED relied
    /\ UNCHANGED <<version, address, transfer, cache, replaced>>

(* The row, unless another request has created it under the key; with the hash   *)
(* of a payment the client made, a second write completes it.                    *)
CreateTransfer(c) ==
    /\ wpc[c] = "create"
    /\ IF transfer[req[c].key] # "none"
       THEN Ends(c) /\ UNCHANGED transfer
       ELSE /\ transfer' = [transfer EXCEPT ![req[c].key] = "pending"]
            /\ \/ Next1(c, "complete") /\ UNCHANGED req
               \/ Ends(c)
    /\ UNCHANGED <<version, address, cache, relied, replaced>>

CompleteTransfer(c) ==
    /\ wpc[c] = "complete"
    /\ transfer' = [transfer EXCEPT ![req[c].key] = "completed"]
    /\ Ends(c)
    /\ UNCHANGED <<version, address, cache, relied, replaced>>

WalletNext ==
    \E c \in Caller :
        \/ Request(c) \/ postTransfers(c) \/ Reserve(c) \/ FetchUser(c) \/ LoadAccount(c) \/ SetCache(c)
        \/ CheckTransfer(c) \/ CreateTransfer(c) \/ CompleteTransfer(c)

WalletSpec == WalletInit /\ [][WalletNext]_walletVars

-----------------------------------------------------------------------------
(* The balance a transfer is checked against was read from Horizon after the     *)
(* transfer reserved its version, though caches are per process, only one of     *)
(* them is cleared, and an older load may fill it again afterwards.              *)
BalanceFresh == \A r \in relied : r.loaded >= r.reserved

(* enrollClientGeneratedWallet never overwrites another address, though it reads *)
(* the address before the version is compared.                                   *)
EnrolmentKeepsAddress == ~replaced

(* Transfers rely on fresh balances and enrolment keeps addresses, in rows of the *)
(* schema's types.                                                                *)
WalletSound == WalletTypeOK /\ BalanceFresh /\ EnrolmentKeepsAddress
=============================================================================
