------------------------------ MODULE MCAccounts ------------------------------
(* The models around a user's account for TLC, in one run: sign-in, recovery,   *)
(* KYC documents, the directory, the queues and the lists.  part says which of  *)
(* them moves; what another part may begin with is pinned.                      *)
EXTENDS Auth, Recovery, Kyc, Directory, Queues, Paging, TLC

VARIABLE part

Init ==
    /\ part \in {"auth", "recovery", "kyc", "directory", "webhooks", "notices", "lists"}
    /\ AuthInit /\ RecoveryInit /\ KycInit /\ DirectoryInit /\ QueuesInit /\ PagingInit
    /\ part # "auth" => user.method = "none"
    /\ part # "kyc" => healthy = {}
    /\ part # "directory" => \A p \in Person : alias[p] = NoAlias
    /\ part # "notices" => mailer = "sends" /\ texter = "sends"
    /\ part # "lists" => walk.list = "transfers" /\ walk.take = DefaultLimit

Next ==
    /\ UNCHANGED part
    /\ \/ /\ part = "auth" /\ AuthNext
          /\ UNCHANGED <<recoveryVars, kycVars, directoryVars, queueVars, pagingVars>>
       \/ /\ part = "recovery" /\ RecoveryNext
          /\ UNCHANGED <<authVars, kycVars, directoryVars, queueVars, pagingVars>>
       \/ /\ part = "kyc" /\ KycNext
          /\ UNCHANGED <<authVars, recoveryVars, directoryVars, queueVars, pagingVars>>
       \/ /\ part = "directory" /\ DirectoryNext
          /\ UNCHANGED <<authVars, recoveryVars, kycVars, queueVars, pagingVars>>
       \* the queues share nothing but the providers: webhooks move on their own
       \/ /\ part = "webhooks" /\ QueuesNext /\ \A m \in Notice \cup Audit : at'[m] = "none"
          /\ UNCHANGED <<authVars, recoveryVars, kycVars, directoryVars, pagingVars>>
       \/ /\ part = "notices" /\ QueuesNext /\ \A w \in Webhook : row'[w] = "none"
          /\ UNCHANGED <<authVars, recoveryVars, kycVars, directoryVars, pagingVars>>
       \/ /\ part = "lists" /\ PagingNext
          /\ UNCHANGED <<authVars, recoveryVars, kycVars, directoryVars, queueVars>>

Spec == Init /\ [][Next]_<<part, authVars, recoveryVars, kycVars, directoryVars, queueVars, pagingVars>>

(* The parts share their model values: one permutation serves them all. *)
Interchangeable == Permutations(Client) \cup Permutations(Instance)
===============================================================================
