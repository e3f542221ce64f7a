------------------------------ MODULE MCPayments ------------------------------
(* The models of what moves a user's money, for TLC in one run: part says which *)
(* of them moves; what another part may begin with is pinned.                   *)
EXTENDS Bills, Wallet, Salary, Bulk, ChainCalls, Investment, Providers, Inbound, TLC

VARIABLE part

Init ==
    /\ part \in {"bills", "wallet", "salary", "bulk", "chain", "investment", "providers", "inbound"}
    /\ BillsInit /\ (part # "bills" => ofUser = Bill /\ \A r, s \in Refund : bill[r] = bill[s])
    /\ WalletInit /\ (part # "wallet" => address = NoAddress)
    /\ SalaryInit /\ BulkInit
    /\ ChainCallsInit /\ (part # "chain" => \A c \in Call : callKind[c] = "mint")
    /\ InvestmentInit
    /\ ProvidersInit /\ (part # "providers" => \A k \in Payout : via[k] = "paystack" /\ what[k] = "pay")
    /\ \A k \in Payout : what[k] = "balance" => via[k] = "mtn"  \* the other clients share nothing to spoil
    /\ InboundInit /\ (part # "inbound" => secrets = Route)

(* No variable of the parts but p changes. *)
Only(p) ==
    /\ part = p /\ UNCHANGED part
    /\ p # "bills" => UNCHANGED billsVars
    /\ p # "wallet" => UNCHANGED walletVars
    /\ p # "salary" => UNCHANGED salaryVars
    /\ p # "bulk" => UNCHANGED bulkVars
    /\ p # "chain" => UNCHANGED chainVars
    /\ p # "investment" => UNCHANGED investmentVars
    /\ p # "providers" => UNCHANGED providerVars
    /\ p # "inbound" => UNCHANGED inboundVars

Next ==
    \/ Only("bills") /\ BillsNext
    \/ Only("wallet") /\ WalletNext
    \/ Only("salary") /\ SalaryNext
    \/ Only("bulk") /\ BulkNext
    \/ Only("chain") /\ ChainCallsNext
    \/ Only("investment") /\ InvestmentNext
    \/ Only("providers") /\ ProvidersNext
    \/ Only("inbound") /\ InboundNext

Spec ==
    Init /\ [][Next]_<<part, billsVars, walletVars, salaryVars, bulkVars, chainVars, investmentVars,
                       providerVars, inboundVars>>

TwoFiles == [u \in Upload |-> IF u = 1 THEN <<"k1", "bad", "k2">> ELSE <<"k2", "k1", "k1">>]

(* The parts share their model values: one permutation serves them all. *)
Interchangeable == Permutations(Caller) \cup Permutations(Host)
===============================================================================
