------------------------------ MODULE Deposit ------------------------------
(***************************************************************************)
(* What the on-ramp promises of a deposit, with no queue, no consumer and  *)
(* no retry in it: a USDC deposit is converted once, a converted deposit   *)
(* is minted once, only a minted deposit completes, only one that was not  *)
(* minted fails, and nothing happens to it afterwards.                     *)
(***************************************************************************)
EXTENDS Naturals

CONSTANTS Swap, Usdc

VARIABLES
    stage,        \* "none", "open", "completed" or "failed"
    swaps, mints  \* effects on chain

depositVars == <<stage, swaps, mints>>

DepositInit ==
    /\ stage = [s \in Swap |-> "none"]
    /\ swaps = [s \in Swap |-> 0]
    /\ mints = [s \in Swap |-> 0]

Open(s) ==
    /\ stage[s] = "none"
    /\ stage' = [stage EXCEPT ![s] = "open"]
    /\ UNCHANGED <<swaps, mints>>

Convert(s) ==
    /\ stage[s] = "open" /\ s \in Usdc
    /\ swaps[s] = 0 /\ mints[s] = 0
    /\ swaps' = [swaps EXCEPT ![s] = 1]
    /\ UNCHANGED <<stage, mints>>

Mint(s) ==
    /\ stage[s] = "open"
    /\ s \in Usdc => swaps[s] = 1
    /\ mints[s] = 0
    /\ mints' = [mints EXCEPT ![s] = 1]
    /\ UNCHANGED <<stage, swaps>>

Settle(s) ==
    /\ stage[s] = "open"
    /\ stage' = [stage EXCEPT ![s] = IF mints[s] = 1 THEN "completed" ELSE "failed"]
    /\ UNCHANGED <<swaps, mints>>

DepositNext == \E s \in Swap : Open(s) \/ Convert(s) \/ Mint(s) \/ Settle(s)

DepositSpec == DepositInit /\ [][DepositNext]_depositVars
=============================================================================
