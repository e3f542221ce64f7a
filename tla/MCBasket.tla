------------------------------- MODULE MCBasket -------------------------------
(* The models around the basket for TLC, in one run: minting from it, the       *)
(* tracking of its reserves, the rates of its currencies, the caches in front   *)
(* of rates and limits, the treasury view, its weights, the apportionment of an *)
(* amount over it and what of it is invested.  part says which of them moves;   *)
(* what another part may begin with is pinned.                                  *)
EXTENDS BasketMint, Reserves, Oracle, BasketDistribution, Treasury, BasketWeights, Allocation, TLC

VARIABLE part

BasketInit ==
    /\ part \in {"mint", "reserves", "oracle", "split", "caches", "treasury", "weights", "invest"}
    /\ Init
    /\ ReservesInit /\ usdRate = [c \in Currency |-> 1] /\ holding[1] = 1 /\ (part # "reserves" => holding[2] = 0)
    /\ OracleInit
    /\ ReadCachesInit /\ (part # "caches" => readOf = "fx")
    /\ TreasuryInit /\ holds = Fact /\ life = Life
    /\ BasketWeightsInit /\ (part # "weights" => \A c \in Coin : gdp[c] = 1 /\ trade[c] = 0)
    /\ AllocationInit
    \* without an allocation nothing is deployed; that it is strategy 1's is no restriction
    /\ part = "invest" =>
          \E c \in Change : change[c].kind = "allocate" /\ change[c].of = 1 /\ change[c].amount > 0
    /\ part # "invest" => \A c \in Change : change[c] = [kind |-> "allocate", of |-> 1, amount |-> 0]
    /\ IF part = "split" THEN DistributionInit
       ELSE amount = 0 /\ basket = <<>> /\ state = "called" /\ shares = <<>>

(* No variable of the parts but p changes. *)
Only(p) ==
    /\ part = p /\ UNCHANGED part
    /\ p # "mint" => UNCHANGED vars
    /\ p # "reserves" => UNCHANGED reservesVars
    /\ p # "oracle" => UNCHANGED oracleVars
    /\ p # "split" => UNCHANGED distributionVars
    /\ p # "caches" => UNCHANGED cacheVars
    /\ p # "treasury" => UNCHANGED treasuryVars
    /\ p # "weights" => UNCHANGED weightVars
    /\ p # "invest" => UNCHANGED allocationVars

BasketNext ==
    \/ Only("mint") /\ Next
    \/ Only("reserves") /\ ReservesNext
    \/ Only("oracle") /\ OracleNext
    \/ Only("split") /\ calculateBasketDistribution
    \/ Only("caches") /\ ReadCachesNext
    \/ Only("treasury") /\ TreasuryNext
    \/ Only("weights") /\ BasketWeightsNext
    \/ Only("invest") /\ AllocationNext

BasketSpec ==
    BasketInit /\ [][BasketNext]_<<part, vars, reservesVars, oracleVars, distributionVars, cacheVars, treasuryVars,
                                   weightVars, allocationVars>>

(* A mint of the official; a burn of nobody that names the organisation, without a *)
(* currency.  The currency with a reserve is outside the basket.                   *)
TwoRows ==
    {[user |-> CHOOSE u \in Official : TRUE, ours |-> FALSE, type |-> "mint", currency |-> 1],
     [user |-> Null, ours |-> TRUE, type |-> "burn", currency |-> Null]}
OneReserve == {[coin |-> 2, segment |-> "investmentSavings"]}
BasketOfOne == <<1>>

(* The parts share their model values: one permutation serves them all.  Those of *)
(* the confirmations would cost more than the states they spare.                  *)
Interchangeable == Permutations(Tx) \cup Permutations(Deposits)
===============================================================================
