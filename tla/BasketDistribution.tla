------------------------- MODULE BasketDistribution -------------------------
(***************************************************************************)
(* calculateBasketDistribution of jobs/usdcConversionJob.ts: an amount is  *)
(* split over the basket by weight in whole stroops, and the stroops that  *)
(* the integer divisions leave over go to the largest remainders.  An      *)
(* amount is counted in 1/Sub stroops, so that truncation can be seen; a   *)
(* weight in units of 1/10000 percent.                                     *)
(***************************************************************************)
EXTENDS Integers, FiniteSets, Sequences, Functions

CONSTANTS
    Sub,         \* parts of a stroop that an amount may carry
    MaxAmount,   \* bound: the amounts, in 1/Sub stroops
    MaxWeight,   \* bound: the weights
    MaxBasket    \* bound: the currencies of a basket

ASSUME DistributionAssumption ==
    /\ Sub \in Nat \ {0}
    /\ MaxAmount \in Nat /\ MaxWeight \in Nat /\ MaxBasket \in Nat

VARIABLES
    amount,   \* usdcAmount
    basket,   \* the weights of the basket's entries, in order
    state,    \* "called", "returned" or "thrown"
    shares    \* amountAtomic of each entry of the result

distributionVars == <<amount, basket, state, shares>>

-----------------------------------------------------------------------------
(* Mutation: the amount is rounded up. *)
RoundedUp(a) == (a + Sub - 1) \div Sub

(* toFixed(0, ROUND_DOWN): the amount in whole stroops. *)
totalAtomic(a) == a \div Sub

totalWeight(b) == SumFunction(b)

(* The integer division of an entry's product, and what it leaves. *)
baseAtomic(total, b, i) == (total * b[i]) \div totalWeight(b)
remainder(total, b, i)  == (total * b[i]) % totalWeight(b)

(* Mutation: the position alone decides. *)
ByPosition(total, b, i, j) == i < j

(* The comparator: larger remainder, then larger weight, then position. *)
Precedes(total, b, i, j) ==
    LET ri == remainder(total, b, i)
        rj == remainder(total, b, j)
    IN \/ ri > rj
       \/ ri = rj /\ b[i] > b[j]
       \/ ri = rj /\ b[i] = b[j] /\ i < j

(* The place of entry i in sortedIndices, from 0. *)
Place(total, b, i) == Cardinality({j \in DOMAIN b : j # i /\ Precedes(total, b, j, i)})

residual(total, b) ==
    total - SumFunction([i \in DOMAIN b |-> baseAtomic(total, b, i)])

(* Mutation: the first entry gets all that is left over. *)
AllToFirst(total, b, i) ==
    baseAtomic(total, b, i) + (IF Place(total, b, i) = 0 THEN residual(total, b) ELSE 0)

(* The loop over k gives one stroop to sortedIndices[k % length]. *)
finalAtomic(total, b, i) ==
    baseAtomic(total, b, i)
      + Cardinality({k \in 0..(residual(total, b) - 1) : k % Len(b) = Place(total, b, i)})

(* The result; a single currency gets everything, whatever its weight. *)
Distribution(a, b) ==
    LET total == totalAtomic(a)
    IN IF Len(b) = 0 \/ total <= 0 THEN <<>>
       ELSE IF Len(b) = 1 THEN <<total>>
       ELSE [i \in DOMAIN b |-> finalAtomic(total, b, i)]

(* "Total basket weight must be positive", after the early returns. *)
Throws(a, b) == Len(b) > 1 /\ totalAtomic(a) > 0 /\ totalWeight(b) <= 0

-----------------------------------------------------------------------------
DistributionInit ==
    /\ amount \in 0..MaxAmount
    /\ basket \in UNION {[1..n -> 0..MaxWeight] : n \in 0..MaxBasket}
    /\ state = "called"
    /\ shares = <<>>

calculateBasketDistribution ==
    /\ state = "called"
    /\ \/ Throws(amount, basket) /\ state' = "thrown" /\ UNCHANGED shares
       \/ ~Throws(amount, basket) /\ state' = "returned" /\ shares' = Distribution(amount, basket)
    /\ UNCHANGED <<amount, basket>>

DistributionSpec == DistributionInit /\ [][calculateBasketDistribution]_distributionVars

-----------------------------------------------------------------------------
Split == state = "returned" /\ shares # <<>>

(* "the sum of all allocated shares strictly equals the initial amount with zero *)
(* residual drift": no stroop is lost or made, and only what is less than one is *)
(* dropped.  Every share is its exact quota rounded down or up.  And a currency  *)
(* never gets less than one of smaller weight, nor than a later one of equal     *)
(* weight: the tie-breakers agree with the weights.                              *)
FairShares ==
    Split =>
        LET sum == SumFunction(shares)
            W   == totalWeight(basket)
        IN /\ sum * Sub <= amount /\ amount < (sum + 1) * Sub
           /\ Len(basket) > 1 => \A i \in DOMAIN basket :
                 /\ shares[i] * W > sum * basket[i] - W
                 /\ shares[i] * W < sum * basket[i] + W
           /\ \A i, j \in DOMAIN basket :
                 basket[i] > basket[j] \/ (basket[i] = basket[j] /\ i < j) => shares[i] >= shares[j]
=============================================================================
