--------------------------- MODULE BasketWeights ---------------------------
(***************************************************************************)
(* Where the basket comes from: the proposed-weights job of every process  *)
(* turns GDP, trade and liquidity into weights that sum to 100.00 % in     *)
(* whole basis points and creates one BasketConfig row per currency, one   *)
(* insert at a time and without a lock; an administrator makes rows of one *)
(* effectiveFrom active; getCurrentBasket reads the newest of those.       *)
(* Shares are exact here: the code's floats are checked to 1e-8.           *)
(***************************************************************************)
EXTENDS Naturals, FiniteSets, Functions

CONSTANTS
    Coin,        \* the basket's currencies, 1..n in the order of the list
    BasisPoints, \* BASKET_WEIGHT_BASIS_POINTS
    Proposer,    \* processes that run the job
    MaxDay,      \* bound: instants
    MaxGdp, MaxTrade

ASSUME BasketWeightsAssumption ==
    /\ IsFiniteSet(Coin) /\ Coin = 1..Cardinality(Coin) /\ Coin # {}
    /\ BasisPoints \in Nat /\ MaxDay \in Nat \ {0} /\ MaxGdp \in Nat /\ MaxTrade \in Nat

VARIABLES
    gdp, trade,   \* what the World Bank and the burns say of each currency
    day,
    wpos,         \* the row each process creates next; 0: not running
    from,         \* effectiveFrom of its proposal
    proposed,     \* rows: [from, coin, weight, by]
    active,       \* the rows an administrator has activated
    collided      \* two processes proposed with the same effectiveFrom

weightVars == <<gdp, trade, day, wpos, from, proposed, active, collided>>

Total(f) == SumFunction(f)
OrOne(n) == IF n = 0 THEN 1 ELSE n

(* normalizeToScores of each, 40 : 30 : 30, over a common denominator; liquidity *)
(* is 1 for every currency.                                                      *)
proposedWeightRaw ==
    LET g == OrOne(Total(gdp))
        t == OrOne(Total(trade))
        n == Cardinality(Coin)
    IN [c \in Coin |-> 4 * gdp[c] * t * n + 3 * trade[c] * g * n + 3 * g * t]

(* Of weights w: the basis points of each, rounded down, and what is cut off. *)
floored(w)   == LET t == Total(w) IN [c \in Coin |-> (w[c] * BasisPoints) \div t]
fraction(w) == LET t == Total(w) IN [c \in Coin |-> (w[c] * BasisPoints) % t]

(* The stable sort by falling remainder: how many come before c. *)
Before(rest, c) ==
    Cardinality({d \in Coin : rest[d] > rest[c] \/ (rest[d] = rest[c] /\ d < c)})

(* Mutation: each weight is rounded by itself. *)
RoundsEach(w) == [c \in Coin |-> (2 * w[c] * BasisPoints + Total(w)) \div (2 * Total(w))]

roundWeightsToExactBasisPoints(w) ==
    LET base    == floored(w)
        rest    == fraction(w)
        missing == BasisPoints - Total(base)
    IN [c \in Coin |-> base[c] + IF Before(rest, c) < missing THEN 1 ELSE 0]

rounded == roundWeightsToExactBasisPoints(proposedWeightRaw)

BasketWeightsTypeOK ==
    /\ wpos \in [Proposer -> 0..Cardinality(Coin)] /\ from \in [Proposer -> 0..MaxDay]
    /\ active \subseteq proposed
    /\ \A r \in proposed : r.weight \in 0..BasisPoints /\ r.from <= day

BasketWeightsInit ==
    /\ gdp \in [Coin -> 0..MaxGdp] /\ trade \in [Coin -> 0..MaxTrade]
    /\ day = 1 /\ wpos = [j \in Proposer |-> 0] /\ from = [j \in Proposer |-> 0]
    /\ proposed = {} /\ active = {} /\ collided = FALSE

-----------------------------------------------------------------------------
InstantPasses ==
    /\ day < MaxDay /\ day' = day + 1
    /\ UNCHANGED <<gdp, trade, wpos, from, proposed, active, collided>>

(* A pass begins: the metrics are fetched and stored, effectiveFrom is now; a     *)
(* process runs no second pass before the month is over.                          *)
ingestMetricsAndProposeWeights(j) ==
    /\ wpos[j] = 0 /\ from[j] = 0
    /\ wpos' = [wpos EXCEPT ![j] = 1] /\ from' = [from EXCEPT ![j] = day]
    /\ collided' = (collided \/ \E k \in Proposer : from[k] = day)
    /\ UNCHANGED <<gdp, trade, day, proposed, active>>

(* basketConfig.create of the next currency. *)
CreateRow(j) ==
    /\ wpos[j] # 0
    /\ proposed' = proposed \cup
          {[from |-> from[j], coin |-> wpos[j], weight |-> rounded[wpos[j]], by |-> j]}
    /\ wpos' = [wpos EXCEPT ![j] = IF @ = Cardinality(Coin) THEN 0 ELSE @ + 1]
    /\ UNCHANGED <<gdp, trade, day, from, active, collided>>

(* An insert fails, or the process ends: the pass is over, its rows stay. *)
PassFails(j) ==
    /\ wpos[j] # 0 /\ wpos' = [wpos EXCEPT ![j] = 0]
    /\ UNCHANGED <<gdp, trade, day, from, proposed, active, collided>>

(* The rows of an instant that are there become active. *)
Approve(d) ==
    /\ \E r \in proposed \ active : r.from = d
    /\ active' = active \cup {r \in proposed : r.from = d}
    /\ UNCHANGED <<gdp, trade, day, wpos, from, proposed, collided>>

BasketWeightsNext ==
    \/ InstantPasses
    \/ \E j \in Proposer : ingestMetricsAndProposeWeights(j) \/ CreateRow(j) \/ PassFails(j)
    \/ \E d \in 1..MaxDay : Approve(d)

BasketWeightsSpec == BasketWeightsInit /\ [][BasketWeightsNext]_weightVars

-----------------------------------------------------------------------------
(* The active rows of the newest effectiveFrom. *)
currentRows == {r \in active : \A s \in active : s.from <= r.from}

(* Mutation: whatever is active is the basket. *)
AnySum(rows) == TRUE

(* getCurrentBasket throws unless they sum to 100.00 %. *)
sumBps(rows) == SumFunction([r \in rows |-> r.weight]) = BasisPoints

(* The proposed weights sum to exactly 100 %, none is off its share by a basis  *)
(* point or more, and none is below that of a currency with a smaller share;    *)
(* and a basket in use is the whole of one pass, but for currencies of weight   *)
(* zero, though rows are inserted one by one, passes fail half-way and rows may *)
(* be approved at any moment, unless two passes began at the same instant.      *)
WeightsSound ==
    /\ BasketWeightsTypeOK
    /\ proposed # {} =>
       LET w == proposedWeightRaw
           p == rounded
           f == floored(w)
       IN /\ Total(p) = BasisPoints
          /\ \A c \in Coin : p[c] \in {f[c], f[c] + 1}
          /\ \A c, d \in Coin : w[c] > w[d] => p[c] >= p[d]
          /\ active # {} /\ sumBps(currentRows) /\ ~collided =>
                \E j \in Proposer : \A c \in Coin : p[c] > 0 =>
                    \E r \in currentRows : r.coin = c /\ r.by = j /\ r.weight = p[c]
=============================================================================
