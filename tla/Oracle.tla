------------------------------- MODULE Oracle -------------------------------
(***************************************************************************)
(* services/oracle/integrationService.ts, run by jobs/oracleUpdateJob.ts:  *)
(* the rate of one currency is made from up to four sources, compared with *)
(* the row before it, replaced by an average when it moved too far, stored *)
(* with a review flag, written to the contract and turned into an AcbuRate *)
(* row.  The four layers have equal weights, so what they answered is a    *)
(* non-decreasing sequence; a source that does not answer is not in it,    *)
(* and of the sources a central bank and the fintech partner may answer    *)
(* zero.  That a feed answers a negative number, or none that parses, is   *)
(* left out.  Rates are integers in units of Unit per quote, and averages  *)
(* are rounded down.                                                       *)
(***************************************************************************)
EXTENDS Integers, Sequences, FiniteSets, Functions

CONSTANTS
    Updater,           \* runs of the job
    Quote,             \* what a source may answer
    Unit,              \* parts a quote is divided in
    OutlierPct,        \* OUTLIER_DEVIATION
    ReviewPct,         \* maxDeviationPerUpdate
    BreakerPct,        \* circuitBreakerThreshold
    MaxRates           \* bound: rows of the currency

ASSUME OracleAssumption ==
    /\ Unit \in Nat \ {0} /\ Unit % 12 = 0 /\ Quote \subseteq Nat \ {0}
    /\ MaxRates \in Nat
    /\ OutlierPct \in Nat /\ ReviewPct \in Nat /\ BreakerPct \in Nat /\ ReviewPct <= BreakerPct

VARIABLES
    rates,       \* OracleRate rows of the currency, oldest first
    opc, composite, review,            \* of each run
    acbuRate,    \* the row the last AcbuRate row was made from, 0 for none
    swayed,      \* a minority of the answers moved a composite
    together     \* two runs were under way at once

oracleVars == <<rates, opc, composite, review, acbuRate, swayed, together>>

-----------------------------------------------------------------------------
(* median, in units; the sequence is sorted. *)
median(s) ==
    LET h == Len(s) \div 2 IN
    IF s = << >> THEN 0
    ELSE IF Len(s) % 2 = 1 THEN s[h + 1] * Unit ELSE ((s[h] + s[h + 1]) * Unit) \div 2

Within(a, b, pct) == 100 * (IF a > b THEN a - b ELSE b - a) <= pct * b

(* Mutation: the threshold is measured from the lowest answer. *)
NearLowest(s) == {i \in DOMAIN s : Within(s[i] * Unit, s[1] * Unit, OutlierPct)}

(* The places of the answers that stay. *)
excludeOutliers(s) == {i \in DOMAIN s : Within(s[i] * Unit, median(s), OutlierPct)}

(* The layers at these places, those that answered, share the weight. *)
compositeRate(s, places) ==
    IF places = {} THEN 0 ELSE (SumFunctionOnSet(s, places) * Unit) \div Cardinality(places)

(* Outliers go only if something is left; a zero is an answer for the composite   *)
(* of all and none for the outliers, so it goes with the first outlier.  Zeros    *)
(* are ahead of what is positive.                                                 *)
Composite(s) ==
    LET positive == SubSeq(s, Cardinality({i \in DOMAIN s : s[i] = 0}) + 1, Len(s))
        inliers  == excludeOutliers(positive) IN
    IF Cardinality(inliers) < Len(positive) /\ inliers # {} THEN compositeRate(positive, inliers)
    ELSE compositeRate(s, DOMAIN s)

(* Mutation: only a move that trips the breaker is flagged. *)
FlagsTrips(before, now) == before > 0 /\ ~Within(now, before, BreakerPct)

assessRateDeviation(before, now) == before > 0 /\ ~Within(now, before, ReviewPct)

(* Where most of the answers are within the threshold of each other, the rate is *)
(* as close to them, whatever the others are.  (A zero is outside of this: it is *)
(* averaged in.)                                                                 *)
FollowsMost(s, rate) ==
    s # << >> /\ s[1] > 0 =>
        \A i, j \in 1 .. Len(s) :
            (i <= j /\ 2 * (j - i + 1) > Len(s) /\ Within(s[j], s[i], OutlierPct)) =>
                /\ 100 * rate >= (100 - OutlierPct) * s[i] * Unit
                /\ 100 * rate <= (100 + OutlierPct) * s[j] * Unit

Tripped(before, now) == before > 0 /\ ~Within(now, before, BreakerPct)

Latest == IF rates = << >> THEN 0 ELSE rates[Len(rates)].rate

getAverageRateOverHours == SumFunction([i \in DOMAIN rates |-> rates[i].rate]) \div Len(rates)

-----------------------------------------------------------------------------
Answers ==
    {s \in UNION {[1 .. n -> Quote \cup {0}] : n \in 0 .. 4} :
        /\ \A i \in 1 .. Len(s) - 1 : s[i] <= s[i + 1]
        /\ Len(s) > 2 => s[3] > 0}

(* What the sources may make of it, with one that answers more than zero. *)
Fetched ==
    {[rate |-> Composite(s), follows |-> FollowsMost(s, Composite(s))] :
        s \in {a \in Answers : \E i \in 1 .. Len(a) : a[i] > 0}}

OracleTypeOK ==
    /\ \A i \in 1 .. Len(rates) : rates[i].rate \in Nat /\ rates[i].review \in BOOLEAN
    /\ Len(rates) <= MaxRates
    /\ opc \in [Updater -> {"idle", "assessed", "tripped", "stored"}]
    /\ composite \in [Updater -> Nat] /\ review \in [Updater -> BOOLEAN]
    /\ acbuRate \in 0 .. Len(rates) /\ swayed \in BOOLEAN /\ together \in BOOLEAN

OracleInit ==
    /\ rates = << >> /\ opc = [u \in Updater |-> "idle"]
    /\ composite = [u \in Updater |-> 0] /\ review = [u \in Updater |-> FALSE]
    /\ acbuRate = 0 /\ swayed = FALSE /\ together = FALSE

(* The sources are asked, the composite made and compared with the last row.  The *)
(* job lock may have failed open or run out, so another run may be under way.     *)
FetchRates(u) ==
    /\ opc[u] = "idle" /\ Len(rates) < MaxRates
    /\ \E f \in Fetched :
          /\ composite' = [composite EXCEPT ![u] = f.rate]
          /\ review' = [review EXCEPT ![u] = assessRateDeviation(Latest, f.rate)]
          /\ opc' = [opc EXCEPT ![u] = IF Tripped(Latest, f.rate) THEN "tripped" ELSE "assessed"]
          /\ swayed' = (swayed \/ ~f.follows)
    /\ together' = (together \/ \E v \in Updater \ {u} : opc[v] # "idle")
    /\ UNCHANGED <<rates, acbuRate>>

(* The circuit breaker stores the average of the last 48 hours, if there is one. *)
SmoothRate(u) ==
    /\ opc[u] = "tripped"
    /\ \/ composite' = [composite EXCEPT ![u] = getAverageRateOverHours]
       \/ UNCHANGED composite
    /\ opc' = [opc EXCEPT ![u] = "assessed"]
    /\ UNCHANGED <<rates, review, acbuRate, swayed, together>>

(* oracleRate.create, or an error that ends the work on the currency. *)
StoreRate(u) ==
    /\ opc[u] = "assessed" /\ Len(rates) < MaxRates
    /\ rates' \in {rates, Append(rates, [rate |-> composite[u], review |-> review[u]])}
    /\ opc' = [opc EXCEPT ![u] = "stored"]
    /\ composite' = [composite EXCEPT ![u] = 0] /\ review' = [review EXCEPT ![u] = FALSE]
    /\ UNCHANGED <<acbuRate, swayed, together>>

(* The contract is told, which may fail, and the AcbuRate row is made from the *)
(* newest rows, whichever run wrote them.                                      *)
computeSyntheticBasketOneAcbuForBasket(u) ==
    /\ opc[u] = "stored" /\ opc' = [opc EXCEPT ![u] = "idle"]
    /\ acbuRate' = IF Latest > 0 THEN Len(rates) ELSE acbuRate
    /\ UNCHANGED <<rates, composite, review, swayed, together>>

OracleNext ==
    \E u \in Updater :
        \/ FetchRates(u) \/ SmoothRate(u) \/ StoreRate(u)
        \/ computeSyntheticBasketOneAcbuForBasket(u)

OracleSpec == OracleInit /\ [][OracleNext]_oracleVars

-----------------------------------------------------------------------------
(* A minority of the sources, however wrong, cannot move the rate: where most of   *)
(* them agree within the outlier threshold, the composite stays as close to them   *)
(* (a source that answers zero is outside of this: it is averaged in).  And a      *)
(* stored rate that moved more than the limit from the row before it carries the   *)
(* review flag, smoothed or not, as long as no two runs were under way at once.    *)
RatesSound ==
    /\ OracleTypeOK
    /\ ~swayed
    /\ ~together => \A i \in 2 .. Len(rates) :
          Within(rates[i].rate, rates[i - 1].rate, ReviewPct) \/ rates[i].review
=============================================================================
