----------------------------- MODULE ReadCaches -----------------------------
(***************************************************************************)
(* The read-through caches of a process, each in front of one slow source: *)
(* "limits" (config/limits.ts: overrides in the database over limits of    *)
(* the environment), "acbu" (acbuRateCache.ts: the newest AcbuRate row,    *)
(* which currencyConverter.ts converts deposits with) and "fx"             *)
(* (exchangeRateService.ts: a forex API).  Readers that miss share one     *)
(* load; they differ in what an error leaves in the cache and in when an   *)
(* entry's life begins.  The functions that invalidate them have no        *)
(* caller.                                                                 *)
(***************************************************************************)
EXTENDS Naturals, FiniteSets, FiniteSetsExt

CONSTANTS
    Reader,
    Ttl, NegTtl,   \* lives of an entry and of a cached failure
    Null, Bad,     \* "no rate", and an answer outside the sane bounds
    Slow,          \* the longest a load takes: a request timeout
    MaxChange, MaxMoment, MaxMisses  \* bounds: new versions, the clock, failed loads

ASSUME ReadCachesAssumption ==
    /\ Ttl \in Nat /\ NegTtl \in Nat /\ Slow \in Nat
    /\ Null \notin Nat /\ Bad \notin Nat /\ Null # Bad
    /\ MaxChange \in Nat \ {0} /\ MaxMoment \in Nat \ {0} /\ MaxMisses \in Nat

VARIABLES
    readOf,
    moment,          \* the clock, which is past 0
    current, ended,  \* the source's version, and when each earlier one was replaced
    usable,          \* the AcbuRate rows whose rates are all positive
    entry,           \* [val, until] of the cache; until = 0: nothing cached
    load,            \* the load under way: [at, val, since]
    waits,           \* the readers that wait for it, and since when
    phase,           \* of a deposit: before its limit check, before its mint, over
    misses,
    \* what happened, for the properties
    latest,          \* the newest version any reader was given
    loaded,          \* a load has succeeded
    notBefore,       \* no load should start earlier
    old, back, env, hammered, wrong

cacheVars == <<readOf, moment, current, ended, usable, entry, load, waits, phase, misses,
               latest, loaded, notBefore, old, back, env, hammered, wrong>>
sourceVars == <<readOf, current, ended, usable>>

Version == 0..MaxChange   \* of the limits, 0 is the environment's: no override loaded
Empty   == [val |-> 0, until |-> 0]
NoLoad  == [at |-> "off", val |-> 0, since |-> 0]
NotWaiting(r) == waits[r] = Null

ReadCachesTypeOK ==
    /\ moment \in 1..MaxMoment /\ current \in Version
    /\ entry.val \in Version \cup {Null} /\ load.val \in Version \cup {Null}
    /\ \A r \in Reader : ~NotWaiting(r) => load.at # "off" /\ waits[r] >= load.since
    /\ load.at # "off" => \E r \in Reader : ~NotWaiting(r)

ReadCachesInit ==
    /\ readOf \in {"limits", "acbu", "fx"} /\ moment = 1
    /\ current = 1 /\ ended = [v \in Version |-> 0] /\ usable \in SUBSET (Version \ {0})
    /\ readOf # "acbu" => usable = Version \ {0}
    /\ entry = Empty /\ load = NoLoad /\ waits = [r \in Reader |-> Null]
    /\ phase = [r \in Reader |-> "check"] /\ misses = 0
    /\ latest = 0 /\ loaded = FALSE /\ notBefore = 0
    /\ old = FALSE /\ back = FALSE /\ env = FALSE /\ hammered = FALSE /\ wrong = FALSE

(* A new row, new overrides, a new rate. *)
SourceChanges ==
    /\ current < MaxChange
    /\ ended' = [ended EXCEPT ![current] = moment] /\ current' = current + 1
    /\ UNCHANGED <<readOf, moment, usable, entry, load, waits, phase, misses,
                   latest, loaded, notBefore, old, back, env, hammered, wrong>>

TimeGoesOn ==
    /\ moment < MaxMoment /\ (load.at # "off" => moment < load.since + Slow)
    /\ moment' = moment + 1
    /\ UNCHANGED <<sourceVars, entry, load, waits, phase, misses,
                   latest, loaded, notBefore, old, back, env, hammered, wrong>>

-----------------------------------------------------------------------------
(* convertLocalToUsd: both rates of one row, which must be positive.  A deposit *)
(* converts for its limit check and, once its row exists, again for its mint.   *)
convertLocalToUsd(v) == v \in usable

(* The readers rs are given v, or an error (Null of "acbu"). *)
Given(rs, v) ==
    /\ phase' = [r \in Reader |->
          IF r \notin rs THEN phase[r]
          ELSE IF phase[r] = "check" /\ v \in Version /\ convertLocalToUsd(v) THEN "mint" ELSE "over"]
    /\ latest' = IF v \in Version THEN Max({latest, v}) ELSE latest
    /\ back' = (back \/ (v \in Version /\ v < latest))
    /\ old' = (old \/ (v \in Version \ {0} /\ v < current /\ moment > ended[v] + Ttl + Slow
                       /\ (readOf = "limits" => misses' = 0)))
    /\ env' = (env \/ (readOf = "limits" /\ v = 0 /\ loaded))
    /\ wrong' = (wrong \/ v = Bad)

Hit == entry.until > 0 /\ moment < entry.until

(* getLimitsSnapshot, getLatestAcbuRate, fetchExchangeRateUsd: an entry that lives, *)
(* or the load under way, or a new one.                                             *)
GetCached(r) ==
    /\ NotWaiting(r) /\ phase[r] # "over" /\ UNCHANGED misses
    /\ IF Hit
       THEN Given({r}, entry.val) /\ UNCHANGED <<load, waits, hammered>>
       ELSE /\ waits' = [waits EXCEPT ![r] = moment]
            /\ load' = IF load.at = "off" THEN [at |-> "asked", val |-> 0, since |-> moment] ELSE load
            /\ hammered' = (hammered \/ (load.at = "off" /\ moment < notBefore))
            /\ UNCHANGED <<phase, latest, back, old, env, wrong>>
    /\ UNCHANGED <<sourceVars, moment, entry, loaded, notBefore>>

(* Mutation: any number will do. *)
AnyRate(v) == TRUE

isReasonableExchangeRate(v) == v # Bad

(* The query or the call takes the source as it is now. *)
fetchFromExternalApi ==
    /\ load.at = "asked"
    /\ \E v \in {current} \cup (IF readOf = "fx" THEN {Bad} ELSE {}) :
          load' = [load EXCEPT !.at = "read", !.val = IF isReasonableExchangeRate(v) THEN v ELSE Null]
    /\ UNCHANGED <<sourceVars, moment, entry, waits, phase, misses,
                   latest, loaded, notBefore, old, back, env, hammered, wrong>>

(* The load ends for every reader that waits; the entry becomes e. *)
LoadEnds(v, e, next) ==
    /\ entry' = e /\ notBefore' = next
    /\ Given({r \in Reader : ~NotWaiting(r)}, v)
    /\ waits' = [r \in Reader |-> Null] /\ load' = NoLoad
    /\ UNCHANGED <<sourceVars, moment, hammered>>

(* cacheExpiresAt of the limits counts from before the wait, the last writer's. *)
LastAsked == Max({waits[r] : r \in {r \in Reader : ~NotWaiting(r)}})

LoadDone ==
    /\ load.at = "read" /\ UNCHANGED misses
    /\ LET life  == IF load.val = Null THEN NegTtl ELSE Ttl
           until == IF readOf = "limits" THEN LastAsked + Ttl ELSE moment + life
       IN LoadEnds(load.val, [val |-> load.val, until |-> until], until)
    /\ loaded' = TRUE

(* Mutation: an outage brings back the limits of the environment. *)
BackToEnv == 0

(* loadLimitsSnapshot's catch: the snapshot of before, if there is one. *)
cachedSnapshot == IF entry.until > 0 THEN entry.val ELSE 0

(* Mutation: a failure is not remembered. *)
ForgetsFailure == entry

(* setCachedExchangeRate(key, null, false). *)
NegativeEntry == [val |-> Null, until |-> moment + NegTtl]

(* The source fails: the limits live on for another Ttl, the forex API is left   *)
(* alone for a while unless the error was of our making (4xx), the ACBU rate is  *)
(* an error for all who wait.                                                    *)
LoadFails ==
    /\ load.at # "off" /\ misses < MaxMisses /\ misses' = misses + 1
    /\ \/ /\ readOf = "limits"
          /\ LoadEnds(cachedSnapshot, [val |-> cachedSnapshot, until |-> LastAsked + Ttl], LastAsked + Ttl)
       \/ readOf = "acbu" /\ LoadEnds(Null, entry, 0)
       \/ readOf = "fx" /\ LoadEnds(Null, NegativeEntry, moment + NegTtl)
       \/ readOf = "fx" /\ LoadEnds(Null, entry, 0)  \* not isRetryableRateApiError
    /\ UNCHANGED loaded

ReadCachesNext ==
    \/ SourceChanges \/ TimeGoesOn \/ fetchFromExternalApi \/ LoadDone \/ LoadFails
    \/ \E r \in Reader : GetCached(r)

ReadCachesSpec == ReadCachesInit /\ [][ReadCachesNext]_cacheVars

-----------------------------------------------------------------------------
(* What a cache serves was replaced at most a life and a load ago (the limits:  *)
(* while no load failed), though the life of the limits begins with whoever     *)
(* joined last; and no reader of the process is served an older version than    *)
(* one before it, so that a deposit is never minted at older rates than it was  *)
(* checked with.                                                                *)
ServedFresh == ReadCachesTypeOK /\ ~old /\ ~back

(* An outage of the source brings neither the environment's limits back, nor a  *)
(* rate outside the bounds, nor a load for each request: of the limits, and of  *)
(* the forex API while its errors are worth a retry.  A failed query of the     *)
(* ACBU rate and a 4xx of the forex API leave nothing in the cache, so there    *)
(* every request that misses begins another load, and this does not say no.     *)
OutageContained == ~env /\ ~wrong /\ ~hammered
=============================================================================
