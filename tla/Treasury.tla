------------------------------ MODULE Treasury ------------------------------
(***************************************************************************)
(* The treasury view of a government (governmentController.ts): the mints  *)
(* and burns of a user or of an organisation and the reserves of both      *)
(* segments, read by queries that run side by side, added up by currency   *)
(* and kept in a cache of the process by who asked.  Unlike the caches of  *)
(* ReadCaches, readers that miss each load for themselves, and the last to *)
(* end is what is kept.                                                    *)
(***************************************************************************)
EXTENDS ReadCaches, Integers, Sequences, Functions

CONSTANTS
    Official,      \* the users of the one organisation
    LedgerRow,     \* transactions: [user, ours, type, currency], user or currency maybe Null;
                   \*   ours: rateSnapshot names the organisation
    Reserve,       \* what has a reserve: [coin, segment]
    Coins,         \* currencies, numbered in the order of their codes
    Preferred,     \* those of the basket in use, in its order
    Take,          \* most rows that a query returns
    Life, MaxLife, \* the default and the longest life of an entry
    Slowest,       \* the longest a load takes
    MaxClockwork, MaxFacts, MaxViews  \* bounds: the clock, changes of the database, loads

ASSUME TreasuryAssumption ==
    /\ Life \in Nat /\ MaxLife \in Nat /\ Life <= MaxLife /\ Slowest \in Nat /\ Take \in Nat
    /\ Reserve \subseteq [coin : Coins, segment : {"transactions", "investmentSavings"}]
    /\ LedgerRow \subseteq [user : Official \cup {Null}, ours : BOOLEAN, type : {"mint", "burn"},
                           currency : Coins \cup {Null}]
    /\ IsFiniteSet(LedgerRow) /\ IsFiniteSet(Reserve) /\ Coins \subseteq Nat
    /\ Preferred \in Seq(Coins) /\ Null \notin Official \cup LedgerRow \cup Reserve
    /\ MaxClockwork \in Nat /\ MaxFacts \in Nat /\ MaxViews \in Nat

VARIABLES
    ticks,
    life,      \* getTreasuryCacheTtlMs, of the environment
    holds,     \* the facts that hold: rows that count, reserves that are not zero
    turned,    \* when each fact last began or ceased to hold
    kept,      \* treasuryCache: actor -> [rows, reserves, until]
    view,      \* the request of each reader: [actor, key, rows, reserves, since]
    facts, views,
    aged, amiss  \* what happened, for the property

treasuryVars == <<ticks, life, holds, turned, kept, view, facts, views, aged, amiss>>

Segment == {"transactions", "investmentSavings"}
Fact    == LedgerRow \cup Reserve
Office  == "office"
Actor   == Official \cup {Office}
Unread  == {Null}
NotKept == [rows |-> {}, reserves |-> {}, until |-> 0]
NoView  == [actor |-> Null, key |-> Null, rows |-> Unread, reserves |-> Unread, since |-> 0]

(* Math.min(Math.max(0, raw), 300000); unset, negative or no number: the default. *)
getTreasuryCacheTtlMs(raw) == IF raw = Null THEN Life ELSE Min({raw, MaxLife})

TreasuryInit ==
    /\ ticks = 0 /\ \E raw \in {Null, 0, MaxLife + 1} : life = getTreasuryCacheTtlMs(raw)
    /\ holds \in SUBSET Fact /\ turned = [f \in Fact |-> 0]
    /\ kept = [a \in Actor |-> NotKept] /\ view = [r \in Reader |-> NoView]
    /\ facts = 0 /\ views = 0 /\ aged = FALSE /\ amiss = FALSE

(* A transaction begins to count or fails, a reserve is stored anew. *)
FactTurns(f) ==
    /\ facts < MaxFacts /\ facts' = facts + 1
    /\ holds' = IF f \in holds THEN holds \ {f} ELSE holds \cup {f}
    /\ turned' = [turned EXCEPT ![f] = ticks]
    /\ UNCHANGED <<ticks, life, kept, view, views, aged, amiss>>

ClockTicks ==
    /\ ticks < MaxClockwork /\ ticks' = ticks + 1
    /\ \A r \in Reader : view[r] # NoView => ticks < view[r].since + Slowest
    /\ UNCHANGED <<life, holds, turned, kept, view, facts, views, aged, amiss>>

-----------------------------------------------------------------------------
(* transactionWhere: the rows of the user, or of the organisation's users and those *)
(* that name it.                                                                    *)
Concerns(row, a) == IF a = Office THEN row.user \in Official \/ row.ours ELSE row.user = a

Signed(row) == IF row.type = "mint" THEN 1 ELSE -1   \* every amount is one

(* Mutation: only the currencies of the basket are listed. *)
OfBasket(rows, reserves) == {Preferred[i] : i \in DOMAIN Preferred}

currencyUniverse(rows, reserves) ==
    {Preferred[i] : i \in DOMAIN Preferred} \cup ({row.currency : row \in rows} \ {Null})
        \cup {c.coin : c \in reserves}

(* Where a currency is in the list: the basket's by their first place in it, then *)
(* the others in the order of their codes.                                        *)
Turn(preferred, c) ==
    LET places == {i \in DOMAIN preferred : preferred[i] = c}
    IN IF places # {} THEN Min(places) ELSE Len(preferred) + 1 + c

getOrderedCurrencies(preferred, currencies) ==
    [i \in 1..Cardinality(currencies) |-> CHOOSE c \in currencies :
        Cardinality({d \in currencies : Turn(preferred, d) < Turn(preferred, c)}) = i - 1]

Value(reserves, c, s) == IF [coin |-> c, segment |-> s] \in reserves THEN 1 ELSE 0

Net(rows) == SumFunction([row \in rows |-> Signed(row)])

byCurrency(rows, reserves) ==
    LET order == getOrderedCurrencies(Preferred, currencyUniverse(rows, reserves))
    IN [i \in DOMAIN order |->
          [currency |-> order[i],
           netAcbu  |-> Net({row \in rows : row.currency = order[i]}),
           value    |-> [s \in Segment |-> Value(reserves, order[i], s)]]]

response(rows, reserves) ==
    LET table == byCurrency(rows, reserves)
    IN [totalBalanceAcbu |-> Net(rows), byCurrency |-> table,
        segments |-> [s \in Segment |-> SumFunction([i \in DOMAIN table |-> table[i].value[s]])],
        totalReserveExposureUsd |-> SumFunction([i \in DOMAIN table |->
            table[i].value["transactions"] + table[i].value["investmentSavings"]])]

(* What the response must say of what was read: it is the actor's, every reserve is *)
(* in the exposure once, and the balance is that of the currencies and of the rows  *)
(* without one.                                                                     *)
AddsUp(a, rows, reserves) ==
    LET t == response(rows, reserves)
        table == t.byCurrency
    IN /\ \A row \in rows : Concerns(row, a)
       /\ t.totalReserveExposureUsd = Cardinality(reserves)
       /\ t.totalReserveExposureUsd = t.segments["transactions"] + t.segments["investmentSavings"]
       /\ t.totalBalanceAcbu = SumFunction([i \in DOMAIN table |-> table[i].netAcbu])
                               + Net({row \in rows : row.currency = Null})

(* The facts that concern a and are said otherwise than they are; of the rows, those *)
(* left out too unless the query returned as many as it may.                         *)
Outdated(a, rows, reserves) ==
    {c \in Reserve : (c \in reserves) # (c \in holds)} \cup (rows \ holds)
    \cup {row \in LedgerRow \cap holds : Concerns(row, a) /\ row \notin rows /\ Cardinality(rows) < Take}

Told(a, rows, reserves) ==
    /\ aged' = (aged \/ \E f \in Outdated(a, rows, reserves) : ticks > turned[f] + life + Slowest)
    /\ amiss' = (amiss \/ ~AddsUp(a, rows, reserves))

-----------------------------------------------------------------------------
(* Mutation: those of an organisation share an entry. *)
OneForAll(user, org) == IF org # Null THEN Office ELSE user

(* getActorContext: the user, if the key has one, or else the organisation. *)
cacheKey(user, org) == IF user # Null THEN user ELSE org

Live(a) == kept[a].until > ticks

(* The actor is who asks; the entry is found by its key.  A key without a user and *)
(* an organisation is refused before anything else happens.                        *)
getGovernmentTreasury(r) ==
    /\ view[r] = NoView
    /\ \E user \in Official \cup {Null}, org \in {Office, Null} :
          /\ user # Null \/ org # Null
          /\ LET a   == IF user # Null THEN user ELSE org
                 key == cacheKey(user, org)
             IN IF Live(key)
                THEN Told(a, kept[key].rows, kept[key].reserves) /\ UNCHANGED <<view, views>>
                ELSE /\ views < MaxViews /\ views' = views + 1
                     /\ view' = [view EXCEPT ![r] =
                                   [NoView EXCEPT !.actor = a, !.key = key, !.since = ticks]]
                     /\ UNCHANGED <<aged, amiss>>
    /\ UNCHANGED <<ticks, life, holds, turned, kept, facts>>

(* transaction.findMany: at most Take of the rows that count, in no order. *)
FindTransactions(r) ==
    /\ view[r] # NoView /\ view[r].rows = Unread
    /\ LET found == {row \in LedgerRow \cap holds : Concerns(row, view[r].actor)}
       IN \E rows \in kSubset(Min({Take, Cardinality(found)}), found) :
             view' = [view EXCEPT ![r].rows = rows]
    /\ UNCHANGED <<ticks, life, holds, turned, kept, facts, views, aged, amiss>>

(* reserve.findMany, beside it: the newest row of each currency and segment. *)
FindReserves(r) ==
    /\ view[r] # NoView /\ view[r].reserves = Unread
    /\ view' = [view EXCEPT ![r].reserves = Reserve \cap holds]
    /\ UNCHANGED <<ticks, life, holds, turned, kept, facts, views, aged, amiss>>

(* All queries answered: the response is kept, over any that a faster reader of *)
(* later figures has kept, and given.                                           *)
TreasuryDone(r) ==
    /\ view[r] # NoView /\ Unread \notin {view[r].rows, view[r].reserves}
    /\ kept' = [kept EXCEPT ![view[r].key] =
                  [rows |-> view[r].rows, reserves |-> view[r].reserves, until |-> ticks + life]]
    /\ Told(view[r].actor, view[r].rows, view[r].reserves)
    /\ view' = [view EXCEPT ![r] = NoView]
    /\ UNCHANGED <<ticks, life, holds, turned, facts, views>>

(* A query fails, or the weights of the basket are no whole: next(e). *)
TreasuryFails(r) ==
    /\ view[r] # NoView /\ view' = [view EXCEPT ![r] = NoView]
    /\ UNCHANGED <<ticks, life, holds, turned, kept, facts, views, aged, amiss>>

(* treasuryCacheEvictionTimer, whenever its interval has it. *)
EvictExpired ==
    /\ \E a \in Actor : kept[a] # NotKept /\ ~Live(a)
    /\ kept' = [a \in Actor |-> IF Live(a) THEN kept[a] ELSE NotKept]
    /\ UNCHANGED <<ticks, life, holds, turned, view, facts, views, aged, amiss>>

TreasuryNext ==
    \/ ClockTicks \/ EvictExpired
    \/ \E f \in Fact : FactTurns(f)
    \/ \E r \in Reader :
          \/ getGovernmentTreasury(r) \/ FindTransactions(r) \/ FindReserves(r)
          \/ TreasuryDone(r) \/ TreasuryFails(r)

TreasurySpec == TreasuryInit /\ [][TreasuryNext]_treasuryVars

-----------------------------------------------------------------------------
(* Whoever asks for the treasury is told of its own rows and of every reserve,  *)
(* in figures that add up, and of nothing that ceased to be so longer ago than  *)
(* the life of an entry and a load, though slower readers overwrite faster ones *)
(* and the queries of one response see different states.                        *)
TreasurySound ==
    /\ \A r \in Reader : view[r] # NoView => view[r].actor \in Actor /\ view[r].since <= ticks
    /\ ~aged /\ ~amiss

(* What the caches of a process serve is fresh, an outage of a source is        *)
(* contained, and the treasury's is its reader's own.                           *)
CachesSound == ServedFresh /\ OutageContained /\ TreasurySound
=============================================================================
