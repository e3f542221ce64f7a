------------------------------ MODULE Paging ------------------------------
(***************************************************************************)
(* Walking a list page by page while rows are added to it.  Transfers,     *)
(* transactions and investment withdrawals page from a signed cursor that  *)
(* is bound to the caller; salary lists page by offset.  All of them       *)
(* order by createdAt alone, newest first.  A row has its createdAt before *)
(* its transaction commits, so rows may turn up behind newer ones, and the *)
(* order of rows created in the same instant may differ from one query to  *)
(* the next.                                                               *)
(***************************************************************************)
EXTENDS Naturals, Sequences, FiniteSets

CONSTANTS
    Row,           \* ids, numbers in the order of insertion
    Account, Me,   \* the caller's accounts, and the one that walks the list
    NoRow,
    MaxPageLimit, DefaultLimit,
    SchedulesLimit, \* the default of salary schedules' own limit
    MaxInstant,    \* bound: the clock
    MaxGiven       \* bound: no page is asked for once more rows than this were returned

ASSUME PagingAssumption ==
    /\ Me \in Account /\ Row \subseteq Nat /\ IsFiniteSet(Row) /\ NoRow \notin Row
    /\ MaxPageLimit \in Nat \ {0} /\ DefaultLimit \in 1..MaxPageLimit
    /\ SchedulesLimit \in Nat /\ SchedulesLimit >= DefaultLimit
    /\ MaxInstant \in Nat /\ MaxGiven \in Nat

List == {"transfers", "transactions", "withdrawals", "batches", "schedules"}
ByOffset == {"batches", "schedules"}

(* The types of row in the table behind list l (one of those it shows and one of *)
(* those it does not), and the types it shows.                                   *)
InTable(l) == CASE l = "transfers"    -> {"transfer", "mint"}
                [] l = "transactions" -> {"mint", "accrual"}
                [] l = "withdrawals"  -> {"withdrawal"}
                [] l = "batches"      -> {"batch"}
                [] l = "schedules"    -> {"schedule"}
Types(l)   == CASE l = "transfers"    -> {"transfer"}
                [] l = "transactions" -> {"transfer", "mint"}
                [] OTHER              -> InTable(l)

VARIABLES
    instant,
    entry,      \* [at, owner, type, status, stamp]; at: "none", "open" (not committed), "there"
    walk,     \* [list, wanted, limit, take]: path, status filter, and limit, as answered and as used
    cursor,   \* next_cursor, [scope, id], id NoRow at the first page
    offset,
    over,     \* there is no next page
    refused,  \* a page was refused for its cursor
    \* what happened, for the properties
    given,    \* the rows returned so far
    start     \* the rows there were at the first page

pagingVars == <<instant, entry, walk, cursor, offset, over, refused, given, start>>

PagingTypeOK ==
    /\ instant \in 0..MaxInstant /\ offset \in Nat /\ over \in BOOLEAN
    /\ entry \in [Row -> [at : {"none", "open", "there"}, owner : Account, stamp : 0..MaxInstant,
                        type : UNION {InTable(l) : l \in List}, status : {"requested", "available"}]]
    /\ cursor \in [scope : Account, id : Row \cup {NoRow}]
    /\ given \in Seq(Row) /\ start \subseteq Row

(* parseOffsetPagination: an unusable limit is the default, a large one the ceiling. *)
parseOffsetPagination(n) ==
    IF n = 0 THEN DefaultLimit ELSE IF n > MaxPageLimit THEN MaxPageLimit ELSE n

(* Salary schedules answer with it, but take what was asked for as it stands. *)
SchedulesTake(n) == IF n = 0 THEN SchedulesLimit ELSE n

(* Limit and take of list l; the lists with cursors refuse a limit out of range. *)
Limits(l) ==
    CASE l = "batches"   -> {<<parseOffsetPagination(n), parseOffsetPagination(n)>> : n \in 0..MaxPageLimit + 1}
      [] l = "schedules" -> {<<parseOffsetPagination(n), SchedulesTake(n)>> : n \in 0..MaxPageLimit + 1}
      [] OTHER           -> {<<n, n>> : n \in 1..MaxPageLimit}

PagingInit ==
    /\ instant = 0 /\ offset = 0 /\ over = FALSE /\ refused = FALSE /\ given = <<>> /\ start = {}
    /\ entry = [r \in Row |-> [at |-> "none", owner |-> Me, type |-> "mint", status |-> "requested", stamp |-> 0]]
    /\ \E l \in List : \E w \in {"any"} \cup (IF l = "withdrawals" THEN {"requested"} ELSE {}), n \in Limits(l) :
          walk = [list |-> l, wanted |-> w, limit |-> n[1], take |-> n[2]]
    /\ cursor = [scope |-> Me, id |-> NoRow]

-----------------------------------------------------------------------------
InstantPasses ==
    /\ instant < MaxInstant /\ instant' = instant + 1
    /\ UNCHANGED <<entry, walk, cursor, offset, over, refused, given, start>>

(* createdAt defaults to the start of the transaction that inserts the row. *)
Insert(r) ==
    /\ entry[r].at = "none" /\ \A q \in Row : entry[q].at = "none" => r <= q
    /\ \E a \in Account, t \in InTable(walk.list) :
          entry' = [entry EXCEPT ![r] = [@ EXCEPT !.at = "open", !.owner = a, !.type = t, !.stamp = instant]]
    /\ UNCHANGED <<instant, walk, cursor, offset, over, refused, given, start>>

CommitRow(r) ==
    /\ entry[r].at = "open" /\ entry' = [entry EXCEPT ![r].at = "there"]
    /\ UNCHANGED <<instant, walk, cursor, offset, over, refused, given, start>>

(* The withdrawal job makes a request available. *)
StatusMoves(r) ==
    /\ entry[r].at = "there" /\ entry[r].type = "withdrawal" /\ entry[r].status = "requested"
    /\ entry' = [entry EXCEPT ![r].status = "available"]
    /\ UNCHANGED <<instant, walk, cursor, offset, over, refused, given, start>>

-----------------------------------------------------------------------------
Mine     == {r \in Row : entry[r].at = "there" /\ entry[r].owner = Me /\ entry[r].type \in Types(walk.list)}
Matching == {r \in Mine : walk.wanted \in {"any", entry[r].status}}

(* The orders the database may return rows S in: newest first. *)
Orders(S) ==
    {s \in [1..Cardinality(S) -> S] :
        \A i, j \in 1..Cardinality(S) : i < j => s[i] # s[j] /\ entry[s[i]].stamp >= entry[s[j]].stamp}

(* Mutation: the page starts with the cursor's row instead of behind it. *)
FromCursor(s, c) ==
    {IF c = NoRow THEN s ELSE SubSeq(s, i, Len(s)) : i \in {j \in DOMAIN s : c \in {s[j], NoRow}}}

(* cursor and skip 1: what follows row c.  When the filter leaves c itself out, *)
(* Prisma gives nothing, or the rows that are not newer.                        *)
AfterCursor(s, c) ==
    IF c = NoRow THEN {s}
    ELSE IF \E i \in DOMAIN s : s[i] = c
    THEN {SubSeq(s, i + 1, Len(s)) : i \in {j \in DOMAIN s : s[j] = c}}
    ELSE {<<>>} \cup {SubSeq(s, i, Len(s)) : i \in {j \in 1..Len(s) + 1 :
                          \A k \in DOMAIN s : entry[s[k]].stamp <= entry[c].stamp <=> k >= j}}

encodeCursor(r) == [scope |-> Me, id |-> r]

(* Mutation: a cursor of any account is taken. *)
AnyScope(t) == TRUE

(* decodeCursor: only a cursor that was made for the caller's scope. *)
decodeCursor(t) == t.scope = Me

(* The cursors the client may send: the one it was given, or one it holds of *)
(* another of its accounts.                                                  *)
Held == {cursor} \cup {[scope |-> entry[r].owner, id |-> r] : r \in {x \in Row : entry[x].at = "there" /\ entry[x].owner # Me}}

Return(page) ==
    /\ given' = given \o page
    /\ start' = IF given = <<>> /\ offset = 0 /\ cursor.id = NoRow THEN Mine ELSE start

(* take limit + 1: one row more tells whether there is a next page. *)
CursorPage(t) ==
    /\ ~over /\ Len(given) <= MaxGiven /\ decodeCursor(t)
    /\ \E s \in Orders(Matching) : \E rest \in AfterCursor(s, t.id) :
          LET hasMore == Len(rest) > walk.limit
              page    == IF hasMore THEN SubSeq(rest, 1, walk.limit) ELSE rest
          IN /\ Return(page) /\ over' = ~hasMore
             /\ cursor' = IF hasMore THEN encodeCursor(page[walk.limit]) ELSE cursor
    /\ UNCHANGED <<instant, entry, walk, offset, refused>>

(* 400 INVALID_CURSOR. *)
InvalidCursor(t) ==
    /\ walk.list \notin ByOffset /\ ~over /\ ~refused /\ ~decodeCursor(t) /\ refused' = TRUE
    /\ UNCHANGED <<instant, entry, walk, cursor, offset, over, given, start>>

getTransfers == walk.list = "transfers" /\ \E t \in Held : CursorPage(t)
listMyTransactions == walk.list = "transactions" /\ \E t \in Held : CursorPage(t)
getInvestmentWithdrawRequests == walk.list = "withdrawals" /\ \E t \in Held : CursorPage(t)

(* skip offset; the client adds the limit it was answered to the offset and goes *)
(* on until fewer rows than that come back.                                      *)
OffsetPage ==
    /\ ~over /\ Len(given) <= MaxGiven
    /\ \E s \in Orders(Matching) :
          LET last == IF offset + walk.take < Len(s) THEN offset + walk.take ELSE Len(s)
          IN Return(SubSeq(s, offset + 1, last)) /\ over' = (last < offset + walk.limit)
    /\ offset' = offset + walk.limit
    /\ UNCHANGED <<instant, entry, walk, cursor, refused>>

getSalaryBatches   == walk.list = "batches" /\ OffsetPage
getSalarySchedules == walk.list = "schedules" /\ OffsetPage

PagingNext ==
    \/ InstantPasses
    \/ \E r \in Row : Insert(r) \/ CommitRow(r) \/ StatusMoves(r)
    \/ getTransfers \/ listMyTransactions \/ getInvestmentWithdrawRequests \/ getSalaryBatches
    \/ getSalarySchedules
    \/ \E t \in Held : InvalidCursor(t)

PagingSpec == PagingInit /\ [][PagingNext]_pagingVars

-----------------------------------------------------------------------------
(* No other row was created in the same instant as r. *)
Alone(r) == \A q \in Row \ {r} : entry[q].at = "none" \/ entry[q].stamp # entry[r].stamp

(* Whatever rows are added during the walk, a list returns only the caller's     *)
(* rows, those behind a cursor never newer than what came before; a row that     *)
(* shares its instant with no other is returned at most once from cursors, and,  *)
(* unless a status is filtered for, one that was there at the first page has     *)
(* been returned when the walk is over, by offset too.                           *)
ListsSound ==
    /\ PagingTypeOK
    /\ \A i \in DOMAIN given : entry[given[i]].owner = Me /\ entry[given[i]].type \in Types(walk.list)
    /\ walk.list \notin ByOffset => \A i, j \in DOMAIN given : i < j =>
          /\ entry[given[i]].stamp >= entry[given[j]].stamp
          /\ given[i] = given[j] => ~Alone(given[i])
    /\ over /\ walk.wanted = "any" =>
          \A r \in start : Alone(r) => \E i \in DOMAIN given : given[i] = r
============================================================================
