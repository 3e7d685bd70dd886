------------------------------- MODULE AuditLog -------------------------------
(****************************************************************************)
(* The audit store and GET /v1/audit/events.                                *)
(*                                                                          *)
(* In audit.MemoryStore, Append draws an id and a timestamp before it takes *)
(* the lock, so records may be stored in another order than they are dated. *)
(* In postgres.AuditStore the id is the nanosecond of the call, the INSERT  *)
(* overwrites on conflict, and rows are ordered by a column of microseconds *)
(* alone: rows that tie may come in any order, another one in every query.  *)
(*                                                                          *)
(* The handler answers a page in two List calls: one for the page, one to   *)
(* see whether anything lies beyond it; and a reader who follows has_more   *)
(* makes further requests.  Records are appended in between.                *)
(*                                                                          *)
(* A rejected query parameter or a cancelled Append ends a call before it   *)
(* does anything, and is not a step here.                                   *)
(****************************************************************************)
EXTENDS Integers, Sequences, FiniteSets

CONSTANTS
    Writers,      \* goroutines in Append
    Readers,      \* clients paging through the audit events
    Fields,       \* record fields a query may filter by: tenant_id, agent_id, ...
    Values,       \* their values
    AnyValue,     \* a filter that leaves a field open
    Limits,       \* limit parameters of queries
    Offsets,      \* offset parameters of first queries
    DefaultLimit, \* 100
    MaxLimit,     \* 1000
    MaxInt,       \* largest int of the machine
    MaxRecords,   \* bound: records begun in a behaviour
    MaxTime       \* bound: clock readings

ASSUME NumberAssumption ==
    /\ DefaultLimit \in 1..MaxLimit /\ MaxLimit \in 1..MaxInt /\ MaxInt \in Nat
    /\ Limits \subseteq 0..MaxInt /\ Offsets \subseteq 0..MaxInt
    /\ MaxRecords \in Nat /\ MaxTime \in Nat
ASSUME AnyAssumption == AnyValue \notin Values

VARIABLES
    store,     \* "memory"; "postgres"; or "coarse", PostgreSQL under a clock of which
               \* two readings may be the same nanosecond.  Never changes
    clock,     \* the clock, in the units rows are ordered by
    counter,   \* MemoryStore.counter, or the last nanosecond an id was drawn from
    records,   \* MemoryStore.records, or the rows in the order of their first insert
    writer,    \* per writer: the record waiting for the lock, if any
    reader     \* per reader: its current request and what it has collected

vars == <<store, clock, counter, records, writer, reader>>

--------------------------------------------------------------------------------

Stores  == {"memory", "postgres", "coarse"}
Record  == [id : 1..MaxRecords, at : 0..MaxTime, event : [Fields -> Values]]
NoRecord == [id |-> 0]

Filter  == [Fields -> Values \cup {AnyValue}]
Options == [filter : Filter, limit : 0..MaxInt, offset : -(MaxInt + 1)..MaxInt]

\* Records are named by their place in the slice, which never changes.
Places == 1..MaxRecords

Reader ==
    [pc : {"idle", "list", "peek", "answered"}, opts : Options, page : SUBSET Places,
     hasMore : BOOLEAN, owed : SUBSET Places, got : SUBSET Places]

Idle == [pc |-> "idle", opts |-> [filter |-> [f \in Fields |-> AnyValue], limit |-> 0, offset |-> 0],
         page |-> {}, hasMore |-> FALSE, owed |-> {}, got |-> {}]

\* int addition wraps around.
Plus(a, b) == IF a + b > MaxInt THEN a + b - 2 * (MaxInt + 1) ELSE a + b

Normalize(opts) ==
    [opts EXCEPT !.limit  = IF @ <= 0 THEN DefaultLimit ELSE IF @ > MaxLimit THEN MaxLimit ELSE @,
                 !.offset = IF @ < 0 THEN 0 ELSE @]

RecordMatches(record, filter) ==
    \A f \in Fields : filter[f] # AnyValue => record.event[f] = filter[f]

Matching(filter) == {i \in DOMAIN records : RecordMatches(records[i], filter)}

\* sort.SliceStable by RecordedAt, newest first: i is listed before j.
ListedBefore(i, j) ==
    \/ records[i].at > records[j].at
    \/ records[i].at = records[j].at /\ i < j

\* How many matching records are listed before i.
Position(i, filter) == Cardinality({j \in Matching(filter) : ListedBefore(j, i)})

\* MemoryStore.List: the page it returns.
Listed(options) ==
    LET opts == Normalize(options)
    IN  {i \in Matching(opts.filter) :
            Position(i, opts.filter) \in opts.offset..(opts.offset + opts.limit - 1)}

DatedAt(places, at) == {i \in places : records[i].at = at}

\* The pages List may return: ORDER BY recorded_at DESC leaves open which of the rows
\* that tie are on the page, not how many of them.
Pages(options) ==
    IF store = "memory" THEN {Listed(options)}
    ELSE {page \in SUBSET Matching(options.filter) :
             \A at \in 0..clock :
                Cardinality(DatedAt(page, at)) = Cardinality(DatedAt(Listed(options), at))}

\* Mutant: one record too far is looked for.
BeyondByOne(opts) ==
    [opts EXCEPT !.limit = 1, !.offset = Plus(Plus(opts.offset, opts.limit), 1)]

\* Mutant: the last record of the page is taken for the first beyond it.
BeyondTooNear(opts) ==
    [opts EXCEPT !.limit = 1, !.offset = Plus(opts.offset, opts.limit - 1)]

\* nextPageOpts.
Beyond(opts) == [opts EXCEPT !.limit = 1, !.offset = Plus(opts.offset, opts.limit)]

--------------------------------------------------------------------------------

Init ==
    /\ store \in Stores
    /\ clock = 0
    /\ counter = 0
    /\ records = <<>>
    /\ writer = [w \in Writers |-> NoRecord]
    /\ reader = [r \in Readers |-> Idle]

Tick ==
    /\ clock < MaxTime
    /\ clock' = clock + 1
    /\ UNCHANGED <<store, counter, records, writer, reader>>

\* Mutant: the counter is read but not advanced.
BeginAppendWithSharedId(w, event) ==
    /\ writer[w] = NoRecord
    /\ counter < MaxRecords
    /\ writer' = [writer EXCEPT ![w] = [id |-> counter + 1, at |-> clock, event |-> event]]
    /\ UNCHANGED <<store, clock, counter, records, reader>>

\* Append, before the lock or the statement: the counter gives a number of its own,
\* the clock one that is new unless it is coarse.
BeginAppend(w, event) ==
    /\ writer[w] = NoRecord
    /\ counter < MaxRecords
    /\ \/ counter' = counter + 1
       \/ store = "coarse" /\ counter > 0 /\ counter' = counter
    /\ writer' = [writer EXCEPT ![w] = [id |-> counter', at |-> clock, event |-> event]]
    /\ UNCHANGED <<store, clock, records, reader>>

\* Mutant: rows conflict when they bear the same date.
StoreByDate(record) ==
    LET clash == {i \in DOMAIN records : records[i].at = record.at}
    IN  records' = IF store = "memory" \/ clash = {} THEN Append(records, record)
                   ELSE [i \in DOMAIN records |-> IF i \in clash THEN record ELSE records[i]]

\* The assignment under the lock, or the INSERT .. ON CONFLICT (id) DO UPDATE.
Store(record) ==
    LET clash == {i \in DOMAIN records : records[i].id = record.id}
    IN  records' = IF store = "memory" \/ clash = {} THEN Append(records, record)
                   ELSE [i \in DOMAIN records |-> IF i \in clash THEN record ELSE records[i]]

StoreRecord(w) ==
    /\ writer[w] # NoRecord
    /\ Store(writer[w])
    /\ writer' = [writer EXCEPT ![w] = NoRecord]
    /\ UNCHANGED <<store, clock, counter, reader>>

\* The statement fails, and may have been committed all the same.
AppendFails(w) ==
    /\ store # "memory" /\ writer[w] # NoRecord
    /\ Store(writer[w]) \/ UNCHANGED records
    /\ writer' = [writer EXCEPT ![w] = NoRecord]
    /\ UNCHANGED <<store, clock, counter, reader>>

\* A request with accepted parameters; what it owes is what matches now, provided the
\* reader starts at the beginning.
Ask(r, filter, limit, offset) ==
    /\ reader[r].pc = "idle"
    /\ reader' = [reader EXCEPT ![r] =
          [Idle EXCEPT !.pc = "list",
                       !.opts = Normalize([filter |-> filter, limit |-> limit,
                                           offset |-> offset]),
                       !.owed = IF offset = 0 THEN Matching(filter) ELSE {}]]
    /\ UNCHANGED <<store, clock, counter, records, writer>>

\* listAuditEvents, the first List.
ListPage(r) ==
    /\ reader[r].pc = "list"
    /\ \E page \in Pages(reader[r].opts) :
          reader' = [reader EXCEPT ![r].pc = "peek", ![r].page = page]
    /\ UNCHANGED <<store, clock, counter, records, writer>>

\* A List fails, because the database does or the client has hung up.
ListFails(r) ==
    /\ reader[r].pc \in {"list", "peek"}
    /\ reader' = [reader EXCEPT ![r] = Idle]
    /\ UNCHANGED <<store, clock, counter, records, writer>>

\* listAuditEvents, the second List and the answer.
PeekBeyond(r) ==
    /\ reader[r].pc = "peek"
    /\ reader' = [reader EXCEPT ![r].pc = "answered",
                                ![r].hasMore = Listed(Beyond(reader[r].opts)) # {},
                                ![r].got = @ \cup reader[r].page]
    /\ UNCHANGED <<store, clock, counter, records, writer>>

\* The reader asks for the page after the one it has, with the same filter and limit.
NextPage(r) ==
    /\ reader[r].pc = "answered" /\ reader[r].hasMore
    /\ reader[r].opts.offset + reader[r].opts.limit <= MaxInt
    /\ reader' = [reader EXCEPT ![r].pc = "list", ![r].opts.offset = @ + reader[r].opts.limit]
    /\ UNCHANGED <<store, clock, counter, records, writer>>

Finish(r) ==
    /\ reader[r].pc = "answered"
    /\ reader' = [reader EXCEPT ![r] = Idle]
    /\ UNCHANGED <<store, clock, counter, records, writer>>

Next ==
    \/ Tick
    \/ \E w \in Writers :
          StoreRecord(w) \/ AppendFails(w) \/ \E event \in [Fields -> Values] : BeginAppend(w, event)
    \/ \E r \in Readers :
          \/ \E filter \in Filter, limit \in Limits, offset \in Offsets :
                Ask(r, filter, limit, offset)
          \/ ListPage(r) \/ PeekBeyond(r) \/ ListFails(r) \/ NextPage(r) \/ Finish(r)

Spec == Init /\ [][Next]_vars

--------------------------------------------------------------------------------

\* Every variable keeps its type; no more is stored than was begun.
TypeOK ==
    /\ store \in Stores
    /\ clock \in 0..MaxTime /\ counter \in 0..MaxRecords
    /\ records \in Seq(Record) /\ Len(records) <= counter
    /\ writer \in [Writers -> Record \cup {NoRecord}]
    /\ reader \in [Readers -> Reader]

\* A reader who starts at offset 0 and follows has_more to its end has been given every
\* record that matched when it began, however many were appended, early or late dated,
\* while it was reading: appending only moves records to later pages.  From PostgreSQL
\* it may miss a row, but only one that ties with another (audit/store.go:84-101,
\* storage/postgres/store.go:115, handler.go:137-159).
NothingMissed ==
    store # "coarse" =>
        \A r \in Readers : reader[r].pc = "answered" /\ ~reader[r].hasMore =>
            \A i \in reader[r].owed \ reader[r].got :
                /\ store = "postgres"
                /\ \E j \in DOMAIN records \ {i} : records[j].at = records[i].at

\* has_more is only answered when there is a record past the page, unless the offset
\* past the page is no int any more (handler.go:143-157).
HasMoreIsTrue ==
    store # "coarse" =>
        \A r \in Readers :
            LET past == reader[r].opts.offset + reader[r].opts.limit
            IN  reader[r].pc = "answered" /\ reader[r].hasMore /\ past <= MaxInt =>
                    Cardinality(Matching(reader[r].opts.filter)) > past

\* Records in the log are dated no later than now and carry the ids of distinct
\* Appends, although ids, dates and slots are taken in three different orders
\* (audit/store.go:64-72).
RecordsAreDistinct ==
    /\ \A i \in DOMAIN records : records[i].at <= clock
    /\ \A i, j \in DOMAIN records : records[i].id = records[j].id => i = j

Trail == INSTANCE AuditTrail
    WITH Records <- Record,
         trail   <- IF store = "coarse" THEN {} ELSE {records[i] : i \in DOMAIN records}

\* Both stores only ever add records and keep what they have, the database on condition
\* that no two ids are drawn in one nanosecond (audit/store.go:60-74,
\* storage/postgres/store.go:54-81).
ImplementsTrail == Trail!Spec

================================================================================
