---------------------------- MODULE AuditLogProofs ----------------------------
(****************************************************************************)
(* Theorems about AuditLog: for any number of writers, readers and records, *)
(* both stores keep what they are given, each record under an id of its     *)
(* own, so that they implement AuditTrail; has_more is only answered when   *)
(* it is true; and a reader who follows it is given all that is owed.       *)
(****************************************************************************)
EXTENDS AuditLog, FiniteSetTheorems, FunctionTheorems, SequenceTheorems, TLAPS

--------------------------------------------------------------------------------
(* The inductive invariant                                                    *)

Waiting(w) == writer[w] # NoRecord

\* Ids and dates were read from the counter and the clock.
Dated ==
    /\ \A i \in DOMAIN records : records[i].id <= counter
    /\ \A w \in Writers : Waiting(w) => writer[w].id <= counter /\ writer[w].at <= clock

\* Unless the clock is coarse, a record that waits has an id no other has.
IdsApart ==
    store # "coarse" =>
        /\ \A v, w \in Writers :
              Waiting(v) /\ Waiting(w) /\ writer[v].id = writer[w].id => v = w
        /\ \A w \in Writers, i \in DOMAIN records : Waiting(w) => records[i].id # writer[w].id

\* Requests have been normalised.
Asked ==
    \A r \in Readers : reader[r].pc # "idle" =>
        reader[r].opts.limit \in 1..MaxLimit /\ reader[r].opts.offset \in 0..MaxInt

\* Rows that tie may be missed, in PostgreSQL.
Tied(i) ==
    store = "postgres" /\ \E j \in DOMAIN records \ {i} : records[j].at = records[i].at

\* A record that is owed and was not got yet is on this page or a later one.
Owes(c, i) ==
    /\ i \in Matching(c.opts.filter)
    /\ \/ Tied(i)
       \/ c.pc = "list" /\ Position(i, c.opts.filter) >= c.opts.offset
       \/ /\ c.pc = "peek"
          /\ i \in c.page \/ Position(i, c.opts.filter) >= c.opts.offset + c.opts.limit
       \/ /\ c.pc = "answered" /\ c.hasMore
          /\ Position(i, c.opts.filter) >= c.opts.offset + c.opts.limit

DebtsKept ==
    store # "coarse" =>
        \A r \in Readers, c \in Reader : reader[r] = c =>
            \A i \in c.owed \ c.got : Owes(c, i)

Typed ==
    /\ store \in Stores
    /\ clock \in 0..MaxTime /\ counter \in 0..MaxRecords
    /\ records \in Seq(Record)
    /\ writer \in [Writers -> Record \cup {NoRecord}]
    /\ reader \in [Readers -> Reader]

Safe ==
    /\ Typed /\ Dated /\ IdsApart /\ RecordsAreDistinct
    /\ Asked /\ HasMoreIsTrue /\ DebtsKept

--------------------------------------------------------------------------------
(* Records                                                                    *)

LEMMA NumberTypes ==
    /\ MaxInt \in Nat /\ MaxLimit \in Nat /\ DefaultLimit \in Nat
    /\ 1 <= DefaultLimit /\ DefaultLimit <= MaxLimit /\ MaxLimit <= MaxInt
    /\ MaxRecords \in Nat /\ MaxTime \in Nat
<1>1. MaxInt \in Nat /\ MaxRecords \in Nat /\ MaxTime \in Nat
  BY NumberAssumption
<1>2. MaxLimit \in 1..MaxInt /\ DefaultLimit \in 1..MaxLimit
  BY NumberAssumption
<1> QED BY <1>1, <1>2

LEMMA NoRecordIsNone == NoRecord \notin Record
<1>1. NoRecord.id = 0
  BY DEF NoRecord
<1>2. \A record \in Record : record.id # 0
  BY DEF Record
<1> QED BY <1>1, <1>2

\* There are no more records than ids.
LEMMA NoMoreThanIds ==
    ASSUME records \in Seq(Record), counter \in 0..MaxRecords, Dated, RecordsAreDistinct
    PROVE  Len(records) <= counter
<1> DEFINE n == Len(records)
           id == [i \in 1..n |-> records[i].id]
<1>1. n \in Nat /\ DOMAIN records = 1..n /\ counter \in Nat
  BY NumberTypes
<1>2. \A i \in 1..n : records[i].id \in 1..counter
  <2>1. \A i \in 1..n : records[i] \in Record
    BY <1>1
  <2>2. \A record \in Record : record.id \in Nat /\ record.id >= 1
    BY <1>1, NumberTypes DEF Record
  <2>3. \A i \in 1..n : records[i].id <= counter
    BY <1>1 DEF Dated
  <2> HIDE DEF n
  <2> QED BY <1>1, <2>1, <2>2, <2>3
<1>3. id \in [1..n -> 1..counter]
  BY <1>2
<1>4. \A i, j \in 1..n : id[i] = id[j] => i = j
  BY <1>1 DEF RecordsAreDistinct
<1>5. id \in Injection(1..n, 1..counter)
  BY <1>3, <1>4, Fun_IsInj
<1>6. /\ IsFiniteSet(1..counter)
      /\ Cardinality(1..counter) = IF 1 > counter THEN 0 ELSE counter - 1 + 1
      /\ Cardinality(1..n) = IF 1 > n THEN 0 ELSE n - 1 + 1
  <2>1. 1 \in Int /\ counter \in Int /\ n \in Int
    BY <1>1
  <2> HIDE DEF n
  <2>2. /\ IsFiniteSet(1..counter)
        /\ Cardinality(1..counter) = IF 1 > counter THEN 0 ELSE counter - 1 + 1
    BY <2>1, FS_Interval
  <2>3. Cardinality(1..n) = IF 1 > n THEN 0 ELSE n - 1 + 1
    BY <2>1, FS_Interval
  <2> QED BY <2>2, <2>3
<1>7. Cardinality(1..n) <= Cardinality(1..counter)
  BY <1>5, <1>6, FS_Injection
<1> QED BY <1>1, <1>6, <1>7

LEMMA SafeTyped == Safe => TypeOK
  BY NoMoreThanIds DEF Safe, Typed, TypeOK

\* What Store does: the record is added, or it takes the place of those with its id.
Added(record) ==
    /\ \A i \in DOMAIN records : records[i].id # record.id
    /\ records' = Append(records, record)

Replaced(record) ==
    records' = [i \in DOMAIN records |-> IF records[i].id = record.id THEN record ELSE records[i]]

LEMMA StoreDoes ==
    ASSUME Safe, NEW w \in Writers, Waiting(w), Store(writer[w])
    PROVE  Added(writer[w]) \/ (store = "coarse" /\ Replaced(writer[w]))
<1> DEFINE clash == {i \in DOMAIN records : records[i].id = writer[w].id}
<1>1. store # "coarse" => clash = {}
  BY DEF Safe, IdsApart
<1>2. store \in {"memory", "postgres", "coarse"}
  BY DEF Safe, Typed, Stores
<1>3. CASE clash = {}
  BY <1>3 DEF Store, Added
<1>4. CASE clash # {}
  <2>1. store = "coarse"
    BY <1>1, <1>4
  <2>2. records' = [i \in DOMAIN records |-> IF i \in clash THEN writer[w] ELSE records[i]]
    BY <1>4, <2>1 DEF Store
  <2>3. \A i \in DOMAIN records : i \in clash <=> records[i].id = writer[w].id
    OBVIOUS
  <2> QED BY <2>1, <2>2, <2>3 DEF Replaced
<1> QED BY <1>3, <1>4

LEMMA AddedDoes ==
    ASSUME records \in Seq(Record), NEW record \in Record, Added(record)
    PROVE  /\ records' \in Seq(Record)
           /\ DOMAIN records' = DOMAIN records \cup {Len(records) + 1}
           /\ Len(records) + 1 \notin DOMAIN records
           /\ \A i \in DOMAIN records : records'[i] = records[i]
           /\ records'[Len(records) + 1] = record
<1>1. records' \in Seq(Record) /\ Len(records') = Len(records) + 1 /\ Len(records) \in Nat
  BY DEF Added
<1>2. DOMAIN records' = 1..(Len(records) + 1) /\ DOMAIN records = 1..Len(records)
  BY <1>1
<1>3. \A i \in 1..Len(records) : records'[i] = records[i]
  BY DEF Added
<1>4. records'[Len(records) + 1] = record
  BY DEF Added
<1> QED BY <1>1, <1>2, <1>3, <1>4

LEMMA ReplacedDoes ==
    ASSUME records \in Seq(Record), NEW record \in Record, Replaced(record)
    PROVE  /\ records' \in Seq(Record) /\ DOMAIN records' = DOMAIN records
           /\ \A i \in DOMAIN records :
                 records'[i] = IF records[i].id = record.id THEN record ELSE records[i]
<1>1. Len(records) \in Nat /\ DOMAIN records = 1..Len(records)
  OBVIOUS
<1>2. \A i \in 1..Len(records) : records[i] \in Record
  OBVIOUS
<1>3. records' \in [1..Len(records) -> Record]
  BY <1>1, <1>2 DEF Replaced
<1>4. records' \in Seq(Record)
  BY <1>1, <1>3, SeqDef
<1> QED BY <1>1, <1>4 DEF Replaced

--------------------------------------------------------------------------------
(* The shapes of a step                                                       *)

\* What is owed is what matches at first; it is got page by page.
Pays(old, new) ==
    \/ new.owed = {}
    \/ /\ new.pc = "list" /\ new.opts.offset = 0 /\ new.owed = Matching(new.opts.filter)
    \/ /\ old.pc = "list" /\ new.pc = "peek" /\ new.page \in Pages(old.opts)
       /\ new.opts = old.opts /\ new.owed = old.owed /\ new.got = old.got
    \/ /\ old.pc = "peek" /\ new.pc = "answered"
       /\ new.opts = old.opts /\ new.owed = old.owed /\ new.got = old.got \cup old.page
    \/ /\ old.pc = "answered" /\ old.hasMore /\ new.pc = "list"
       /\ new.opts.filter = old.opts.filter
       /\ new.opts.offset = old.opts.offset + old.opts.limit
       /\ new.owed = old.owed /\ new.got = old.got

\* A request is answered from what is there beyond its page.
GoesOn(old, new) ==
    /\ new.pc # "idle" =>
          new.opts.limit \in 1..MaxLimit /\ new.opts.offset \in 0..MaxInt
    /\ new.pc = "answered" =>
          /\ old.pc # "idle" /\ new.opts = old.opts
          /\ new.hasMore = (Listed(Beyond(old.opts)) # {})
    /\ Pays(old, new)

\* A reader goes on.
Reads(r) ==
    /\ UNCHANGED <<store, clock, counter, records, writer>>
    /\ \E new \in Reader : reader' = [reader EXCEPT ![r] = new] /\ GoesOn(reader[r], new)

\* A writer has drawn an id and a date.
Begins(w) ==
    /\ UNCHANGED <<store, clock, records, reader>>
    /\ counter < MaxRecords
    /\ counter' = counter + 1 \/ (store = "coarse" /\ counter > 0 /\ counter' = counter)
    /\ \E event \in [Fields -> Values] :
          writer' = [writer EXCEPT ![w] = [id |-> counter', at |-> clock, event |-> event]]

\* A writer is done, with or without its record.
Ends(w) ==
    /\ UNCHANGED <<store, clock, counter, reader>>
    /\ Waiting(w) /\ writer' = [writer EXCEPT ![w] = NoRecord]
    /\ \/ UNCHANGED records
       \/ Added(writer[w])
       \/ store = "coarse" /\ Replaced(writer[w])

Ticks ==
    /\ UNCHANGED <<store, counter, records, writer, reader>>
    /\ clock' = clock \/ (clock < MaxTime /\ clock' = clock + 1)

LEMMA Normalized ==
    ASSUME NEW opts \in Options
    PROVE  /\ Normalize(opts) \in Options
           /\ Normalize(opts).limit \in 1..MaxLimit
           /\ Normalize(opts).offset \in 0..MaxInt
           /\ Normalize(opts).filter = opts.filter
<1>1. /\ opts.limit \in 0..MaxInt /\ opts.offset \in -(MaxInt + 1)..MaxInt
      /\ opts.filter \in Filter
  BY DEF Options
<1> DEFINE limit == IF opts.limit <= 0 THEN DefaultLimit
                    ELSE IF opts.limit > MaxLimit THEN MaxLimit ELSE opts.limit
           offset == IF opts.offset < 0 THEN 0 ELSE opts.offset
<1>2. limit \in 1..MaxLimit /\ limit \in 0..MaxInt
  BY <1>1, NumberTypes
<1>3. offset \in 0..MaxInt /\ offset \in -(MaxInt + 1)..MaxInt
  BY <1>1, NumberTypes
<1>4. Normalize(opts) = [opts EXCEPT !.limit = limit, !.offset = offset]
  BY DEF Normalize
<1> HIDE DEF limit, offset
<1>5. Normalize(opts) \in Options /\ Normalize(opts).limit = limit
      /\ Normalize(opts).offset = offset /\ Normalize(opts).filter = opts.filter
  BY <1>1, <1>2, <1>3, <1>4 DEF Options
<1> QED BY <1>2, <1>3, <1>5

LEMMA MatchingPlaces ==
    ASSUME Safe, NEW filter
    PROVE  Matching(filter) \subseteq Places
<1>1. records \in Seq(Record) /\ Len(records) <= counter /\ counter \in 0..MaxRecords
  BY SafeTyped DEF TypeOK
<1>2. DOMAIN records = 1..Len(records) /\ Len(records) \in Nat
  BY <1>1
<1>3. 1..Len(records) \subseteq Places
  BY <1>1, <1>2, NumberTypes DEF Places
<1> QED BY <1>2, <1>3 DEF Matching

LEMMA PagePlaces ==
    ASSUME Safe, NEW options \in Options, NEW page \in Pages(options)
    PROVE  page \subseteq Places
<1>1. Listed(options) \subseteq Places
  BY MatchingPlaces DEF Listed
<1>2. Matching(options.filter) \subseteq Places
  BY MatchingPlaces
<1> QED BY <1>1, <1>2 DEF Pages

LEMMA ReaderSteps ==
    ASSUME Safe, NEW r \in Readers,
           \/ \E filter \in Filter, limit \in Limits, offset \in Offsets :
                 Ask(r, filter, limit, offset)
           \/ ListPage(r) \/ PeekBeyond(r) \/ ListFails(r) \/ NextPage(r) \/ Finish(r)
    PROVE  Reads(r)
<1> DEFINE old == reader[r]
<1>0. /\ reader \in [Readers -> Reader] /\ old \in Reader /\ old.opts \in Options
      /\ old.pc # "idle" => old.opts.limit \in 1..MaxLimit /\ old.opts.offset \in 0..MaxInt
  BY DEF Safe, Typed, Asked, Reader
<1>1. Idle.pc = "idle" /\ Idle \in Reader
  <2>1. [f \in Fields |-> AnyValue] \in Filter
    BY DEF Filter
  <2>2. 0 \in 0..MaxInt /\ 0 \in -(MaxInt + 1)..MaxInt
    BY NumberTypes
  <2> QED BY <2>1, <2>2 DEF Idle, Reader, Options
<1>2. CASE ListFails(r) \/ Finish(r)
  <2>1. GoesOn(old, Idle)
    <3>1. Idle.owed = {}
      BY DEF Idle
    <3> QED BY <1>1, <3>1 DEF GoesOn, Pays
  <2> QED BY <1>1, <1>2, <2>1 DEF ListFails, Finish, Reads
<1>3. ASSUME NEW filter \in Filter, NEW limit \in Limits, NEW offset \in Offsets,
             Ask(r, filter, limit, offset)
      PROVE  Reads(r)
  <2> DEFINE options == [filter |-> filter, limit |-> limit, offset |-> offset]
             opts == Normalize(options)
             owed == IF offset = 0 THEN Matching(filter) ELSE {}
             new == [Idle EXCEPT !.pc = "list", !.opts = opts, !.owed = owed]
  <2>1. options \in Options
    <3>1. limit \in 0..MaxInt /\ offset \in 0..MaxInt
      BY NumberAssumption
    <3>2. offset \in -(MaxInt + 1)..MaxInt
      BY <3>1, NumberTypes
    <3> QED BY <3>1, <3>2 DEF Options
  <2>2. /\ opts \in Options /\ opts.limit \in 1..MaxLimit /\ opts.offset \in 0..MaxInt
        /\ opts.filter = filter
    BY <2>1, Normalized
  <2>3. offset = 0 => opts.offset = 0
    BY DEF Normalize
  <2>4. owed \subseteq Places
    BY MatchingPlaces
  <2>5. reader' = [reader EXCEPT ![r] = new]
    BY <1>3 DEF Ask
  <2>6. owed = {} \/ (owed = Matching(filter) /\ opts.offset = 0)
    BY <2>3
  <2> HIDE DEF opts, owed
  <2>7. new \in Reader /\ new.pc = "list" /\ new.opts = opts /\ new.owed = owed
    BY <1>1, <2>2, <2>4 DEF Reader
  <2> HIDE DEF new
  <2>8. GoesOn(old, new)
    BY <2>2, <2>7, <2>6 DEF GoesOn, Pays
  <2> QED BY <1>3, <2>5, <2>7, <2>8 DEF Ask, Reads
<1>4. CASE ListPage(r)
  <2>1. PICK page \in Pages(old.opts) :
           reader' = [reader EXCEPT ![r].pc = "peek", ![r].page = page]
    BY <1>4 DEF ListPage
  <2> DEFINE new == [old EXCEPT !.pc = "peek", !.page = page]
  <2>2. page \subseteq Places
    BY <1>0, PagePlaces
  <2>3. /\ new \in Reader /\ new.pc = "peek" /\ new.opts = old.opts /\ new.page = page
        /\ new.owed = old.owed /\ new.got = old.got
    BY <1>0, <2>2 DEF Reader
  <2>4. reader' = [reader EXCEPT ![r] = new]
    BY <2>1
  <2> HIDE DEF new
  <2>5. GoesOn(old, new)
    BY <1>0, <1>4, <2>3 DEF GoesOn, Pays, ListPage
  <2> QED BY <1>4, <2>3, <2>4, <2>5 DEF ListPage, Reads
<1>5. CASE PeekBeyond(r)
  <2> DEFINE more == Listed(Beyond(old.opts)) # {}
             new == [old EXCEPT !.pc = "answered", !.hasMore = more, !.got = @ \cup old.page]
  <2>1. reader' = [reader EXCEPT ![r] = new]
    BY <1>5 DEF PeekBeyond
  <2>2. more \in BOOLEAN
    OBVIOUS
  <2> HIDE DEF more
  <2>3. /\ new \in Reader /\ new.pc = "answered" /\ new.opts = old.opts
        /\ new.hasMore = more /\ new.owed = old.owed /\ new.got = old.got \cup old.page
    BY <1>0, <2>2 DEF Reader
  <2> HIDE DEF new
  <2>4. GoesOn(old, new)
    BY <1>0, <1>5, <2>3 DEF GoesOn, Pays, PeekBeyond, more
  <2> QED BY <1>5, <2>1, <2>3, <2>4 DEF PeekBeyond, Reads
<1>6. CASE NextPage(r)
  <2> DEFINE next == old.opts.offset + old.opts.limit
             new == [old EXCEPT !.pc = "list", !.opts.offset = next]
  <2>1. reader' = [reader EXCEPT ![r] = new]
    BY <1>6 DEF NextPage
  <2>2. next \in 0..MaxInt /\ next \in -(MaxInt + 1)..MaxInt
    BY <1>0, <1>6, NumberTypes DEF NextPage
  <2> HIDE DEF next
  <2>3. /\ new \in Reader /\ new.pc = "list" /\ new.opts.limit = old.opts.limit
        /\ new.opts.offset = next /\ new.opts.filter = old.opts.filter
        /\ new.owed = old.owed /\ new.got = old.got
    BY <1>0, <2>2 DEF Reader, Options
  <2> HIDE DEF new
  <2>4. GoesOn(old, new)
    BY <1>0, <1>6, <2>2, <2>3 DEF GoesOn, Pays, NextPage, next
  <2> QED BY <1>6, <2>1, <2>3, <2>4 DEF NextPage, Reads
<1> QED BY <1>2, <1>3, <1>4, <1>5, <1>6

LEMMA Shapes ==
    ASSUME Safe, [Next]_vars
    PROVE  \/ Ticks
           \/ \E w \in Writers : Begins(w) \/ Ends(w)
           \/ \E r \in Readers : Reads(r)
<1>1. CASE Tick \/ UNCHANGED vars
  BY <1>1 DEF Tick, vars, Ticks
<1>2. ASSUME NEW w \in Writers, StoreRecord(w) \/ AppendFails(w) PROVE Ends(w)
  <2>1. Waiting(w) /\ (Store(writer[w]) \/ UNCHANGED records)
    BY <1>2 DEF StoreRecord, AppendFails, Waiting
  <2>2. UNCHANGED <<store, clock, counter, reader>> /\ writer' = [writer EXCEPT ![w] = NoRecord]
    BY <1>2 DEF StoreRecord, AppendFails
  <2> QED BY <2>1, <2>2, StoreDoes DEF Ends
<1>3. ASSUME NEW w \in Writers, NEW event \in [Fields -> Values], BeginAppend(w, event)
      PROVE  Begins(w)
  BY <1>3 DEF BeginAppend, Begins
<1> QED BY <1>1, <1>2, <1>3, ReaderSteps DEF Next

--------------------------------------------------------------------------------
(* The parts of the invariant, one by one                                     *)

Step ==
    \/ Ticks
    \/ \E w \in Writers : Begins(w) \/ Ends(w)
    \/ \E r \in Readers : Reads(r)

LEMMA WriterTypes ==
    ASSUME Typed, NEW w \in Writers, Waiting(w)
    PROVE  writer[w] \in Record
  BY DEF Typed, Waiting

\* What becomes of the records.
LEMMA RecordsGoOn ==
    ASSUME Safe, Step
    PROVE  /\ records' \in Seq(Record)
           /\ \/ records' = records
              \/ \E w \in Writers :
                    /\ Ends(w) /\ writer[w] \in Record
                    /\ Added(writer[w]) \/ (store = "coarse" /\ Replaced(writer[w]))
<1>1. records \in Seq(Record)
  BY DEF Safe, Typed
<1>2. CASE records' = records
  BY <1>1, <1>2
<1>3. CASE records' # records
  <2>1. PICK w \in Writers : Ends(w)
    BY <1>3 DEF Step, Ticks, Begins, Reads
  <2>2. writer[w] \in Record
    BY <2>1, WriterTypes DEF Safe, Ends
  <2>3. Added(writer[w]) \/ (store = "coarse" /\ Replaced(writer[w]))
    BY <1>3, <2>1 DEF Ends
  <2> QED BY <1>1, <2>1, <2>2, <2>3, AddedDoes, ReplacedDoes
<1> QED BY <1>2, <1>3

LEMMA TypedStep ==
    ASSUME Safe, Step
    PROVE  Typed'
<1>0. records' \in Seq(Record)
  BY RecordsGoOn
<1>1. CASE Ticks
  BY <1>0, <1>1, NumberTypes DEF Ticks, Safe, Typed
<1>2. ASSUME NEW w \in Writers, Begins(w) PROVE Typed'
  <2>1. counter' \in 0..MaxRecords /\ counter' \in 1..MaxRecords
    BY <1>2, NumberTypes DEF Begins, Safe, Typed
  <2>2. PICK event \in [Fields -> Values] :
           writer' = [writer EXCEPT ![w] = [id |-> counter', at |-> clock, event |-> event]]
    BY <1>2 DEF Begins
  <2>3. [id |-> counter', at |-> clock, event |-> event] \in Record
    BY <2>1 DEF Record, Safe, Typed
  <2>4. writer' \in [Writers -> Record \cup {NoRecord}]
    BY <2>2, <2>3 DEF Safe, Typed
  <2> QED BY <1>0, <1>2, <2>1, <2>4 DEF Begins, Safe, Typed
<1>3. ASSUME NEW w \in Writers, Ends(w) PROVE Typed'
  BY <1>0, <1>3 DEF Ends, Safe, Typed
<1>4. ASSUME NEW r \in Readers, Reads(r) PROVE Typed'
  BY <1>0, <1>4 DEF Reads, Safe, Typed
<1> QED BY <1>1, <1>2, <1>3, <1>4 DEF Step

\* A record that was drawn in this step bears the number that was drawn last.
LEMMA WritersGoOn ==
    ASSUME Safe, Step
    PROVE  /\ store' = store
           /\ counter \in Nat /\ counter' \in Nat /\ counter <= counter'
           /\ clock \in Nat /\ clock' \in Nat /\ clock <= clock'
           /\ \A w \in Writers : Waiting(w)' =>
                 \/ Waiting(w) /\ writer'[w] = writer[w]
                 \/ /\ writer'[w].id = counter' /\ writer'[w].at = clock' /\ Begins(w)
<1>0. /\ counter \in Nat /\ clock \in Nat /\ writer \in [Writers -> Record \cup {NoRecord}]
  BY NumberTypes DEF Safe, Typed
<1>1. CASE Ticks
  BY <1>0, <1>1 DEF Ticks, Waiting
<1>2. ASSUME NEW w \in Writers, Begins(w)
      PROVE  /\ store' = store /\ counter' \in Nat /\ counter <= counter' /\ clock' = clock
             /\ writer'[w].id = counter' /\ writer'[w].at = clock'
             /\ \A v \in Writers \ {w} : writer'[v] = writer[v]
  <2>1. PICK event \in [Fields -> Values] :
           writer' = [writer EXCEPT ![w] = [id |-> counter', at |-> clock, event |-> event]]
    BY <1>2 DEF Begins
  <2>2. writer'[w] = [id |-> counter', at |-> clock, event |-> event]
    BY <1>0, <2>1
  <2>3. writer'[w].id = counter' /\ writer'[w].at = clock
    BY <2>2
  <2>4. \A v \in Writers \ {w} : writer'[v] = writer[v]
    BY <1>0, <2>1
  <2> QED BY <1>0, <1>2, <2>3, <2>4 DEF Begins
<1>3. ASSUME NEW w \in Writers, Ends(w)
      PROVE  /\ store' = store /\ counter' = counter /\ clock' = clock
             /\ ~Waiting(w)'
             /\ \A v \in Writers \ {w} : writer'[v] = writer[v]
  BY <1>0, <1>3 DEF Ends, Waiting
<1>4. ASSUME NEW r \in Readers, Reads(r)
      PROVE  UNCHANGED <<store, counter, clock, writer>>
  BY <1>4 DEF Reads
<1> QED BY <1>0, <1>1, <1>2, <1>3, <1>4 DEF Step, Waiting

LEMMA DatedStep ==
    ASSUME Safe, Step
    PROVE  Dated'
<1>0. records \in Seq(Record) /\ \A record \in Record : record.id \in Nat
  BY NumberTypes DEF Safe, Typed, Record
<1>1. counter \in Nat /\ counter' \in Nat /\ counter <= counter'
  BY WritersGoOn
<1>2. ASSUME NEW i \in DOMAIN records' PROVE records'[i].id <= counter'
  <2>1. ASSUME NEW j \in DOMAIN records PROVE records[j].id <= counter'
    <3>1. records[j].id <= counter /\ records[j] \in Record
      BY <1>0 DEF Safe, Dated
    <3> QED BY <1>0, <1>1, <3>1
  <2>2. ASSUME NEW w \in Writers, Ends(w), writer[w] \in Record PROVE writer[w].id <= counter'
    BY <1>0, <1>1, <2>2 DEF Ends, Safe, Dated
  <2> QED BY <1>0, <2>1, <2>2, RecordsGoOn, AddedDoes, ReplacedDoes
<1>3. ASSUME NEW w \in Writers, Waiting(w)'
      PROVE  writer'[w].id <= counter' /\ writer'[w].at <= clock'
  <2>1. CASE Waiting(w) /\ writer'[w] = writer[w]
    <3>1. /\ writer[w].id <= counter /\ writer[w].at <= clock /\ writer[w] \in Record
      BY <2>1, WriterTypes DEF Safe, Dated
    <3>2. writer[w].id \in Nat /\ writer[w].at \in Nat
      BY <3>1, NumberTypes DEF Record
    <3> QED BY <2>1, <3>1, <3>2, WritersGoOn
  <2>2. CASE writer'[w].id = counter' /\ writer'[w].at = clock'
    BY <2>2, WritersGoOn
  <2> QED BY <1>3, <2>1, <2>2, WritersGoOn
<1> QED BY <1>2, <1>3 DEF Dated, Waiting

LEMMA DistinctStep ==
    ASSUME Safe, Step
    PROVE  RecordsAreDistinct'
<1>0. /\ records \in Seq(Record) /\ \A record \in Record : record.at \in Nat
      /\ clock \in Nat /\ clock' \in Nat /\ clock <= clock'
  BY WritersGoOn, NumberTypes DEF Safe, Typed, Record
<1>1. ASSUME NEW i \in DOMAIN records PROVE records[i].at <= clock'
  <2>1. records[i].at <= clock /\ records[i] \in Record
    BY <1>0 DEF Safe, RecordsAreDistinct
  <2> QED BY <1>0, <2>1
<1>2. CASE records' = records
  BY <1>1, <1>2 DEF Safe, RecordsAreDistinct
<1>3. ASSUME NEW w \in Writers, Ends(w), writer[w] \in Record,
             Added(writer[w]) \/ Replaced(writer[w])
      PROVE  RecordsAreDistinct'
  <2>1. writer[w].at <= clock'
    BY <1>0, <1>3 DEF Ends, Safe, Dated
  <2>2. CASE Added(writer[w])
    <3> DEFINE n == Len(records) + 1
    <3>1. /\ DOMAIN records' = DOMAIN records \cup {n}
          /\ \A i \in DOMAIN records : records'[i] = records[i]
          /\ records'[n] = writer[w]
          /\ \A i \in DOMAIN records : records[i].id # writer[w].id
      BY <1>0, <1>3, <2>2, AddedDoes DEF Added
    <3> HIDE DEF n
    <3> QED BY <1>1, <2>1, <3>1 DEF Safe, RecordsAreDistinct
  <2>3. CASE Replaced(writer[w])
    <3>1. /\ DOMAIN records' = DOMAIN records
          /\ \A i \in DOMAIN records : records'[i] =
                IF records[i].id = writer[w].id THEN writer[w] ELSE records[i]
      BY <1>0, <1>3, <2>3, ReplacedDoes
    <3>2. \A i \in DOMAIN records : records'[i].id = records[i].id
      BY <3>1
    <3> QED BY <1>1, <2>1, <3>1, <3>2 DEF Safe, RecordsAreDistinct
  <2> QED BY <1>3, <2>2, <2>3
<1> QED BY <1>2, <1>3, RecordsGoOn

LEMMA IdsApartStep ==
    ASSUME Safe, Step
    PROVE  IdsApart'
<1> SUFFICES ASSUME store # "coarse"
             PROVE  /\ \A v, w \in Writers :
                          Waiting(v)' /\ Waiting(w)' /\ writer'[v].id = writer'[w].id => v = w
                    /\ \A w \in Writers, i \in DOMAIN records' :
                          Waiting(w)' => records'[i].id # writer'[w].id
  BY WritersGoOn DEF IdsApart, Waiting
<1>0. /\ records \in Seq(Record) /\ counter \in Nat /\ \A record \in Record : record.id \in Nat
  BY NumberTypes DEF Safe, Typed, Record
<1>1. ASSUME NEW w \in Writers, Waiting(w) PROVE writer[w].id < counter + 1
  <2>1. writer[w].id <= counter /\ writer[w] \in Record
    BY <1>1, WriterTypes DEF Safe, Dated
  <2> QED BY <1>0, <2>1
<1>2. ASSUME NEW i \in DOMAIN records PROVE records[i].id < counter + 1
  <2>1. records[i].id <= counter /\ records[i] \in Record
    BY <1>0 DEF Safe, Dated
  <2> QED BY <1>0, <2>1
<1>3. CASE \E w \in Writers : Begins(w)
  <2>1. PICK w \in Writers : Begins(w)
    BY <1>3
  <2>2. PICK event \in [Fields -> Values] :
           writer' = [writer EXCEPT ![w] = [id |-> counter', at |-> clock, event |-> event]]
    BY <2>1 DEF Begins
  <2>3. /\ records' = records /\ counter' = counter + 1
        /\ writer'[w] = [id |-> counter', at |-> clock, event |-> event]
        /\ \A v \in Writers \ {w} : writer'[v] = writer[v]
    BY <2>1, <2>2 DEF Begins, Safe, Typed
  <2>4. writer'[w].id = counter + 1
    BY <2>3
  <2>5. \A v \in Writers \ {w} : Waiting(v)' => Waiting(v)
    BY <2>3 DEF Waiting
  <2>6. ASSUME NEW v \in Writers \ {w}, Waiting(v)' PROVE writer'[v].id # writer'[w].id
    <3>1. writer[v].id < counter + 1 /\ writer[v] \in Record
      BY <1>1, <2>5, <2>6, WriterTypes DEF Safe
    <3> QED BY <1>0, <2>3, <2>4, <3>1
  <2>7. ASSUME NEW i \in DOMAIN records PROVE records[i].id # writer'[w].id
    <3>1. records[i].id < counter + 1 /\ records[i] \in Record
      BY <1>0, <1>2
    <3> QED BY <1>0, <2>4, <3>1
  <2>8. \A v, u \in Writers :
           Waiting(v)' /\ Waiting(u)' /\ writer'[v].id = writer'[u].id => v = u
    BY <2>3, <2>5, <2>6 DEF Safe, IdsApart
  <2>9. \A v \in Writers, i \in DOMAIN records' : Waiting(v)' => records'[i].id # writer'[v].id
    BY <2>3, <2>5, <2>7 DEF Safe, IdsApart
  <2> QED BY <2>8, <2>9
<1>4. CASE ~\E w \in Writers : Begins(w)
  <2>1. \A v \in Writers : Waiting(v)' => Waiting(v) /\ writer'[v] = writer[v]
    BY <1>4, WritersGoOn
  <2>2. CASE records' = records
    BY <2>1, <2>2 DEF Safe, IdsApart
  <2>3. ASSUME NEW w \in Writers, Ends(w), writer[w] \in Record, Added(writer[w])
        PROVE  \A v \in Writers, i \in DOMAIN records' :
                  Waiting(v)' => records'[i].id # writer'[v].id
    <3>1. ~Waiting(w)' /\ Waiting(w)
      BY <2>3 DEF Ends, Waiting, Safe, Typed
    <3>2. \A v \in Writers : Waiting(v)' => writer[v].id # writer[w].id
      BY <2>1, <3>1 DEF Safe, IdsApart
    <3> DEFINE n == Len(records) + 1
    <3>3. /\ DOMAIN records' = DOMAIN records \cup {n}
          /\ \A i \in DOMAIN records : records'[i] = records[i]
          /\ records'[n] = writer[w]
      BY <1>0, <2>3, AddedDoes
    <3> HIDE DEF n
    <3> QED BY <2>1, <3>2, <3>3 DEF Safe, IdsApart
  <2> QED BY <2>1, <2>2, <2>3, RecordsGoOn DEF Safe, IdsApart
<1> QED BY <1>3, <1>4

LEMMA ReaderGoesOn ==
    ASSUME Safe, Step, NEW r \in Readers
    PROVE  \/ reader'[r] = reader[r]
           \/ reader'[r] \in Reader /\ GoesOn(reader[r], reader'[r]) /\ Reads(r)
<1>1. CASE Ticks \/ \E w \in Writers : Begins(w) \/ Ends(w)
  BY <1>1 DEF Ticks, Begins, Ends
<1>2. ASSUME NEW q \in Readers, Reads(q)
      PROVE  \/ reader'[r] = reader[r]
             \/ reader'[r] \in Reader /\ GoesOn(reader[r], reader'[r]) /\ Reads(r)
  <2>1. PICK new \in Reader : reader' = [reader EXCEPT ![q] = new] /\ GoesOn(reader[q], new)
    BY <1>2 DEF Reads
  <2>2. reader \in [Readers -> Reader]
    BY DEF Safe, Typed
  <2>3. CASE q = r
    BY <1>2, <2>1, <2>2, <2>3
  <2>4. CASE q # r
    BY <2>1, <2>2, <2>4
  <2> QED BY <2>3, <2>4
<1> QED BY <1>1, <1>2 DEF Step

LEMMA AskedStep ==
    ASSUME Safe, Step
    PROVE  Asked'
  BY ReaderGoesOn DEF Asked, GoesOn, Safe

LEMMA MatchingFinite ==
    ASSUME records \in Seq(Record), NEW filter
    PROVE  /\ IsFiniteSet(Matching(filter)) /\ Cardinality(Matching(filter)) \in Nat
<1>1. DOMAIN records = 1..Len(records) /\ Len(records) \in Nat
  OBVIOUS
<1>2. IsFiniteSet(1..Len(records))
  BY <1>1, FS_Interval
<1>3. Matching(filter) \subseteq 1..Len(records)
  BY <1>1 DEF Matching
<1>4. IsFiniteSet(Matching(filter))
  BY <1>2, <1>3, FS_Subset
<1> QED BY <1>4, FS_CardinalityType

\* A record at a position has as many matching records before it.
LEMMA PositionBelow ==
    ASSUME records \in Seq(Record), NEW filter, NEW i \in Matching(filter)
    PROVE  Position(i, filter) \in Nat /\ Position(i, filter) < Cardinality(Matching(filter))
<1> DEFINE before == {j \in Matching(filter) : ListedBefore(j, i)}
<1>1. i \in Nat /\ records[i].at \in Nat
  <2>1. i \in 1..Len(records) /\ records[i] \in Record
    BY DEF Matching
  <2> QED BY <2>1, NumberTypes DEF Record
<1>2. i \notin before
  BY <1>1 DEF ListedBefore
<1>3. before \cup {i} \subseteq Matching(filter)
  OBVIOUS
<1> HIDE DEF before
<1>4. /\ IsFiniteSet(Matching(filter)) /\ Cardinality(Matching(filter)) \in Nat
  BY MatchingFinite
<1>5. IsFiniteSet(before) /\ Cardinality(before \cup {i}) <= Cardinality(Matching(filter))
  BY <1>3, <1>4, FS_Subset
<1>6. Cardinality(before) \in Nat
  BY <1>5, FS_CardinalityType
<1>7. Cardinality(before \cup {i}) = Cardinality(before) + 1
  BY <1>2, <1>5, FS_AddElement
<1>8. Position(i, filter) = Cardinality(before)
  BY DEF Position, before
<1> QED BY <1>4, <1>5, <1>6, <1>7, <1>8

\* The second List finds something only when there is something past the page.
LEMMA SomethingBeyond ==
    ASSUME records \in Seq(Record), NEW opts \in Options,
           opts.limit \in 1..MaxLimit, opts.offset \in 0..MaxInt,
           opts.offset + opts.limit <= MaxInt, Listed(Beyond(opts)) # {}
    PROVE  Cardinality(Matching(opts.filter)) > opts.offset + opts.limit
<1> DEFINE past == opts.offset + opts.limit
<1>1. past \in Nat /\ past \in 0..MaxInt /\ past \in -(MaxInt + 1)..MaxInt
  BY NumberTypes
<1>2. Plus(opts.offset, opts.limit) = past
  BY <1>1, NumberTypes DEF Plus
<1> HIDE DEF past
<1>3. Beyond(opts) = [opts EXCEPT !.limit = 1, !.offset = past]
  BY <1>2 DEF Beyond
<1>4. /\ Beyond(opts).limit = 1 /\ Beyond(opts).offset = past
      /\ Beyond(opts).filter = opts.filter
  BY <1>3 DEF Options
<1>5. /\ Normalize(Beyond(opts)).limit = 1 /\ Normalize(Beyond(opts)).offset = past
      /\ Normalize(Beyond(opts)).filter = opts.filter
  <2> DEFINE beyond == Beyond(opts)
  <2>1. beyond \in Options
    <3>1. 1 \in 0..MaxInt
      BY NumberTypes
    <3>2. beyond = [opts EXCEPT !.limit = 1, !.offset = past]
      BY <1>3
    <3> HIDE DEF beyond
    <3> QED BY <1>1, <3>1, <3>2 DEF Options
  <2>2. /\ (IF 1 <= 0 THEN DefaultLimit ELSE IF 1 > MaxLimit THEN MaxLimit ELSE 1) = 1
        /\ (IF past < 0 THEN 0 ELSE past) = past
    BY <1>1, NumberTypes
  <2>3. Normalize(beyond) = [beyond EXCEPT !.limit = 1, !.offset = past]
    BY <1>4, <2>2 DEF Normalize
  <2> HIDE DEF beyond
  <2>4. /\ Normalize(beyond).limit = 1 /\ Normalize(beyond).offset = past
        /\ Normalize(beyond).filter = beyond.filter
    BY <2>1, <2>3 DEF Options
  <2> QED BY <1>4, <2>4 DEF beyond
<1>6. PICK i \in Matching(opts.filter) : Position(i, opts.filter) \in past..(past + 1 - 1)
  BY <1>5 DEF Listed
<1>7. Position(i, opts.filter) = past
  BY <1>1, <1>6
<1> QED BY <1>1, <1>6, <1>7, PositionBelow, MatchingFinite DEF past

\* What matches goes on matching, unless a coarse clock lets a record be overwritten.
LEMMA MatchingGrows ==
    ASSUME Safe, Step, store # "coarse", NEW filter
    PROVE  /\ Matching(filter) \subseteq Matching(filter)'
           /\ Cardinality(Matching(filter)) \in Nat /\ Cardinality(Matching(filter))' \in Nat
           /\ Cardinality(Matching(filter)) <= Cardinality(Matching(filter))'
<1>0. records \in Seq(Record) /\ records' \in Seq(Record)
  BY RecordsGoOn DEF Safe, Typed
<1>1. /\ DOMAIN records \subseteq DOMAIN records'
      /\ \A i \in DOMAIN records : records'[i] = records[i]
  <2>1. ASSUME NEW w \in Writers, writer[w] \in Record, Added(writer[w])
        PROVE  /\ DOMAIN records \subseteq DOMAIN records'
               /\ \A i \in DOMAIN records : records'[i] = records[i]
    BY <1>0, <2>1, AddedDoes
  <2> QED BY <2>1, RecordsGoOn
<1>2. Matching(filter) \subseteq Matching(filter)'
  BY <1>1 DEF Matching, RecordMatches
<1>3. IsFiniteSet(Matching(filter))' /\ Cardinality(Matching(filter))' \in Nat
  <2>1. DOMAIN records' = 1..Len(records') /\ Len(records') \in Nat
    BY <1>0
  <2>2. IsFiniteSet(1..Len(records'))
    BY <2>1, FS_Interval
  <2>3. Matching(filter)' \subseteq 1..Len(records')
    BY <2>1 DEF Matching
  <2>4. IsFiniteSet(Matching(filter)')
    BY <2>2, <2>3, FS_Subset
  <2> QED BY <2>4, FS_CardinalityType
<1> QED BY <1>0, <1>2, <1>3, FS_Subset, MatchingFinite

LEMMA HasMoreStep ==
    ASSUME Safe, Step
    PROVE  HasMoreIsTrue'
<1> SUFFICES ASSUME store # "coarse", NEW r \in Readers,
                    reader'[r].pc = "answered", reader'[r].hasMore,
                    NEW opts, opts = reader'[r].opts,
                    opts.offset + opts.limit <= MaxInt
             PROVE  Cardinality(Matching(opts.filter))' > opts.offset + opts.limit
  BY WritersGoOn DEF HasMoreIsTrue, Matching, RecordMatches
<1>0. records \in Seq(Record) /\ Cardinality(Matching(opts.filter)) \in Nat
  BY MatchingGrows DEF Safe, Typed
<1>1. /\ opts \in Options /\ opts.limit \in 1..MaxLimit /\ opts.offset \in 0..MaxInt
      /\ opts.offset + opts.limit \in Nat
  BY TypedStep, AskedStep, NumberTypes DEF Typed, Asked, Reader
<1>2. Cardinality(Matching(opts.filter)) > opts.offset + opts.limit
  <2>1. CASE reader'[r] = reader[r]
    BY <2>1 DEF Safe, HasMoreIsTrue
  <2>2. CASE GoesOn(reader[r], reader'[r])
    <3>1. Listed(Beyond(opts)) # {}
      BY <2>2 DEF GoesOn
    <3> QED BY <1>0, <1>1, <3>1, SomethingBeyond
  <2> QED BY <2>1, <2>2, ReaderGoesOn
<1> QED BY <1>1, <1>2, MatchingGrows

--------------------------------------------------------------------------------
(* Nothing is missed                                                          *)

\* The matching records before i, and that listing them is a total order.
Before(i, filter) == {j \in Matching(filter) : ListedBefore(j, i)}

LEMMA PlacesAreDated ==
    ASSUME records \in Seq(Record), NEW filter, NEW i \in Matching(filter)
    PROVE  i \in Nat /\ records[i] \in Record /\ records[i].at \in Nat /\ i \in DOMAIN records
<1>1. i \in DOMAIN records /\ DOMAIN records = 1..Len(records)
  BY DEF Matching
<1>2. i \in Nat /\ records[i] \in Record
  BY <1>1
<1> QED BY <1>1, <1>2, NumberTypes DEF Record

LEMMA PositionsDiffer ==
    ASSUME records \in Seq(Record), NEW filter, NEW i \in Matching(filter),
           NEW j \in Matching(filter), Position(i, filter) = Position(j, filter)
    PROVE  i = j
<1>1. \A k \in Matching(filter) : k \in Nat /\ records[k].at \in Nat
  BY PlacesAreDated
<1>2. ASSUME NEW k \in Matching(filter), NEW l \in Matching(filter), ListedBefore(k, l)
      PROVE  Position(k, filter) < Position(l, filter)
  <2>1. Before(k, filter) \cup {k} \subseteq Before(l, filter)
    BY <1>1, <1>2 DEF Before, ListedBefore
  <2>2. k \notin Before(k, filter)
    BY <1>1 DEF Before, ListedBefore
  <2>3. IsFiniteSet(Matching(filter))
    BY MatchingFinite
  <2>4. Before(k, filter) \subseteq Matching(filter) /\ Before(l, filter) \subseteq Matching(filter)
    BY DEF Before
  <2>5. IsFiniteSet(Before(k, filter)) /\ IsFiniteSet(Before(l, filter))
    BY <2>3, <2>4, FS_Subset
  <2>6. Cardinality(Before(k, filter) \cup {k}) = Cardinality(Before(k, filter)) + 1
    BY <2>2, <2>5, FS_AddElement
  <2>7. Cardinality(Before(k, filter) \cup {k}) <= Cardinality(Before(l, filter))
    BY <2>1, <2>5, FS_Subset
  <2>8. Cardinality(Before(k, filter)) \in Nat /\ Cardinality(Before(l, filter)) \in Nat
    BY <2>5, FS_CardinalityType
  <2> QED BY <2>6, <2>7, <2>8 DEF Position, Before
<1>3. i = j \/ ListedBefore(i, j) \/ ListedBefore(j, i)
  BY <1>1 DEF ListedBefore
<1>4. Position(i, filter) \in Nat /\ Position(j, filter) \in Nat
  BY PositionBelow
<1> QED BY <1>2, <1>3, <1>4

\* Every position below the number of matching records is taken.
LEMMA PositionsTaken ==
    ASSUME records \in Seq(Record), NEW filter, NEW p \in Nat,
           p < Cardinality(Matching(filter))
    PROVE  \E i \in Matching(filter) : Position(i, filter) = p
<1> DEFINE all == Matching(filter)
           n == Cardinality(all)
           position == [i \in all |-> Position(i, filter)]
<1>1. IsFiniteSet(all) /\ n \in Nat
  BY MatchingFinite
<1>2. \A i \in all : Position(i, filter) \in 0..(n - 1)
  <2>1. \A i \in all : Position(i, filter) \in Nat /\ Position(i, filter) < n
    BY PositionBelow
  <2> HIDE DEF n, all
  <2> QED BY <1>1, <2>1
<1>3. position \in [all -> 0..(n - 1)]
  BY <1>2
<1>4. \A i, j \in all : position[i] = position[j] => i = j
  BY PositionsDiffer
<1> HIDE DEF position, n
<1>5. position \in Injection(all, 0..(n - 1))
  BY <1>3, <1>4, Fun_IsInj
<1>6. IsFiniteSet(0..(n - 1)) /\ Cardinality(0..(n - 1)) = n
  <2>1. 0 \in Int /\ n - 1 \in Int
    BY <1>1
  <2>2. /\ IsFiniteSet(0..(n - 1))
        /\ Cardinality(0..(n - 1)) = IF 0 > n - 1 THEN 0 ELSE (n - 1) - 0 + 1
    BY <2>1, FS_Interval
  <2> QED BY <1>1, <2>2
<1>7. position \in Surjection(all, 0..(n - 1))
  BY <1>5, <1>6, FS_Injection DEF n
<1>8. p \in 0..(n - 1)
  BY <1>1 DEF n
<1>9. \E i \in all : position[i] = p
  <2> HIDE DEF all
  <2>1. \A q \in 0..(n - 1) : \E i \in all : position[i] = q
    BY <1>7 DEF Surjection
  <2> QED BY <1>8, <2>1
<1> QED BY <1>9 DEF position

\* Records keep their dates, so that a record only moves to later positions.
LEMMA PositionGrows ==
    ASSUME Safe, Step, store # "coarse", NEW filter, NEW i \in Matching(filter)
    PROVE  /\ i \in Matching(filter)'
           /\ Position(i, filter) \in Nat /\ Position(i, filter)' \in Nat
           /\ Position(i, filter) <= Position(i, filter)'
           /\ Tied(i) => Tied(i)'
<1>0. records \in Seq(Record) /\ records' \in Seq(Record) /\ store' = store
  BY RecordsGoOn, WritersGoOn DEF Safe, Typed
<1>1. /\ DOMAIN records \subseteq DOMAIN records'
      /\ \A j \in DOMAIN records : records'[j] = records[j]
  <2>1. ASSUME NEW w \in Writers, writer[w] \in Record, Added(writer[w])
        PROVE  /\ DOMAIN records \subseteq DOMAIN records'
               /\ \A j \in DOMAIN records : records'[j] = records[j]
    BY <1>0, <2>1, AddedDoes
  <2> QED BY <2>1, RecordsGoOn
<1>2. i \in Matching(filter)'
  BY MatchingGrows
<1>3. Before(i, filter) \subseteq Before(i, filter)'
  BY <1>1, MatchingGrows DEF Before, ListedBefore, Matching
<1>4. IsFiniteSet(Matching(filter)')
  <2>1. DOMAIN records' = 1..Len(records') /\ Len(records') \in Nat
    BY <1>0
  <2>2. IsFiniteSet(1..Len(records'))
    BY <2>1, FS_Interval
  <2>3. Matching(filter)' \subseteq 1..Len(records')
    BY <2>1 DEF Matching
  <2> QED BY <2>2, <2>3, FS_Subset
<1>5. Before(i, filter)' \subseteq Matching(filter)'
  BY DEF Before
<1>6. IsFiniteSet(Before(i, filter)')
  BY <1>4, <1>5, FS_Subset
<1>7. IsFiniteSet(Before(i, filter)) /\ Cardinality(Before(i, filter)) <= Cardinality(Before(i, filter)')
  BY <1>3, <1>6, FS_Subset
<1>8. Cardinality(Before(i, filter)) \in Nat /\ Cardinality(Before(i, filter)') \in Nat
  BY <1>6, <1>7, FS_CardinalityType
<1>9. /\ Position(i, filter) = Cardinality(Before(i, filter))
      /\ Position(i, filter)' = Cardinality(Before(i, filter)')
  BY DEF Position, Before
<1>10. Tied(i) => Tied(i)'
  BY <1>0, <1>1 DEF Tied, Matching
<1> QED BY <1>2, <1>7, <1>8, <1>9, <1>10

\* A page has the records of its positions, but for rows that tie.
LEMMA PageHolds ==
    ASSUME Safe, store # "coarse", NEW opts \in Options, NEW page \in Pages(opts),
           opts.limit \in 1..MaxLimit, opts.offset \in 0..MaxInt,
           NEW i \in Matching(opts.filter), ~Tied(i), i \notin page,
           Position(i, opts.filter) >= opts.offset
    PROVE  Position(i, opts.filter) >= opts.offset + opts.limit
<1>0. records \in Seq(Record)
  BY DEF Safe, Typed
<1>1. Normalize(opts) = opts
  <2>1. /\ (IF opts.limit <= 0 THEN DefaultLimit
            ELSE IF opts.limit > MaxLimit THEN MaxLimit ELSE opts.limit) = opts.limit
        /\ (IF opts.offset < 0 THEN 0 ELSE opts.offset) = opts.offset
    BY NumberTypes
  <2>2. Normalize(opts) = [opts EXCEPT !.limit = opts.limit, !.offset = opts.offset]
    BY <2>1 DEF Normalize
  <2> QED BY <2>2 DEF Options
<1>2. i \notin Listed(opts)
  <2>1. store \in {"memory", "postgres"}
    BY DEF Safe, Typed, Stores
  <2>2. CASE store = "memory"
    BY <2>2 DEF Pages
  <2>3. CASE store = "postgres"
    <3> DEFINE at == records[i].at
    <3>1. at \in 0..clock /\ \A j \in Matching(opts.filter) : records[j].at = at => j = i
      <4>1. i \in DOMAIN records /\ records[i].at \in Nat /\ records[i].at <= clock
        BY <1>0, PlacesAreDated DEF Safe, RecordsAreDistinct
      <4>2. clock \in Nat
        BY NumberTypes DEF Safe, Typed
      <4> QED BY <2>3, <4>1, <4>2 DEF Tied, Matching
    <3>2. /\ page \subseteq Matching(opts.filter)
          /\ Cardinality(DatedAt(page, at)) = Cardinality(DatedAt(Listed(opts), at))
      BY <2>3, <3>1 DEF Pages
    <3>3. DatedAt(page, at) = {}
      BY <3>1, <3>2 DEF DatedAt
    <3>4. ASSUME i \in Listed(opts) PROVE DatedAt(Listed(opts), at) = {i}
      BY <1>1, <3>1, <3>4 DEF DatedAt, Listed
    <3>5. Cardinality({}) = 0 /\ Cardinality({i}) = 1
      BY FS_EmptySet, FS_Singleton
    <3> QED BY <3>2, <3>3, <3>4, <3>5
  <2> QED BY <2>1, <2>2, <2>3
<1>3. Position(i, opts.filter) \notin opts.offset..(opts.offset + opts.limit - 1)
  BY <1>1, <1>2 DEF Listed
<1>4. Position(i, opts.filter) \in Nat
  BY <1>0, PositionBelow
<1> QED BY <1>3, <1>4, NumberTypes

\* When the second List finds nothing, no matching record is past the page.
LEMMA NothingBeyond ==
    ASSUME records \in Seq(Record), NEW opts \in Options,
           opts.limit \in 1..MaxLimit, opts.offset \in 0..MaxInt,
           Listed(Beyond(opts)) = {}, NEW i \in Matching(opts.filter)
    PROVE  ~(Position(i, opts.filter) >= opts.offset + opts.limit)
<1> DEFINE past == Plus(opts.offset, opts.limit)
           from == IF past < 0 THEN 0 ELSE past
<1>1. past \in Int /\ past \in -(MaxInt + 1)..MaxInt /\ from \in Nat
      /\ from <= opts.offset + opts.limit
  BY NumberTypes DEF Plus
<1>2. 1 \in 0..MaxInt
  BY NumberTypes
<1>3. Beyond(opts) = [opts EXCEPT !.limit = 1, !.offset = past]
  BY DEF Beyond
<1> HIDE DEF past
<1>4. Beyond(opts) \in Options /\ Beyond(opts).filter = opts.filter
      /\ Beyond(opts).limit = 1 /\ Beyond(opts).offset = past
  BY <1>1, <1>2, <1>3 DEF Options
<1> DEFINE beyond == Beyond(opts)
<1>5. (IF 1 <= 0 THEN DefaultLimit ELSE IF 1 > MaxLimit THEN MaxLimit ELSE 1) = 1
  BY NumberTypes
<1>6. Normalize(beyond) = [beyond EXCEPT !.limit = 1, !.offset = from]
  BY <1>4, <1>5 DEF Normalize
<1> HIDE DEF beyond, from
<1>7. /\ Normalize(beyond).limit = 1 /\ Normalize(beyond).offset = from
      /\ Normalize(beyond).filter = opts.filter
  BY <1>4, <1>6 DEF Options, beyond
<1>8. \A j \in Matching(opts.filter) : Position(j, opts.filter) \notin from..(from + 1 - 1)
  BY <1>7 DEF Listed, beyond
<1>9. from \in from..(from + 1 - 1)
  BY <1>1
<1>10. ~(from < Cardinality(Matching(opts.filter)))
  BY <1>1, <1>8, <1>9, PositionsTaken
<1>11. /\ Position(i, opts.filter) \in Nat /\ Cardinality(Matching(opts.filter)) \in Nat
       /\ Position(i, opts.filter) < Cardinality(Matching(opts.filter))
  BY PositionBelow, MatchingFinite
<1> QED BY <1>1, <1>10, <1>11, NumberTypes

LEMMA DebtsStep ==
    ASSUME Safe, Step
    PROVE  DebtsKept'
<1> SUFFICES ASSUME store # "coarse", NEW r \in Readers, NEW new \in Reader,
                    reader'[r] = new, NEW i \in new.owed \ new.got
             PROVE  Owes(new, i)'
  BY WritersGoOn DEF DebtsKept
<1> DEFINE old == reader[r]
<1>0. /\ records \in Seq(Record) /\ old \in Reader /\ old.opts \in Options
      /\ old.pc # "idle" => /\ old.opts.limit \in 1..MaxLimit /\ old.opts.offset \in 0..MaxInt
                            /\ old.opts.offset + old.opts.limit \in Int
      /\ new.pc # "idle" => /\ new.opts.offset \in Int
                            /\ new.opts.offset + new.opts.limit \in Int
  BY AskedStep, NumberTypes DEF Safe, Typed, Asked, Reader
<1>1. \A j \in old.owed \ old.got : Owes(old, j)
  BY <1>0 DEF Safe, DebtsKept
<1>2. ASSUME Owes(new, i) PROVE Owes(new, i)'
  <2>1. /\ i \in Matching(new.opts.filter)'
        /\ Position(i, new.opts.filter) \in Nat /\ Position(i, new.opts.filter)' \in Nat
        /\ Position(i, new.opts.filter) <= Position(i, new.opts.filter)'
        /\ Tied(i) => Tied(i)'
    BY <1>2, PositionGrows DEF Owes
  <2> QED BY <1>0, <1>2, <2>1 DEF Owes
<1>3. CASE new = old
  BY <1>1, <1>2, <1>3
<1>4. CASE GoesOn(old, new)
  <2>1. Pays(old, new)
    BY <1>4 DEF GoesOn
  <2>2. CASE new.pc = "list" /\ new.opts.offset = 0 /\ new.owed = Matching(new.opts.filter)
    <3>1. i \in Matching(new.opts.filter) /\ Position(i, new.opts.filter) \in Nat
      BY <1>0, <2>2, PositionBelow
    <3> QED BY <1>2, <2>2, <3>1 DEF Owes
  <2>3. CASE /\ old.pc = "list" /\ new.pc = "peek" /\ new.page \in Pages(old.opts)
             /\ new.opts = old.opts /\ new.owed = old.owed /\ new.got = old.got
    <3>1. Owes(old, i)
      BY <1>1, <2>3
    <3>2. Tied(i) \/ i \in new.page
             \/ Position(i, old.opts.filter) >= old.opts.offset + old.opts.limit
      BY <1>0, <2>3, <3>1, PageHolds DEF Owes
    <3> QED BY <1>2, <2>3, <3>1, <3>2 DEF Owes
  <2>4. CASE /\ old.pc = "peek" /\ new.pc = "answered"
             /\ new.opts = old.opts /\ new.owed = old.owed /\ new.got = old.got \cup old.page
    <3>1. Owes(old, i) /\ i \notin old.page
      BY <1>1, <2>4
    <3>2. Tied(i) \/ Position(i, old.opts.filter) >= old.opts.offset + old.opts.limit
      BY <2>4, <3>1 DEF Owes
    <3>3. Tied(i) \/ new.hasMore
      <4>1. new.hasMore = (Listed(Beyond(old.opts)) # {})
        BY <1>4, <2>4 DEF GoesOn
      <4>2. i \in Matching(old.opts.filter)
        BY <3>1 DEF Owes
      <4> QED BY <1>0, <2>4, <3>2, <4>1, <4>2, NothingBeyond
    <3> QED BY <1>2, <2>4, <3>1, <3>2, <3>3 DEF Owes
  <2>5. CASE /\ old.pc = "answered" /\ old.hasMore /\ new.pc = "list"
             /\ new.opts.filter = old.opts.filter
             /\ new.opts.offset = old.opts.offset + old.opts.limit
             /\ new.owed = old.owed /\ new.got = old.got
    <3>1. Owes(old, i)
      BY <1>1, <2>5
    <3> QED BY <1>2, <2>5, <3>1 DEF Owes
  <2> QED BY <2>1, <2>2, <2>3, <2>4, <2>5 DEF Pays
<1> QED BY <1>3, <1>4, ReaderGoesOn

--------------------------------------------------------------------------------
(* The invariant, and what follows from it                                    *)

LEMMA SafeInit == Init => Safe
<1> SUFFICES ASSUME Init PROVE Safe
  OBVIOUS
<1>1. Idle \in Reader /\ Idle.pc = "idle"
  <2>1. [f \in Fields |-> AnyValue] \in Filter
    BY DEF Filter
  <2>2. 0 \in 0..MaxInt /\ 0 \in -(MaxInt + 1)..MaxInt
    BY NumberTypes
  <2> QED BY <2>1, <2>2 DEF Idle, Reader, Options
<1>2. Typed
  BY <1>1, NumberTypes DEF Init, Typed
<1>3. /\ \A i \in DOMAIN records : FALSE
      /\ \A w \in Writers : ~Waiting(w)
      /\ \A r \in Readers : reader[r].pc = "idle" /\ reader[r].owed = {}
  BY <1>1 DEF Init, Waiting, Idle
<1> QED BY <1>2, <1>3
        DEF Safe, Dated, IdsApart, RecordsAreDistinct, Asked, HasMoreIsTrue, DebtsKept

LEMMA SafeStep == Safe /\ [Next]_vars => Safe'
<1> SUFFICES ASSUME Safe, [Next]_vars PROVE Safe'
  OBVIOUS
<1>1. Step
  BY Shapes DEF Step
<1> QED BY <1>1, TypedStep, DatedStep, IdsApartStep, DistinctStep, AskedStep, HasMoreStep,
           DebtsStep DEF Safe

\* The inductive invariant holds in every behaviour of any number of writers and readers.
THEOREM AlwaysSafe == Spec => []Safe
<1>1. Init => Safe
  BY SafeInit
<1>2. Safe /\ [Next]_vars => Safe'
  BY SafeStep
<1> QED BY <1>1, <1>2, PTL DEF Spec

\* Every variable keeps its type, and no more is stored than was begun.
THEOREM TypeCorrect == Spec => []TypeOK
<1>1. Safe => TypeOK
  BY SafeTyped
<1> QED BY <1>1, AlwaysSafe, PTL

\* No two records in a store bear the same id, and none is dated later than now.
THEOREM RecordsAlwaysDistinct == Spec => []RecordsAreDistinct
<1>1. Safe => RecordsAreDistinct
  BY DEF Safe
<1> QED BY <1>1, AlwaysSafe, PTL

\* has_more is never answered of a page with nothing beyond it.
THEOREM HasMoreAlwaysTrue == Spec => []HasMoreIsTrue
<1>1. Safe => HasMoreIsTrue
  BY DEF Safe
<1> QED BY <1>1, AlwaysSafe, PTL

\* A reader who follows has_more to its end is given every record that matched when it
\* began, unless it ties with another in PostgreSQL.
THEOREM NothingEverMissed == Spec => []NothingMissed
<1>1. Safe => NothingMissed
  <2> SUFFICES ASSUME Safe, store # "coarse", NEW r \in Readers, reader[r].pc = "answered",
                      ~reader[r].hasMore, NEW i \in reader[r].owed \ reader[r].got
               PROVE  Tied(i)
    BY DEF NothingMissed, Tied
  <2>1. reader[r] \in Reader
    BY DEF Safe, Typed
  <2> QED BY <2>1 DEF Safe, DebtsKept, Owes
<1> QED BY <1>1, AlwaysSafe, PTL

--------------------------------------------------------------------------------
(* The refinement                                                             *)

\* A step of a store adds one record under an id that no other has, or adds none.
LEMMA TrailStep ==
    Safe /\ [Next]_vars =>
        [Trail!Next]_(IF store = "coarse" THEN {} ELSE {records[i] : i \in DOMAIN records})
<1> SUFFICES ASSUME Safe, [Next]_vars
             PROVE  [Trail!Next]_(IF store = "coarse" THEN {}
                                  ELSE {records[i] : i \in DOMAIN records})
  OBVIOUS
<1>1. Step
  BY Shapes DEF Step
<1>2. store' = store
  BY <1>1, WritersGoOn
<1> SUFFICES ASSUME store # "coarse", records' # records
             PROVE  Trail!Next
  BY <1>2
<1>3. PICK w \in Writers, new \in Record : new = writer[w] /\ Added(new)
  BY <1>1, RecordsGoOn
<1>4. records \in Seq(Record)
  BY DEF Safe, Typed
<1> DEFINE n == Len(records) + 1
<1>5. /\ DOMAIN records' = DOMAIN records \cup {n} /\ records'[n] = new
      /\ \A i \in DOMAIN records : records'[i] = records[i]
      /\ \A i \in DOMAIN records : records[i].id # new.id
  BY <1>3, <1>4, AddedDoes DEF Added
<1> HIDE DEF n
<1>6. {records'[i] : i \in DOMAIN records'} = {records[i] : i \in DOMAIN records} \cup {new}
  BY <1>5
<1>7. Trail!Add(new)
  BY <1>2, <1>5, <1>6 DEF Trail!Add
<1> QED BY <1>7 DEF Trail!Next

\* Both stores implement the audit trail, PostgreSQL unless its clock is coarse.
THEOREM StoresImplementTrail == Spec => ImplementsTrail
<1>1. Init => Trail!Init
  BY DEF Init, Trail!Init
<1>2. Safe /\ [Next]_vars =>
         [Trail!Next]_(IF store = "coarse" THEN {} ELSE {records[i] : i \in DOMAIN records})
  BY TrailStep
<1> QED BY <1>1, <1>2, AlwaysSafe, PTL DEF Spec, ImplementsTrail, Trail!Spec

================================================================================
