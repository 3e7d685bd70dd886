---------------------- MODULE PostgresApprovalStoreProofs ----------------------
(****************************************************************************)
(* Theorems about PostgresApprovalStore, for any callers, tenants, lifetime *)
(* and clock.  Typing comes first.  Then Timely, which says that every row, *)
(* stored or in a caller's hands, respects its deadline; it needs nothing   *)
(* of the clock.  Then, for a clock that gives every Create a nanosecond of *)
(* its own, what keeps a stale row from undoing a verdict.                  *)
(****************************************************************************)
EXTENDS PostgresApprovalStore, TLAPS

\* A caller under way has named a request, and a decider a verdict; and a refusal is of
\* the request that was named.
ArgumentsGiven ==
    \A c \in Callers :
        /\ pc[c] # "idle" => key[c] \in Keys
        /\ pc[c] \in {"select", "judge", "update"} => verdict[c] \in Verdict
        /\ error[c] \in {"already_decided", "expired"} => key[c] \in Keys

\* A row that bears a verdict was decided in time, and one that is expired is overdue.
InTime(request) ==
    /\ request.status \in Lifecycle!Verdicts =>
          request.decidedBy \in Actors /\ request.decidedAt <= request.expiresAt
    /\ request.status = "expired" => clock > request.expiresAt

Timely ==
    /\ \A k \in Keys : Filed(k) => InTime(requests[k])
    /\ \A c \in Callers : row[c] # NoRequest => InTime(row[c])

\* Ids in the table and in the hands of callers are of the past, and no caller inserts
\* under an id of the table or of another.
IdsApart ==
    ~coarse =>
        /\ \A k \in Keys : Filed(k) => k[2] < clock
        /\ \A c \in Callers : pc[c] = "insert" =>
              /\ key[c][2] < clock /\ ~Filed(key[c])
              /\ \A d \in Callers : pc[d] = "insert" /\ key[d] = key[c] => d = c

\* Two rows of one request: later is settled if earlier is.
Follows(later, earlier) ==
    /\ later.event = earlier.event /\ later.expiresAt = earlier.expiresAt
    /\ later.requestedAt = earlier.requestedAt
    /\ earlier.status # "pending" => later.status # "pending"

\* A row under judgement, or about to be written, is of the request it is named for;
\* and what is about to be written is settled.
RowsBelong ==
    ~coarse => \A c \in Callers :
        /\ pc[c] = "judge" =>
              Filed(key[c]) /\ Follows(requests[key[c]], row[c])
        /\ pc[c] = "update" =>
              /\ Filed(key[c]) /\ row[c].status # "pending"
              /\ row[c].event = requests[key[c]].event
              /\ row[c].expiresAt = requests[key[c]].expiresAt
              /\ row[c].requestedAt = requests[key[c]].requestedAt

\* A pending row is as it was filed.
AsFiled(request) == request.status = "pending" => request = Revisable!Asked(request)

\* One whole verdict on a request as it was filed.
Answers(answer, request) ==
    \/ \E v \in Lifecycle!Verdicts, a \in Actors, now \in Times :
          /\ ~Lifecycle!Overdue(request, now)
          /\ answer = Lifecycle!Decided(Revisable!Asked(request), v, a, now)
    \/ \E now \in Times :
          /\ Lifecycle!Overdue(request, now)
          /\ answer = Lifecycle!Expired(Revisable!Asked(request))

\* What is about to be inserted is pending, and what is about to be written back is a
\* whole verdict on the request it was read from, whatever has become of the row since.
RowsWhole ==
    /\ \A k \in Keys : Filed(k) => AsFiled(requests[k])
    /\ \A c \in Callers :
          /\ row[c] # NoRequest => AsFiled(row[c])
          /\ pc[c] = "insert" => row[c].status = "pending"
          /\ ~coarse /\ pc[c] = "update" => Answers(row[c], requests[key[c]])

Safe ==
    /\ TypeOK /\ ArgumentsGiven /\ Timely /\ IdsApart /\ RowsBelong /\ RowsWhole
    /\ ToldSettledIsSettled

--------------------------------------------------------------------------------
(* What the operators do                                                      *)

LEMMA PendingRequestType ==
    ASSUME NEW e \in Events, NEW from \in Times, NEW until \in Times
    PROVE  /\ Lifecycle!PendingRequest(e, from, until) \in Request
           /\ Lifecycle!PendingRequest(e, from, until).status = "pending"
  BY DEF Lifecycle!PendingRequest, Request, Lifecycle!Request, Lifecycle!Statuses,
         Lifecycle!Verdicts

LEMMA DecidedType ==
    ASSUME NEW r \in Request, NEW v \in Lifecycle!Verdicts, NEW a \in Actors,
           NEW now \in Times
    PROVE  /\ Lifecycle!Decided(r, v, a, now) \in Request
           /\ Lifecycle!Decided(r, v, a, now).status = v
           /\ Lifecycle!Decided(r, v, a, now).decidedBy = a
           /\ Lifecycle!Decided(r, v, a, now).decidedAt = now
           /\ Lifecycle!Decided(r, v, a, now).event = r.event
           /\ Lifecycle!Decided(r, v, a, now).expiresAt = r.expiresAt
           /\ Lifecycle!Decided(r, v, a, now).requestedAt = r.requestedAt
  BY DEF Lifecycle!Decided, Request, Lifecycle!Request, Lifecycle!Statuses,
         Lifecycle!Verdicts

LEMMA ExpiredType ==
    ASSUME NEW r \in Request
    PROVE  /\ Lifecycle!Expired(r) \in Request
           /\ Lifecycle!Expired(r).status = "expired"
           /\ Lifecycle!Expired(r).event = r.event
           /\ Lifecycle!Expired(r).expiresAt = r.expiresAt
           /\ Lifecycle!Expired(r).requestedAt = r.requestedAt
  BY DEF Lifecycle!Expired, Request, Lifecycle!Request, Lifecycle!Statuses,
         Lifecycle!Verdicts

LEMMA ClockInTimes == clock \in 0..MaxTime => clock \in Times /\ clock + TTL \in Times
  BY ConstantsAssumption DEF Times

LEMMA FiledType ==
    ASSUME TypeOK, NEW k \in Keys, Filed(k)
    PROVE  requests[k] \in Request
  BY DEF TypeOK, Filed

\* A step of c is a step of c alone.
Alone(c) ==
    \A d \in Callers \ {c} :
        /\ pc'[d] = pc[d] /\ key'[d] = key[d] /\ verdict'[d] = verdict[d]
        /\ row'[d] = row[d] /\ error'[d] = error[d] /\ seen'[d] = seen[d]

LEMMA BeginsDoes ==
    ASSUME TypeOK, NEW c \in Callers, NEW label, NEW k, NEW v, NEW r,
           Begins(c, label, k, v, r)
    PROVE  /\ Alone(c) /\ pc[c] = "idle"
           /\ pc'[c] = label /\ key'[c] = k /\ verdict'[c] = v /\ row'[c] = r
           /\ error'[c] = "none" /\ seen'[c] = {}
  BY DEF TypeOK, Begins, Goto, Alone

LEMMA ReturnsDoes ==
    ASSUME TypeOK, NEW c \in Callers, NEW err, NEW entries, Returns(c, err, entries),
           \A d \in Callers \ {c} : key'[d] = key[d]
    PROVE  /\ Alone(c)
           /\ pc'[c] = "idle" /\ verdict'[c] = NoArg /\ row'[c] = NoRequest
           /\ error'[c] = err /\ seen'[c] = entries
  BY DEF TypeOK, Returns, Goto, Alone

\* Between its statements Decide takes the row on.
LEMMA GoesOnDoes ==
    ASSUME TypeOK, NEW c \in Callers, NEW label, NEW r,
           Goto(c, label), row' = [row EXCEPT ![c] = r],
           UNCHANGED <<key, verdict, error, seen>>
    PROVE  Alone(c) /\ pc'[c] = label /\ row'[c] = r
  BY DEF TypeOK, Goto, Alone

LEMMA UpsertDoes ==
    ASSUME TypeOK, NEW c \in Callers, key[c] \in Keys, row[c] \in Request, Upsert(c)
    PROVE  /\ requests' \in [Keys -> Request \cup {NoRequest}]
           /\ requests'[key[c]] = row[c] /\ row[c] # NoRequest
           /\ \A k \in Keys : k # key[c] => requests'[k] = requests[k]
  BY PlaceholderAssumption DEF TypeOK, Upsert

--------------------------------------------------------------------------------
(* Typing                                                                     *)

LEMMA BeginsTyped ==
    ASSUME TypeOK, NEW c \in Callers, NEW label, NEW k \in Keys, NEW v, NEW r,
           \/ label = "insert" /\ r \in Request /\ v = NoArg
           \/ label = "select" /\ v \in Verdict /\ r = NoRequest,
           Begins(c, label, k, v, r),
           clock' \in 0..MaxTime, UNCHANGED <<coarse, requests>>
    PROVE  TypeOK'
  BY DEF TypeOK, Begins, Goto, Errors

LEMMA ReturnsTyped ==
    ASSUME TypeOK, NEW c \in Callers, NEW err \in Errors, NEW entries \in SUBSET Entry,
           Returns(c, err, entries),
           \/ key' = key
           \/ \E k \in Keys \cup {NoKey} : key' = [key EXCEPT ![c] = k],
           requests' \in [Keys -> Request \cup {NoRequest}],
           UNCHANGED <<coarse, clock>>
    PROVE  TypeOK'
  BY DEF TypeOK, Returns, Goto

LEMMA GoesOnTyped ==
    ASSUME TypeOK, NEW c \in Callers, NEW label \in {"judge", "update"},
           NEW r \in Request, Goto(c, label), row' = [row EXCEPT ![c] = r],
           UNCHANGED <<coarse, clock, requests, key, verdict, error, seen>>
    PROVE  TypeOK'
  BY DEF TypeOK, Goto

LEMMA EntryType ==
    ASSUME NEW k \in Keys, NEW r \in Request
    PROVE  [key |-> k, request |-> r] \in Entry
  BY DEF Entry

\* What JudgePending makes of the row.
Judged(c) ==
    IF Lifecycle!Overdue(row[c], clock) THEN Lifecycle!Expired(row[c])
    ELSE Lifecycle!Decided(row[c], verdict[c].status, verdict[c].actor, clock)

LEMMA JudgedType ==
    ASSUME TypeOK, ArgumentsGiven, NEW c \in Callers, JudgePending(c)
    PROVE  /\ row[c] \in Request /\ Judged(c) \in Request
           /\ Judged(c).event = row[c].event /\ Judged(c).expiresAt = row[c].expiresAt
           /\ Judged(c).requestedAt = row[c].requestedAt
           /\ Judged(c).status \in Lifecycle!Verdicts =>
                 Judged(c).decidedBy \in Actors /\ Judged(c).decidedAt <= row[c].expiresAt
           /\ Judged(c).status = "expired" => clock > row[c].expiresAt
           /\ Judged(c).status # "pending"
<1>1. row[c] \in Request /\ verdict[c] \in Verdict
  BY DEF TypeOK, ArgumentsGiven, JudgePending
<1>2. verdict[c].status \in Lifecycle!Verdicts /\ verdict[c].actor \in Actors
  BY <1>1 DEF JudgePending, Verdict
<1>3. clock \in Times /\ clock \in Int /\ row[c].expiresAt \in Int
  BY <1>1, ClockInTimes, ConstantsAssumption
  DEF TypeOK, Request, Lifecycle!Request, Times
<1>4. CASE Lifecycle!Overdue(row[c], clock)
  <2>1. Judged(c) = Lifecycle!Expired(row[c]) /\ clock > row[c].expiresAt
    BY <1>4 DEF Judged, Lifecycle!Overdue
  <2> QED BY <1>1, <2>1, ExpiredType DEF Lifecycle!Verdicts
<1>5. CASE ~Lifecycle!Overdue(row[c], clock)
  <2>1. Judged(c) = Lifecycle!Decided(row[c], verdict[c].status, verdict[c].actor, clock)
    BY <1>5 DEF Judged
  <2>2. clock <= row[c].expiresAt
    BY <1>3, <1>5 DEF Lifecycle!Overdue
  <2> QED BY <1>1, <1>2, <1>3, <2>1, <2>2, DecidedType DEF Lifecycle!Verdicts
<1> QED BY <1>4, <1>5

LEMMA JudgePendingDoes ==
    ASSUME TypeOK, NEW c \in Callers, JudgePending(c)
    PROVE  /\ Goto(c, "update") /\ row' = [row EXCEPT ![c] = Judged(c)]
           /\ UNCHANGED <<coarse, clock, requests, key, verdict, error, seen>>
           /\ pc[c] = "judge"
  BY DEF TypeOK, JudgePending, Judged

LEMMA ListedEntries ==
    ASSUME TypeOK, NEW t \in Tenants, NEW kept \in SUBSET Listable(t)
    PROVE  /\ {[key |-> k, request |-> requests[k]] : k \in kept} \in SUBSET Entry
           /\ \A entry \in {[key |-> k, request |-> requests[k]] : k \in kept} :
                 Filed(entry.key) /\ requests[entry.key] = entry.request
  BY FiledType, EntryType DEF Listable

LEMMA TypeInit == Init => TypeOK
  BY ConstantsAssumption DEF Init, TypeOK, Errors

LEMMA TypeStep == TypeOK /\ ArgumentsGiven /\ [Next]_vars => TypeOK'
<1> SUFFICES ASSUME TypeOK, ArgumentsGiven, [Next]_vars PROVE TypeOK'
  OBVIOUS
<1>0. {} \in SUBSET Entry /\ requests \in [Keys -> Request \cup {NoRequest}]
  BY DEF TypeOK
<1>1. CASE UNCHANGED vars
  BY <1>1 DEF TypeOK, vars
<1>2. CASE Tick
  BY <1>2, ConstantsAssumption DEF TypeOK, Tick
<1>3. ASSUME NEW c \in Callers, NEW t \in Tenants, NEW e \in Events, BeginCreate(c, t, e)
      PROVE  TypeOK'
  <2> DEFINE k == <<t, clock>>
             r == Lifecycle!PendingRequest(e, clock, clock + TTL)
  <2>1. clock \in 0..MaxTime /\ clock' \in 0..MaxTime
    BY <1>3, ConstantsAssumption DEF TypeOK, BeginCreate
  <2>2. k \in Keys /\ r \in Request
    BY <2>1, ClockInTimes, PendingRequestType DEF Keys, Ids
  <2>3. Begins(c, "insert", k, NoArg, r) /\ UNCHANGED <<coarse, requests>>
    BY <1>3 DEF BeginCreate
  <2> HIDE DEF k, r
  <2> QED BY <2>1, <2>2, <2>3, BeginsTyped
<1>4. ASSUME NEW c \in Callers, NEW k \in Keys,
             NEW v \in Lifecycle!Verdicts \cup {"invalid"}, NEW a \in Actors,
             BeginDecide(c, k, v, a)
      PROVE  TypeOK'
  <2> DEFINE order == [status |-> v, actor |-> a]
  <2>1. order \in Verdict
    BY DEF Verdict
  <2>2. Begins(c, "select", k, order, NoRequest) /\ UNCHANGED <<coarse, clock, requests>>
    BY <1>4 DEF BeginDecide
  <2>3. clock' \in 0..MaxTime
    BY <2>2 DEF TypeOK
  <2> HIDE DEF order
  <2> QED BY <2>1, <2>2, <2>3, BeginsTyped
<1>5. ASSUME NEW c \in Callers, Insert(c) PROVE TypeOK'
  <2>1. key[c] \in Keys /\ row[c] \in Request
    BY <1>5 DEF TypeOK, ArgumentsGiven, Insert
  <2>2. {[key |-> key[c], request |-> row[c]]} \in SUBSET Entry /\ "none" \in Errors
    BY <2>1, EntryType DEF Errors
  <2> QED BY <1>5, <2>1, <2>2, UpsertDoes, ReturnsTyped DEF Insert
<1>6. ASSUME NEW c \in Callers, DecideSelect(c) PROVE TypeOK'
  <2>1. CASE ~Filed(key[c]) /\ Returns(c, "not_found", {})
    <3>1. "not_found" \in Errors
      BY DEF Errors
    <3> QED BY <1>0, <1>6, <2>1, <3>1, ReturnsTyped DEF DecideSelect
  <2>2. CASE Filed(key[c]) /\ Goto(c, "judge") /\ row' = [row EXCEPT ![c] = requests[key[c]]]
             /\ UNCHANGED <<verdict, error, seen>>
    <3>1. requests[key[c]] \in Request
      BY <1>6, <2>2, FiledType DEF ArgumentsGiven, DecideSelect
    <3> QED BY <1>6, <2>2, <3>1, GoesOnTyped DEF DecideSelect
  <2> QED BY <1>6, <2>1, <2>2 DEF DecideSelect
<1>7. ASSUME NEW c \in Callers, JudgeInvalid(c) \/ JudgeSettled(c) PROVE TypeOK'
  <2>1. {"invalid_decision", "already_decided"} \subseteq Errors
    BY DEF Errors
  <2> QED BY <1>0, <1>7, <2>1, ReturnsTyped DEF JudgeInvalid, JudgeSettled
<1>8. ASSUME NEW c \in Callers, JudgePending(c) PROVE TypeOK'
  BY <1>8, JudgedType, JudgePendingDoes, GoesOnTyped
<1>9. ASSUME NEW c \in Callers, DecideUpdate(c) PROVE TypeOK'
  <2>1. key[c] \in Keys /\ row[c] \in Request
    BY <1>9 DEF TypeOK, ArgumentsGiven, DecideUpdate
  <2>2. {[key |-> key[c], request |-> row[c]]} \in SUBSET Entry
        /\ {"none", "expired"} \subseteq Errors
    BY <2>1, EntryType DEF Errors
  <2> QED BY <1>0, <1>9, <2>1, <2>2, UpsertDoes, ReturnsTyped DEF DecideUpdate
<1>10. ASSUME NEW c \in Callers, StatementFails(c) PROVE TypeOK'
  <2>1. requests' \in [Keys -> Request \cup {NoRequest}]
    <3>1. pc[c] \in {"insert", "update"} => key[c] \in Keys /\ row[c] \in Request
      BY DEF TypeOK, ArgumentsGiven
    <3> QED BY <1>0, <1>10, <3>1, UpsertDoes DEF StatementFails
  <2>2. "db" \in Errors
    BY DEF Errors
  <2> QED BY <1>0, <1>10, <2>1, <2>2, ReturnsTyped DEF StatementFails
<1>11. ASSUME NEW c \in Callers, NEW k \in Keys, Get(c, k) PROVE TypeOK'
  <2>1. {"none", "not_found", "db"} \subseteq Errors
    BY DEF Errors
  <2>2. Filed(k) => {[key |-> k, request |-> requests[k]]} \in SUBSET Entry
    BY FiledType, EntryType
  <2> QED BY <1>0, <1>11, <2>1, <2>2, ReturnsTyped DEF Get
<1>12. ASSUME NEW c \in Callers, NEW t \in Tenants, List(c, t) PROVE TypeOK'
  <2>1. {"none", "db"} \subseteq Errors
    BY DEF Errors
  <2>2. key' = [key EXCEPT ![c] = NoKey] /\ UNCHANGED <<coarse, clock, requests>>
    BY <1>12 DEF List
  <2>3. \/ Returns(c, "db", {})
        \/ \E kept \in SUBSET Listable(t) :
              Returns(c, "none", {[key |-> k, request |-> requests[k]] : k \in kept})
    BY <1>12 DEF List
  <2> QED BY <1>0, <2>1, <2>2, <2>3, ListedEntries, ReturnsTyped
<1> QED
  BY <1>1, <1>2, <1>3, <1>4, <1>5, <1>6, <1>7, <1>8, <1>9, <1>10, <1>11, <1>12
  DEF Next, Call, Decide, Judge

--------------------------------------------------------------------------------
(* The shapes of a step                                                       *)

\* A call of c begins.
Starts(c) ==
    /\ Alone(c) /\ pc[c] = "idle" /\ UNCHANGED <<coarse, requests>>
    /\ error'[c] = "none" /\ seen'[c] = {}
    /\ \/ /\ \E t \in Tenants : key'[c] = <<t, clock>>
          /\ pc'[c] = "insert" /\ row'[c].status = "pending" /\ AsFiled(row'[c])
          /\ clock' \in {clock, clock + 1} /\ (~coarse => clock' = clock + 1)
       \/ /\ key'[c] \in Keys /\ verdict'[c] \in Verdict
          /\ pc'[c] = "select" /\ row'[c] = NoRequest /\ clock' = clock

\* A call of c returns without a write: what it shows is in the table.
Quits(c) ==
    /\ Alone(c) /\ UNCHANGED <<coarse, clock, requests>>
    /\ pc'[c] = "idle" /\ row'[c] = NoRequest
    /\ \A entry \in seen'[c] : Filed(entry.key) /\ requests[entry.key] = entry.request
    /\ error'[c] = "already_decided" =>
          pc[c] = "judge" /\ row[c].status # "pending" /\ key'[c] = key[c]
    /\ error'[c] # "expired"

\* A call of c writes its row, and returns.
Writes(c) ==
    /\ Alone(c) /\ UNCHANGED <<coarse, clock>>
    /\ pc[c] \in {"insert", "update"} /\ Upsert(c)
    /\ pc'[c] = "idle" /\ row'[c] = NoRequest /\ key'[c] = key[c]
    /\ \A entry \in seen'[c] : entry = [key |-> key[c], request |-> row[c]]
    /\ error'[c] = "expired" => pc[c] = "update"
    /\ error'[c] # "already_decided"

\* Decide goes on to its next statement.
GoesOn(c) ==
    /\ Alone(c) /\ UNCHANGED <<coarse, clock, requests, key, verdict, error, seen>>
    /\ \/ /\ pc[c] = "select" /\ Filed(key[c])
          /\ pc'[c] = "judge" /\ row'[c] = requests[key[c]]
       \/ /\ pc[c] = "judge" /\ JudgePending(c)
          /\ pc'[c] = "update" /\ row'[c] = Judged(c)

LEMMA Shapes ==
    ASSUME TypeOK, ArgumentsGiven, [Next]_vars
    PROVE  \/ UNCHANGED vars
           \/ Tick
           \/ \E c \in Callers : Starts(c) \/ Quits(c) \/ Writes(c) \/ GoesOn(c)
<1>1. ASSUME NEW c \in Callers, NEW t \in Tenants, NEW e \in Events, BeginCreate(c, t, e)
      PROVE  Starts(c)
  <2> DEFINE r == Lifecycle!PendingRequest(e, clock, clock + TTL)
  <2>1. r.status = "pending" /\ AsFiled(r)
    BY DEF Lifecycle!PendingRequest, AsFiled, Revisable!Asked, Revisable!PendingRequest
  <2>2. Begins(c, "insert", <<t, clock>>, NoArg, r)
    BY <1>1 DEF BeginCreate
  <2> HIDE DEF r
  <2> QED BY <1>1, <2>1, <2>2, BeginsDoes DEF Starts, BeginCreate
<1>2. ASSUME NEW c \in Callers, NEW k \in Keys,
             NEW v \in Lifecycle!Verdicts \cup {"invalid"}, NEW a \in Actors,
             BeginDecide(c, k, v, a)
      PROVE  Starts(c)
  <2> DEFINE order == [status |-> v, actor |-> a]
  <2>1. order \in Verdict
    BY DEF Verdict
  <2>2. Begins(c, "select", k, order, NoRequest)
    BY <1>2 DEF BeginDecide
  <2> HIDE DEF order
  <2> QED BY <1>2, <2>1, <2>2, BeginsDoes DEF Starts, BeginDecide
<1>3. ASSUME NEW c \in Callers, Insert(c) PROVE Writes(c)
  BY <1>3, ReturnsDoes DEF Insert, Writes
<1>4. ASSUME NEW c \in Callers, DecideSelect(c) PROVE Quits(c) \/ GoesOn(c)
  <2>1. CASE Returns(c, "not_found", {})
    BY <1>4, <2>1, ReturnsDoes DEF DecideSelect, Quits
  <2>2. CASE Filed(key[c]) /\ Goto(c, "judge") /\ row' = [row EXCEPT ![c] = requests[key[c]]]
             /\ UNCHANGED <<verdict, error, seen>>
    <3>1. pc[c] = "select" /\ UNCHANGED <<coarse, clock, requests, key>>
      BY <1>4 DEF DecideSelect
    <3>2. Alone(c) /\ pc'[c] = "judge" /\ row'[c] = requests[key[c]]
      BY <2>2, <3>1, GoesOnDoes
    <3> QED BY <2>2, <3>1, <3>2 DEF GoesOn
  <2> QED BY <1>4, <2>1, <2>2 DEF DecideSelect
<1>5. ASSUME NEW c \in Callers, JudgeInvalid(c) \/ JudgeSettled(c) PROVE Quits(c)
  <2>1. CASE JudgeInvalid(c)
    BY <2>1, ReturnsDoes DEF JudgeInvalid, Quits
  <2>2. CASE JudgeSettled(c)
    BY <2>2, ReturnsDoes DEF JudgeSettled, Quits
  <2> QED BY <1>5, <2>1, <2>2
<1>6. ASSUME NEW c \in Callers, JudgePending(c) PROVE GoesOn(c)
  <2>1. /\ Goto(c, "update") /\ row' = [row EXCEPT ![c] = Judged(c)] /\ pc[c] = "judge"
        /\ UNCHANGED <<coarse, clock, requests, key, verdict, error, seen>>
    BY <1>6, JudgePendingDoes
  <2>2. Alone(c) /\ pc'[c] = "update" /\ row'[c] = Judged(c)
    BY <2>1, GoesOnDoes
  <2> QED BY <1>6, <2>1, <2>2 DEF GoesOn
<1>7. ASSUME NEW c \in Callers, DecideUpdate(c) PROVE Writes(c)
  <2>1. CASE Returns(c, "expired", {})
    BY <1>7, <2>1, ReturnsDoes DEF DecideUpdate, Writes
  <2>2. CASE Returns(c, "none", {[key |-> key[c], request |-> row[c]]})
    BY <1>7, <2>2, ReturnsDoes DEF DecideUpdate, Writes
  <2> QED BY <1>7, <2>1, <2>2 DEF DecideUpdate
<1>8. ASSUME NEW c \in Callers, StatementFails(c) PROVE Quits(c) \/ Writes(c)
  <2>1. Returns(c, "db", {}) /\ UNCHANGED <<coarse, clock, key>>
    BY <1>8 DEF StatementFails
  <2>2. CASE UNCHANGED requests
    BY <2>1, <2>2, ReturnsDoes DEF Quits
  <2>3. CASE pc[c] # "select" /\ Upsert(c)
    BY <1>8, <2>1, <2>3, ReturnsDoes DEF Writes, StatementFails
  <2> QED BY <1>8, <2>2, <2>3 DEF StatementFails
<1>9. ASSUME NEW c \in Callers, NEW k \in Keys, Get(c, k) PROVE Quits(c)
  <2>1. /\ \A d \in Callers \ {c} : key'[d] = key[d]
        /\ UNCHANGED <<coarse, clock, requests>>
    BY <1>9 DEF TypeOK, Get
  <2>2. CASE Filed(k) /\ Returns(c, "none", {[key |-> k, request |-> requests[k]]})
    BY <2>1, <2>2, ReturnsDoes DEF Quits
  <2>3. CASE Returns(c, "not_found", {}) \/ Returns(c, "db", {})
    BY <2>1, <2>3, ReturnsDoes DEF Quits
  <2> QED BY <1>9, <2>2, <2>3 DEF Get
<1>10. ASSUME NEW c \in Callers, NEW t \in Tenants, List(c, t) PROVE Quits(c)
  <2>1. /\ \A d \in Callers \ {c} : key'[d] = key[d]
        /\ UNCHANGED <<coarse, clock, requests>>
    BY <1>10 DEF TypeOK, List
  <2>2. CASE Returns(c, "db", {})
    BY <2>1, <2>2, ReturnsDoes DEF Quits
  <2>3. ASSUME NEW kept \in SUBSET Listable(t),
               Returns(c, "none", {[key |-> k, request |-> requests[k]] : k \in kept})
        PROVE  Quits(c)
    <3> DEFINE entries == {[key |-> k, request |-> requests[k]] : k \in kept}
    <3>1. \A entry \in entries : Filed(entry.key) /\ requests[entry.key] = entry.request
      BY ListedEntries
    <3>2. Returns(c, "none", entries)
      BY <2>3
    <3> HIDE DEF entries
    <3> QED BY <2>1, <3>1, <3>2, ReturnsDoes DEF Quits
  <2> QED BY <1>10, <2>2, <2>3 DEF List
<1> QED
  BY <1>1, <1>2, <1>3, <1>4, <1>5, <1>6, <1>7, <1>8, <1>9, <1>10
  DEF Next, Call, Decide, Judge

LEMMA ArgumentsStep ==
    TypeOK /\ ArgumentsGiven /\ [Next]_vars => ArgumentsGiven'
<1> SUFFICES ASSUME TypeOK, ArgumentsGiven, [Next]_vars PROVE ArgumentsGiven'
  OBVIOUS
<1>1. CASE UNCHANGED vars \/ Tick
  BY <1>1 DEF ArgumentsGiven, Tick, vars
<1>2. ASSUME NEW c \in Callers, Starts(c) PROVE ArgumentsGiven'
  <2>1. \A t \in Tenants : <<t, clock>> \in Keys
    BY DEF TypeOK, Keys, Ids
  <2> QED BY <1>2, <2>1 DEF ArgumentsGiven, Starts, Alone
<1>3. ASSUME NEW c \in Callers, Quits(c) \/ Writes(c) PROVE ArgumentsGiven'
  BY <1>3 DEF ArgumentsGiven, Quits, Writes, Alone
<1>4. ASSUME NEW c \in Callers, GoesOn(c) PROVE ArgumentsGiven'
  BY <1>4 DEF ArgumentsGiven, GoesOn, Alone
<1> QED BY <1>1, <1>2, <1>3, <1>4, Shapes

\* The clock only moves on, so what was in time stays so.
LEMMA StaysInTime ==
    ASSUME TypeOK, NEW r \in Request, InTime(r), clock' \in {clock, clock + 1}
    PROVE  InTime(r)'
<1>1. clock \in Int /\ r.expiresAt \in Int
  BY ConstantsAssumption DEF TypeOK, Request, Lifecycle!Request, Times
<1> QED BY <1>1 DEF InTime

LEMMA TimelyStep ==
    TypeOK /\ ArgumentsGiven /\ Timely /\ [Next]_vars => Timely'
<1> SUFFICES ASSUME TypeOK, ArgumentsGiven, Timely, [Next]_vars PROVE Timely'
  OBVIOUS
<1>1. clock' \in {clock, clock + 1} =>
        /\ \A k \in Keys : Filed(k) => InTime(requests[k])'
              \/ requests'[k] # requests[k]
        /\ \A d \in Callers : row[d] # NoRequest => InTime(row[d])' \/ row'[d] # row[d]
  <2>1. \A r \in Request : InTime(r) /\ clock' \in {clock, clock + 1} => InTime(r)'
    BY StaysInTime
  <2> QED BY <2>1 DEF Timely, TypeOK, Filed, InTime
<1>2. CASE UNCHANGED vars \/ Tick
  BY <1>1, <1>2 DEF Timely, Tick, vars, Filed
<1>3. ASSUME NEW c \in Callers, Starts(c) PROVE Timely'
  <2>1. row'[c] # NoRequest => InTime(row[c])'
    BY <1>3 DEF Starts, InTime, Lifecycle!Verdicts
  <2> QED BY <1>1, <1>3, <2>1 DEF Timely, Starts, Alone, Filed
<1>4. ASSUME NEW c \in Callers, Quits(c) PROVE Timely'
  BY <1>1, <1>4 DEF Timely, Quits, Alone, Filed
<1>5. ASSUME NEW c \in Callers, Writes(c) PROVE Timely'
  <2>1. key[c] \in Keys /\ row[c] \in Request
    BY <1>5 DEF TypeOK, ArgumentsGiven, Writes
  <2>2. /\ requests'[key[c]] = row[c] /\ row[c] # NoRequest
        /\ \A k \in Keys : k # key[c] => requests'[k] = requests[k]
    BY <1>5, <2>1, UpsertDoes DEF Writes
  <2>3. clock' = clock
    BY <1>5 DEF Writes
  <2>4. \A k \in Keys : k = key[c] => InTime(requests[k])'
    BY <2>2, <2>3 DEF Timely, InTime
  <2> QED BY <1>1, <1>5, <2>2, <2>3, <2>4 DEF Timely, Writes, Alone, Filed
<1>6. ASSUME NEW c \in Callers, GoesOn(c) PROVE Timely'
  <2>1. InTime(row[c])'
    <3>1. CASE Filed(key[c]) /\ row'[c] = requests[key[c]] /\ pc[c] = "select"
      BY <1>6, <3>1 DEF Timely, ArgumentsGiven, GoesOn, InTime
    <3>2. CASE JudgePending(c) /\ row'[c] = Judged(c)
      BY <1>6, <3>2, JudgedType DEF GoesOn, InTime
    <3> QED BY <1>6, <3>1, <3>2 DEF GoesOn
  <2> QED BY <1>1, <1>6, <2>1 DEF Timely, GoesOn, Alone, Filed
<1> QED BY <1>2, <1>3, <1>4, <1>5, <1>6, Shapes

--------------------------------------------------------------------------------
(* A clock that gives every Create a nanosecond of its own                    *)

LEMMA IdIsNumber ==
    ASSUME NEW k \in Keys
    PROVE  k[2] \in Int
  BY ConstantsAssumption DEF Keys, Ids

LEMMA IdsStep ==
    TypeOK /\ ArgumentsGiven /\ IdsApart /\ RowsBelong /\ [Next]_vars => IdsApart'
<1> SUFFICES ASSUME TypeOK, ArgumentsGiven, IdsApart, RowsBelong, [Next]_vars, ~coarse'
             PROVE  /\ \A k \in Keys : Filed(k)' => k[2] < clock'
                    /\ \A c \in Callers : pc'[c] = "insert" =>
                          /\ key'[c][2] < clock' /\ requests'[key'[c]] = NoRequest
                          /\ \A d \in Callers : pc'[d] = "insert" /\ key'[d] = key'[c] => d = c
  BY DEF IdsApart, Filed
<1>0. ~coarse
  BY Shapes DEF vars, Tick, Starts, Quits, Writes, GoesOn
<1>1. /\ \A k \in Keys : Filed(k) => k[2] < clock
      /\ \A c \in Callers : pc[c] = "insert" =>
            /\ key[c] \in Keys /\ key[c][2] < clock /\ ~Filed(key[c])
            /\ \A d \in Callers : pc[d] = "insert" /\ key[d] = key[c] => d = c
  BY <1>0 DEF IdsApart, ArgumentsGiven
<1>2. clock \in Int
  BY ConstantsAssumption DEF TypeOK
<1>3. CASE UNCHANGED vars \/ Tick
  BY <1>1, <1>2, <1>3, IdIsNumber DEF Tick, vars, Filed
<1>4. ASSUME NEW c \in Callers, Starts(c)
      PROVE  /\ \A k \in Keys : Filed(k)' => k[2] < clock'
             /\ \A b \in Callers : pc'[b] = "insert" =>
                   /\ key'[b][2] < clock' /\ requests'[key'[b]] = NoRequest
                   /\ \A d \in Callers : pc'[d] = "insert" /\ key'[d] = key'[b] => d = b
  <2>1. UNCHANGED requests /\ Alone(c) /\ clock' \in {clock, clock + 1}
    BY <1>4 DEF Starts
  <2>2. \A k \in Keys : Filed(k)' => k[2] < clock'
    BY <1>1, <1>2, <2>1, IdIsNumber DEF Filed
  <2>3. \A b \in Callers \ {c} : pc'[b] = "insert" =>
           /\ pc[b] = "insert" /\ key'[b] = key[b] /\ key'[b][2] < clock' /\ requests'[key'[b]] = NoRequest
    BY <1>1, <1>2, <2>1, IdIsNumber DEF Alone, Filed
  <2>4. pc'[c] = "insert" => key'[c][2] = clock /\ clock' = clock + 1
    BY <1>0, <1>4 DEF Starts
  <2>5. pc'[c] = "insert" =>
           /\ key'[c][2] < clock' /\ requests'[key'[c]] = NoRequest
           /\ \A b \in Callers \ {c} : pc'[b] = "insert" => key'[b] # key'[c]
    <3> SUFFICES ASSUME pc'[c] = "insert"
                 PROVE  /\ key'[c][2] < clock' /\ requests'[key'[c]] = NoRequest
                        /\ \A b \in Callers \ {c} : pc'[b] = "insert" => key'[b] # key'[c]
      OBVIOUS
    <3>1. key'[c] \in Keys
      BY <1>4, <1>2 DEF Starts, TypeOK, Keys, Ids
    <3>2. ~Filed(key'[c])
      BY <1>1, <1>2, <2>4, <3>1
    <3>3. \A b \in Callers \ {c} : pc'[b] = "insert" => key'[b] # key'[c]
      BY <1>1, <1>2, <2>3, <2>4
    <3> QED BY <1>2, <2>1, <2>4, <3>2, <3>3 DEF Filed
  <2> QED BY <1>1, <2>2, <2>3, <2>5
<1>5. ASSUME NEW c \in Callers, Quits(c) \/ GoesOn(c)
      PROVE  /\ \A k \in Keys : Filed(k)' => k[2] < clock'
             /\ \A b \in Callers : pc'[b] = "insert" =>
                   /\ key'[b][2] < clock' /\ requests'[key'[b]] = NoRequest
                   /\ \A d \in Callers : pc'[d] = "insert" /\ key'[d] = key'[b] => d = b
  <2>1. UNCHANGED <<clock, requests>> /\ Alone(c) /\ pc'[c] # "insert"
    BY <1>5 DEF Quits, GoesOn
  <2> QED BY <1>1, <2>1 DEF Alone, Filed
<1>6. ASSUME NEW c \in Callers, Writes(c)
      PROVE  /\ \A k \in Keys : Filed(k)' => k[2] < clock'
             /\ \A b \in Callers : pc'[b] = "insert" =>
                   /\ key'[b][2] < clock' /\ requests'[key'[b]] = NoRequest
                   /\ \A d \in Callers : pc'[d] = "insert" /\ key'[d] = key'[b] => d = b
  <2>1. /\ clock' = clock /\ Alone(c) /\ pc'[c] # "insert" /\ pc[c] \in {"insert", "update"}
        /\ key[c] \in Keys /\ row[c] \in Request
    BY <1>6 DEF Writes, TypeOK, ArgumentsGiven
  <2>2. \A k \in Keys : k # key[c] => requests'[k] = requests[k]
    BY <1>6, <2>1, UpsertDoes DEF Writes
  <2>3. key[c][2] < clock
    <3>1. pc[c] = "update" => Filed(key[c])
      BY <1>0 DEF RowsBelong
    <3> QED BY <1>1, <2>1, <3>1
  <2>4. \A b \in Callers \ {c} : pc[b] = "insert" => key[b] # key[c]
    <3>1. pc[c] = "update" => Filed(key[c])
      BY <1>0 DEF RowsBelong
    <3> QED BY <1>1, <2>1, <3>1
  <2>5. \A k \in Keys : Filed(k)' => k[2] < clock'
    BY <1>1, <2>1, <2>2, <2>3 DEF Filed
  <2>6. \A b \in Callers : pc'[b] = "insert" =>
           b # c /\ pc[b] = "insert" /\ key'[b] = key[b] /\ key[b] # key[c]
    BY <2>1, <2>4 DEF Alone
  <2> QED BY <1>1, <2>1, <2>2, <2>5, <2>6 DEF Filed
<1> QED BY <1>3, <1>4, <1>5, <1>6, Shapes

\* What NeverReopened says of a step.
Onward ==
    ~coarse => \A k \in Keys : Filed(k) =>
        /\ requests'[k] # NoRequest /\ Follows(requests'[k], requests[k])

LEMMA OnwardStep ==
    TypeOK /\ ArgumentsGiven /\ IdsApart /\ RowsBelong /\ [Next]_vars => Onward
<1> SUFFICES ASSUME TypeOK, ArgumentsGiven, IdsApart, RowsBelong, [Next]_vars, ~coarse,
                    NEW k \in Keys, Filed(k)
             PROVE  requests'[k] # NoRequest /\ Follows(requests'[k], requests[k])
  BY DEF Onward
<1>1. CASE UNCHANGED requests
  BY <1>1 DEF Filed, Follows
<1>2. ASSUME NEW c \in Callers, Writes(c)
      PROVE  requests'[k] # NoRequest /\ Follows(requests'[k], requests[k])
  <2>1. /\ pc[c] \in {"insert", "update"} /\ key[c] \in Keys /\ row[c] \in Request
    BY <1>2 DEF Writes, TypeOK, ArgumentsGiven
  <2>2. /\ requests'[key[c]] = row[c] /\ row[c] # NoRequest
        /\ k # key[c] => requests'[k] = requests[k]
    BY <1>2, <2>1, UpsertDoes DEF Writes
  <2>3. k = key[c] => pc[c] = "update"
    BY <2>1 DEF IdsApart
  <2> QED BY <2>2, <2>3 DEF RowsBelong, Follows, Filed
<1> QED BY <1>1, <1>2, Shapes DEF vars, Tick, Starts, Quits, GoesOn

LEMMA RowsStep ==
    TypeOK /\ ArgumentsGiven /\ IdsApart /\ RowsBelong /\ [Next]_vars => RowsBelong'
<1> DEFINE Belongs(c) ==
        /\ pc[c] = "judge" => Filed(key[c]) /\ Follows(requests[key[c]], row[c])
        /\ pc[c] = "update" =>
              /\ Filed(key[c]) /\ row[c].status # "pending"
              /\ row[c].event = requests[key[c]].event
              /\ row[c].expiresAt = requests[key[c]].expiresAt
              /\ row[c].requestedAt = requests[key[c]].requestedAt
<1> SUFFICES ASSUME TypeOK, ArgumentsGiven, IdsApart, RowsBelong, [Next]_vars, ~coarse',
                    NEW d \in Callers
             PROVE  Belongs(d)'
  BY DEF RowsBelong
<1>0. ~coarse
  BY Shapes DEF vars, Tick, Starts, Quits, Writes, GoesOn
<1>1. Belongs(d) /\ (pc[d] \in {"judge", "update"} => key[d] \in Keys)
  BY <1>0 DEF RowsBelong, ArgumentsGiven
<1>2. \A k \in Keys : Filed(k) =>
         requests'[k] # NoRequest /\ Follows(requests'[k], requests[k])
  BY <1>0, OnwardStep DEF Onward
<1>3. CASE pc'[d] = pc[d] /\ key'[d] = key[d] /\ row'[d] = row[d]
  BY <1>1, <1>2, <1>3 DEF Filed, Follows
<1>4. CASE Starts(d) \/ Quits(d) \/ Writes(d)
  BY <1>4 DEF Starts, Quits, Writes
<1>5. CASE GoesOn(d)
  <2>1. UNCHANGED <<requests, key>> /\ key[d] \in Keys
    BY <1>5 DEF GoesOn, ArgumentsGiven
  <2>2. CASE Filed(key[d]) /\ pc'[d] = "judge" /\ row'[d] = requests[key[d]]
    BY <2>1, <2>2 DEF Filed, Follows
  <2>3. CASE pc[d] = "judge" /\ JudgePending(d) /\ pc'[d] = "update" /\ row'[d] = Judged(d)
    BY <1>1, <2>1, <2>3, JudgedType DEF Filed, Follows
  <2> QED BY <1>5, <2>2, <2>3 DEF GoesOn
<1>6. ASSUME NEW c \in Callers \ {d}, Alone(c) PROVE Belongs(d)'
  BY <1>3, <1>6 DEF Alone
<1> QED BY <1>3, <1>4, <1>5, <1>6, Shapes DEF vars, Tick, Starts, Quits, Writes, GoesOn

\* What a caller was told last: an old answer stays true because settled requests stay
\* settled, a new one is of the row that was read or written.
LEMMA ToldStep ==
    Safe /\ [Next]_vars => ToldSettledIsSettled'
<1> DEFINE Settled(k) == Filed(k) /\ requests[k].status # "pending"
           Told(c) ==
               /\ \A entry \in seen[c] : entry.request.status # "pending" => Settled(entry.key)
               /\ error[c] \in {"already_decided", "expired"} => Settled(key[c])
<1> SUFFICES ASSUME Safe, [Next]_vars, ~coarse', NEW d \in Callers PROVE Told(d)'
  BY DEF ToldSettledIsSettled
<1>0. TypeOK /\ ArgumentsGiven /\ IdsApart /\ RowsBelong /\ TypeOK' /\ ~coarse
  BY TypeStep, Shapes DEF Safe, vars, Tick, Starts, Quits, Writes, GoesOn
<1>1. \A k \in Keys : Settled(k) => Settled(k)'
  BY <1>0, OnwardStep DEF Onward, Follows, Filed
<1>2. Told(d) /\ seen[d] \subseteq Entry /\ seen'[d] \subseteq Entry
  BY <1>0 DEF Safe, ToldSettledIsSettled, TypeOK
<1>3. \A entry \in Entry : entry.key \in Keys
  BY DEF Entry
<1>4. CASE seen'[d] = seen[d] /\ error'[d] = error[d] /\ key'[d] = key[d]
  <2>1. error[d] \in {"already_decided", "expired"} => Settled(key[d])'
    <3>1. error[d] \in {"already_decided", "expired"} => key[d] \in Keys
      BY <1>0 DEF ArgumentsGiven
    <3>2. \A k \in Keys : k = key[d] => (Settled(k)' => Settled(key[d])')
      BY <1>4
    <3> QED BY <1>1, <1>2, <3>1, <3>2
  <2>2. \A entry \in seen[d] : entry.request.status # "pending" => Settled(entry.key)'
    BY <1>1, <1>2, <1>3
  <2> QED BY <1>4, <2>1, <2>2
<1>5. CASE Starts(d)
  BY <1>5 DEF Starts
<1>6. CASE Quits(d)
  <2>1. \A entry \in seen'[d] : entry.request.status # "pending" => Settled(entry.key)'
    BY <1>6 DEF Quits, Filed
  <2>2. error'[d] \in {"already_decided", "expired"} =>
           Filed(key[d]) /\ requests[key[d]].status # "pending" /\ key'[d] = key[d]
    BY <1>0, <1>6 DEF Quits, RowsBelong, Follows
  <2>3. error'[d] \in {"already_decided", "expired"} => Settled(key[d])'
    BY <1>6, <2>2 DEF Quits, Filed
  <2> QED BY <2>1, <2>3
<1>7. CASE Writes(d)
  <2>1. key[d] \in Keys /\ row[d] \in Request /\ key'[d] = key[d]
    BY <1>0, <1>7 DEF Writes, TypeOK, ArgumentsGiven
  <2>2. requests'[key[d]] = row[d] /\ row[d] # NoRequest
    BY <1>0, <1>7, <2>1, UpsertDoes DEF Writes
  <2>3. \A entry \in seen'[d] : entry.key = key[d] /\ entry.request = row[d]
    BY <1>7 DEF Writes
  <2>4. error'[d] \in {"already_decided", "expired"} => row[d].status # "pending"
    BY <1>0, <1>7 DEF Writes, RowsBelong
  <2> QED BY <2>1, <2>2, <2>3, <2>4 DEF Filed
<1>8. CASE GoesOn(d)
  BY <1>4, <1>8 DEF GoesOn
<1>9. ASSUME NEW c \in Callers \ {d}, Alone(c) PROVE Told(d)'
  BY <1>4, <1>9 DEF Alone
<1> QED
  BY <1>0, <1>4, <1>5, <1>6, <1>7, <1>8, <1>9, Shapes
  DEF vars, Tick, Starts, Quits, Writes, GoesOn

--------------------------------------------------------------------------------
(* Whole verdicts                                                             *)

LEMMA SameLifecycle ==
    /\ \A e, from, until :
          Revisable!PendingRequest(e, from, until) = Lifecycle!PendingRequest(e, from, until)
    /\ \A r, now : Revisable!Overdue(r, now) <=> Lifecycle!Overdue(r, now)
    /\ \A r, v, a, now : Revisable!Decided(r, v, a, now) = Lifecycle!Decided(r, v, a, now)
    /\ \A r : Revisable!Expired(r) = Lifecycle!Expired(r)
    /\ Revisable!Verdicts = Lifecycle!Verdicts
  BY DEF Revisable!PendingRequest, Lifecycle!PendingRequest, Revisable!Overdue,
         Lifecycle!Overdue, Revisable!Decided, Lifecycle!Decided, Revisable!Expired,
         Lifecycle!Expired, Revisable!Verdicts, Lifecycle!Verdicts

\* What can be answered depends on the request as it was filed, and not on its verdict.
LEMMA AnswersFiled ==
    ASSUME NEW answer, NEW r, NEW s,
           r.event = s.event, r.requestedAt = s.requestedAt, r.expiresAt = s.expiresAt,
           Answers(answer, r)
    PROVE  Answers(answer, s)
<1>1. Revisable!Asked(r) = Revisable!Asked(s)
  BY DEF Revisable!Asked
<1>2. \A now : Lifecycle!Overdue(r, now) <=> Lifecycle!Overdue(s, now)
  BY DEF Lifecycle!Overdue
<1> QED BY <1>1, <1>2 DEF Answers

LEMMA JudgedAnswers ==
    ASSUME TypeOK, ArgumentsGiven, NEW c \in Callers, JudgePending(c), AsFiled(row[c])
    PROVE  Answers(Judged(c), row[c])
<1>1. row[c] = Revisable!Asked(row[c]) /\ row[c] \in Request
  BY DEF TypeOK, JudgePending, AsFiled
<1>2. clock \in Times /\ verdict[c].status \in Lifecycle!Verdicts /\ verdict[c].actor \in Actors
  BY ClockInTimes DEF TypeOK, ArgumentsGiven, JudgePending, Verdict
<1> QED BY <1>1, <1>2 DEF Answers, Judged

LEMMA WholeStep ==
    /\ TypeOK /\ ArgumentsGiven /\ IdsApart /\ RowsBelong /\ RowsWhole
    /\ [Next]_vars
    => RowsWhole'
<1> SUFFICES ASSUME TypeOK, ArgumentsGiven, IdsApart, RowsBelong, RowsWhole, [Next]_vars
             PROVE  RowsWhole'
  OBVIOUS
<1>1. coarse' = coarse
  BY Shapes DEF vars, Tick, Starts, Quits, Writes, GoesOn
<1>2. \A r : AsFiled(r)' <=> AsFiled(r)
  BY DEF AsFiled
<1>3. \A k \in Keys : Filed(k)' => AsFiled(requests'[k])
  <2>1. CASE UNCHANGED requests
    BY <2>1 DEF RowsWhole, Filed
  <2>2. ASSUME NEW c \in Callers, Writes(c), NEW k \in Keys, Filed(k)'
        PROVE  AsFiled(requests'[k])
    <3>1. key[c] \in Keys /\ row[c] \in Request
      BY <2>2 DEF TypeOK, ArgumentsGiven, Writes
    <3>2. /\ requests'[key[c]] = row[c] /\ row[c] # NoRequest
          /\ k # key[c] => requests'[k] = requests[k]
      BY <2>2, <3>1, UpsertDoes DEF Writes
    <3> QED BY <2>2, <3>2 DEF RowsWhole, Filed
  <2> QED BY <2>1, <2>2, Shapes DEF vars, Tick, Starts, Quits, GoesOn
<1>4. ASSUME NEW d \in Callers
      PROVE  /\ row'[d] # NoRequest => AsFiled(row'[d])
             /\ pc'[d] = "insert" => row'[d].status = "pending"
  <2>1. CASE pc'[d] = pc[d] /\ row'[d] = row[d]
    BY <2>1 DEF RowsWhole
  <2>2. CASE Starts(d)
    BY <2>2 DEF Starts
  <2>3. CASE Quits(d) \/ Writes(d)
    BY <2>3 DEF Quits, Writes
  <2>4. CASE GoesOn(d)
    <3>1. CASE pc[d] = "select" /\ pc'[d] = "judge" /\ row'[d] = requests[key[d]]
      BY <2>4, <3>1 DEF RowsWhole, ArgumentsGiven, GoesOn
    <3>2. CASE JudgePending(d) /\ pc'[d] = "update" /\ row'[d] = Judged(d)
      BY <3>2, JudgedType DEF AsFiled
    <3> QED BY <2>4, <3>1, <3>2 DEF GoesOn
  <2>5. ASSUME NEW c \in Callers \ {d}, Alone(c)
        PROVE  pc'[d] = pc[d] /\ row'[d] = row[d]
    BY <2>5 DEF Alone
  <2> QED BY <2>1, <2>2, <2>3, <2>4, <2>5, Shapes
          DEF vars, Tick, Starts, Quits, Writes, GoesOn
<1>5. ASSUME NEW d \in Callers, ~coarse, pc'[d] = "update"
      PROVE  Answers(row'[d], requests'[key'[d]])
  <2>1. CASE pc'[d] = pc[d] /\ row'[d] = row[d] /\ key'[d] = key[d]
    <3>1. key[d] \in Keys /\ Filed(key[d]) /\ Answers(row[d], requests[key[d]])
      BY <1>5, <2>1 DEF RowsWhole, RowsBelong, ArgumentsGiven
    <3>2. Follows(requests'[key[d]], requests[key[d]])
      BY <1>5, <3>1, OnwardStep DEF Onward
    <3>3. Answers(row[d], requests'[key[d]])
      BY <3>1, <3>2, AnswersFiled DEF Follows
    <3> QED BY <2>1, <3>3
  <2>2. CASE Starts(d) \/ Quits(d) \/ Writes(d)
    BY <1>5, <2>2 DEF Starts, Quits, Writes
  <2>3. CASE GoesOn(d)
    <3>1. /\ pc[d] = "judge" /\ JudgePending(d) /\ row'[d] = Judged(d)
          /\ UNCHANGED <<requests, key>>
      BY <1>5, <2>3 DEF GoesOn
    <3>2. row[d] \in Request /\ AsFiled(row[d]) /\ Follows(requests[key[d]], row[d])
      BY <1>5, <3>1, PlaceholderAssumption DEF TypeOK, RowsWhole, RowsBelong
    <3>3. Answers(Judged(d), requests[key[d]])
      BY <3>1, <3>2, JudgedAnswers, AnswersFiled DEF Follows
    <3> QED BY <3>1, <3>3
  <2>4. ASSUME NEW c \in Callers \ {d}, Alone(c)
        PROVE  pc'[d] = pc[d] /\ row'[d] = row[d] /\ key'[d] = key[d]
    BY <2>4 DEF Alone
  <2>5. CASE UNCHANGED vars \/ Tick
    BY <2>1, <2>5 DEF vars, Tick
  <2> QED BY <2>1, <2>2, <2>3, <2>4, <2>5, Shapes DEF Starts, Quits, Writes, GoesOn
<1>6. \A d \in Callers : ~coarse' /\ pc'[d] = "update" =>
         Answers(row[d], requests[key[d]])'
  BY <1>1, <1>5 DEF Answers
<1> QED BY <1>2, <1>3, <1>4, <1>6 DEF RowsWhole

\* A write of the table is a step of the abstract lifecycle, or changes nothing.
LEMMA RevisableStep ==
    ASSUME TypeOK, ArgumentsGiven, IdsApart, RowsBelong, RowsWhole, [Next]_vars
    PROVE  [Revisable!ReviseNext]_(IF coarse THEN [k \in Keys |-> NoRequest] ELSE requests)
<1>1. coarse' = coarse
  BY Shapes DEF vars, Tick, Starts, Quits, Writes, GoesOn
<1>2. CASE coarse \/ UNCHANGED requests
  BY <1>1, <1>2
<1>3. ASSUME NEW c \in Callers, Writes(c), ~coarse, requests' # requests
      PROVE  Revisable!ReviseNext
  <2> DEFINE k == key[c]
  <2>1. /\ k \in Keys /\ row[c] \in Request /\ pc[c] \in {"insert", "update"}
        /\ requests' = [requests EXCEPT ![k] = row[c]]
    BY <1>3 DEF TypeOK, ArgumentsGiven, Writes, Upsert
  <2>2. requests'[k] = row[c] /\ requests'[k] # requests[k]
    BY <1>3, <2>1 DEF TypeOK
  <2>3. row[c] # NoRequest
    BY <2>1, PlaceholderAssumption
  <2> HIDE DEF k
  <2>4. CASE pc[c] = "insert"
    <3>1. requests[k] = NoRequest
      BY <1>3, <2>4 DEF IdsApart, Filed, k
    <3>2. row[c] = Revisable!Asked(row[c])
      BY <2>3, <2>4 DEF RowsWhole, AsFiled
    <3>3. row[c].event \in Events /\ row[c].requestedAt \in Times /\ row[c].expiresAt \in Times
      BY <2>1 DEF Request, Lifecycle!Request
    <3>4. Revisable!Create(k, row[c].event, row[c].requestedAt, row[c].expiresAt)
      BY <1>1, <1>3, <2>1, <3>1, <3>2 DEF Revisable!Create, Revisable!Asked
    <3> QED BY <1>1, <1>3, <2>1, <2>2, <3>3, <3>4 DEF Revisable!ReviseNext
  <2>5. CASE pc[c] = "update"
    <3>1. requests[k] # NoRequest /\ Answers(row[c], requests[k])
      BY <1>3, <2>5 DEF RowsBelong, RowsWhole, Filed, k
    <3>2. ASSUME NEW v \in Lifecycle!Verdicts, NEW a \in Actors, NEW now \in Times,
                 ~Lifecycle!Overdue(requests[k], now),
                 row[c] = Lifecycle!Decided(Revisable!Asked(requests[k]), v, a, now)
          PROVE  Revisable!ReviseNext
      <4>1. Revisable!Revise(k, v, a, now)
        BY <1>1, <1>3, <2>1, <3>1, <3>2, SameLifecycle DEF Revisable!Revise
      <4> QED BY <1>1, <1>3, <2>1, <2>2, <4>1, SameLifecycle DEF Revisable!ReviseNext
    <3>3. ASSUME NEW now \in Times, Lifecycle!Overdue(requests[k], now),
                 row[c] = Lifecycle!Expired(Revisable!Asked(requests[k]))
          PROVE  Revisable!ReviseNext
      <4>1. Revisable!Lapse(k, now)
        BY <1>1, <1>3, <2>1, <3>1, <3>3, SameLifecycle DEF Revisable!Lapse
      <4> QED BY <1>1, <1>3, <2>1, <2>2, <4>1 DEF Revisable!ReviseNext
    <3> QED BY <3>1, <3>2, <3>3 DEF Answers
  <2> QED BY <2>1, <2>4, <2>5
<1> QED BY <1>2, <1>3, Shapes DEF vars, Tick, Starts, Quits, GoesOn

--------------------------------------------------------------------------------

LEMMA SafeInit == Init => Safe
<1> SUFFICES ASSUME Init PROVE Safe
  OBVIOUS
<1>1. TypeOK
  BY TypeInit
<1>2. ArgumentsGiven /\ Timely /\ IdsApart
  BY DEF Init, ArgumentsGiven, Timely, IdsApart, Filed
<1>3. RowsBelong /\ RowsWhole /\ ToldSettledIsSettled
  BY DEF Init, RowsBelong, RowsWhole, ToldSettledIsSettled, Filed
<1> QED BY <1>1, <1>2, <1>3 DEF Safe

\* The inductive invariant: rows in the table and in flight respect their deadlines, and
\* on a fine clock belong to the request they are named for.
THEOREM AlwaysSafe == Spec => []Safe
<1>1. Safe /\ [Next]_vars => Safe'
  BY TypeStep, ArgumentsStep, TimelyStep, IdsStep, RowsStep, WholeStep,
     ToldStep DEF Safe
<1> QED BY SafeInit, <1>1, PTL DEF Spec

\* Every variable keeps its type.
THEOREM TypeCorrect == Spec => []TypeOK
<1>1. Safe => TypeOK
  BY DEF Safe
<1> QED BY AlwaysSafe, <1>1, PTL

\* However stale the row it was judged on, a stored verdict is in time
\* (storage/postgres/store.go:360-378).
THEOREM DeadlineAlwaysRespected == Spec => []DeadlineRespected
<1>1. Safe => DeadlineRespected
  BY DEF Safe, Timely, InTime, DeadlineRespected
<1> QED BY AlwaysSafe, <1>1, PTL

\* On a fine clock, whoever was told that a request is settled finds it settled
\* (storage/postgres/store.go:352-385).
THEOREM ToldAlwaysSettled == Spec => []ToldSettledIsSettled
<1>1. Safe => ToldSettledIsSettled
  BY DEF Safe
<1> QED BY AlwaysSafe, <1>1, PTL

\* On a fine clock no request becomes pending again, or changes its event or deadline,
\* although deciders may overwrite each other's verdicts.
THEOREM NeverEverReopened == Spec => NeverReopened
<1>1. Safe /\ [Next]_vars =>
        [~coarse => \A k \in Keys : Filed(k) =>
          /\ requests'[k] # NoRequest
          /\ requests'[k].event = requests[k].event
          /\ requests'[k].expiresAt = requests[k].expiresAt
          /\ requests[k].status # "pending" => requests'[k].status # "pending"]_vars
  BY OnwardStep DEF Safe, Onward, Follows
<1> QED BY AlwaysSafe, <1>1, PTL DEF Spec, NeverReopened

\* On a fine clock the store implements a lifecycle in which verdicts may replace each
\* other, each of them whole, in time and of the request as it was filed.
THEOREM RefinesRevisable == Spec => ImplementsRevisable
<1> DEFINE shown == IF coarse THEN [k \in Keys |-> NoRequest] ELSE requests
<1>1. Init => Revisable!Init
  BY DEF Init, Revisable!Init
<1>2. Safe /\ [Next]_vars => [Revisable!ReviseNext]_shown
  BY RevisableStep DEF Safe
<1> QED BY AlwaysSafe, <1>1, <1>2, PTL DEF Spec, ImplementsRevisable, Revisable!ReviseSpec

================================================================================
