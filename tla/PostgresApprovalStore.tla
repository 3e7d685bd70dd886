------------------------- MODULE PostgresApprovalStore -------------------------
(****************************************************************************)
(* postgres.ApprovalStore under concurrent callers, of one server process   *)
(* or of several that share the database.  Every SQL statement is atomic;   *)
(* nothing spans two of them: Decide reads the row with Get, judges it in   *)
(* memory and writes the whole row back with Create, an INSERT .. ON        *)
(* CONFLICT DO UPDATE that looks at nothing.                                *)
(*                                                                          *)
(* A request is numbered by the nanosecond it is created in.  A coarse      *)
(* clock may give two Creates the same one; what depends on a fine clock    *)
(* says so.  A statement may fail, and its failure may hide a write that    *)
(* did reach the database.                                                  *)
(****************************************************************************)
EXTENDS Integers, FiniteSets

CONSTANTS
    Callers,      \* handlers using the store
    Tenants, Events, Actors, Nobody, NoRequest,
    NoKey, NoArg, \* a caller that names no request, holds no argument
    TTL,          \* lifetime runtime.Service gives a request
    ListLimit,    \* LIMIT of a List call
    MaxRequests,  \* bound: no request is begun once so many are filed
    MaxTime       \* bound: clock readings

ASSUME ConstantsAssumption ==
    /\ TTL \in Nat /\ MaxTime \in Nat
    /\ ListLimit \in Nat \ {0} /\ MaxRequests \in Nat

VARIABLES
    coarse,     \* whether two clock readings may be equal; never changes
    clock,      \* the wall clock
    requests,   \* table approval_requests, the JSON column
    pc,         \* per caller: "idle", or the statement or check that comes next
    key,        \* per caller: the tenant and id of its current or last call
    verdict,    \* per caller: the decision Decide was given
    row,        \* per caller: the row it has read, or is about to write
    error,      \* per caller: the error of its last call
    seen        \* per caller: the requests its last call returned, by key

vars == <<coarse, clock, requests, pc, key, verdict, row, error, seen>>

--------------------------------------------------------------------------------

Ids   == 0..MaxTime
Keys  == Tenants \X Ids
Times == 0..(MaxTime + TTL)

Lifecycle == INSTANCE ApprovalLifecycle

Request == Lifecycle!Request
Verdict == [status : Lifecycle!Verdicts \cup {"invalid"}, actor : Actors]
Errors  == {"none", "db", "invalid_decision", "not_found", "already_decided", "expired"}
Entry   == [key : Keys, request : Request]

ASSUME PlaceholderAssumption == NoRequest \notin Request

Filed(k) == requests[k] # NoRequest

Goto(c, label) == pc' = [pc EXCEPT ![c] = label]

\* A call begins: what the caller last saw is gone.
Begins(c, label, k, v, r) ==
    /\ pc[c] = "idle"
    /\ Goto(c, label)
    /\ key'     = [key EXCEPT ![c] = k]
    /\ verdict' = [verdict EXCEPT ![c] = v]
    /\ row'     = [row EXCEPT ![c] = r]
    /\ error'   = [error EXCEPT ![c] = "none"]
    /\ seen'    = [seen EXCEPT ![c] = {}]

\* The call returns err, and the requests in entries if err is "none".
Returns(c, err, entries) ==
    /\ Goto(c, "idle")
    /\ verdict' = [verdict EXCEPT ![c] = NoArg]
    /\ row'     = [row EXCEPT ![c] = NoRequest]
    /\ error'   = [error EXCEPT ![c] = err]
    /\ seen'    = [seen EXCEPT ![c] = entries]

--------------------------------------------------------------------------------

Init ==
    /\ coarse \in BOOLEAN
    /\ clock    = 0
    /\ requests = [k \in Keys |-> NoRequest]
    /\ pc       = [c \in Callers |-> "idle"]
    /\ key      = [c \in Callers |-> NoKey]
    /\ verdict  = [c \in Callers |-> NoArg]
    /\ row      = [c \in Callers |-> NoRequest]
    /\ error    = [c \in Callers |-> "none"]
    /\ seen     = [c \in Callers |-> {}]

Tick ==
    /\ clock < MaxTime
    /\ clock' = clock + 1
    /\ UNCHANGED <<coarse, requests, pc, key, verdict, row, error, seen>>

\* Create, up to its statement: id, status and time are filled in.
BeginCreate(c, t, e) ==
    /\ Cardinality({k \in Keys : Filed(k)}) < MaxRequests
    /\ Begins(c, "insert", <<t, clock>>, NoArg,
              Lifecycle!PendingRequest(e, clock, clock + TTL))
    /\ \/ coarse /\ clock' = clock
       \/ ~coarse /\ clock < MaxTime /\ clock' = clock + 1
    /\ UNCHANGED <<coarse, requests>>

\* Create's statement, for a new request and for a decided one alike.
Upsert(c) == requests' = [requests EXCEPT ![key[c]] = row[c]]

Insert(c) ==
    /\ pc[c] = "insert"
    /\ Upsert(c)
    /\ Returns(c, "none", {[key |-> key[c], request |-> row[c]]})
    /\ UNCHANGED <<coarse, clock, key>>

BeginDecide(c, k, v, a) ==
    /\ Begins(c, "select", k, [status |-> v, actor |-> a], NoRequest)
    /\ UNCHANGED <<coarse, clock, requests>>

\* Mutant: sql.ErrNoRows is not looked at.
DecideSelectAny(c) ==
    /\ pc[c] = "select"
    /\ Goto(c, "judge")
    /\ row' = [row EXCEPT ![c] = requests[key[c]]]
    /\ UNCHANGED <<coarse, clock, requests, key, verdict, error, seen>>

\* Decide, first statement: s.Get.
DecideSelect(c) ==
    /\ pc[c] = "select"
    /\ \/ /\ Filed(key[c])
          /\ Goto(c, "judge")
          /\ row' = [row EXCEPT ![c] = requests[key[c]]]
          /\ UNCHANGED <<verdict, error, seen>>
       \/ ~Filed(key[c]) /\ Returns(c, "not_found", {})
    /\ UNCHANGED <<coarse, clock, requests, key>>

\* Decide, between its statements: the checks are made on the row that was read.
JudgeInvalid(c) ==
    /\ pc[c] = "judge"
    /\ verdict[c].status \notin Lifecycle!Verdicts
    /\ Returns(c, "invalid_decision", {})
    /\ UNCHANGED <<coarse, clock, requests, key>>

JudgeSettled(c) ==
    /\ pc[c] = "judge"
    /\ verdict[c].status \in Lifecycle!Verdicts
    /\ row[c].status # "pending"
    /\ Returns(c, "already_decided", {})
    /\ UNCHANGED <<coarse, clock, requests, key>>

\* Mutant: the deadline is not looked at.
JudgePendingAnytime(c) ==
    /\ pc[c] = "judge"
    /\ verdict[c].status \in Lifecycle!Verdicts
    /\ row[c].status = "pending"
    /\ row' = [row EXCEPT ![c] = Lifecycle!Decided(@, verdict[c].status,
                                                   verdict[c].actor, clock)]
    /\ Goto(c, "update")
    /\ UNCHANGED <<coarse, clock, requests, key, verdict, error, seen>>

\* Mutant: a row that is settled is judged once more.
JudgeAny(c) ==
    /\ pc[c] = "judge"
    /\ verdict[c].status \in Lifecycle!Verdicts
    /\ row' = [row EXCEPT ![c] =
                 IF Lifecycle!Overdue(@, clock)
                 THEN Lifecycle!Expired(@)
                 ELSE Lifecycle!Decided(@, verdict[c].status, verdict[c].actor, clock)]
    /\ Goto(c, "update")
    /\ UNCHANGED <<coarse, clock, requests, key, verdict, error, seen>>

\* Mutant: an overdue row is written back without being marked.
JudgePendingUnmarked(c) ==
    /\ pc[c] = "judge"
    /\ verdict[c].status \in Lifecycle!Verdicts
    /\ row[c].status = "pending"
    /\ row' = [row EXCEPT ![c] =
                 IF Lifecycle!Overdue(@, clock) THEN @
                 ELSE Lifecycle!Decided(@, verdict[c].status, verdict[c].actor, clock)]
    /\ Goto(c, "update")
    /\ UNCHANGED <<coarse, clock, requests, key, verdict, error, seen>>

JudgePending(c) ==
    /\ pc[c] = "judge"
    /\ verdict[c].status \in Lifecycle!Verdicts
    /\ row[c].status = "pending"
    /\ row' = [row EXCEPT ![c] =
                 IF Lifecycle!Overdue(@, clock)
                 THEN Lifecycle!Expired(@)
                 ELSE Lifecycle!Decided(@, verdict[c].status, verdict[c].actor, clock)]
    /\ Goto(c, "update")
    /\ UNCHANGED <<coarse, clock, requests, key, verdict, error, seen>>

\* Mutant: success is answered before the row is written.
UpdateForgotten(c) ==
    /\ pc[c] = "update"
    /\ Returns(c, "none", {[key |-> key[c], request |-> row[c]]})
    /\ UNCHANGED <<coarse, clock, requests, key>>

\* Decide, second statement: s.Create with the judged row.
DecideUpdate(c) ==
    /\ pc[c] = "update"
    /\ Upsert(c)
    /\ \/ row[c].status = "expired" /\ Returns(c, "expired", {})
       \/ row[c].status # "expired"
          /\ Returns(c, "none", {[key |-> key[c], request |-> row[c]]})
    /\ UNCHANGED <<coarse, clock, key>>

\* A statement fails: the call returns the error, and a write may have happened.
StatementFails(c) ==
    /\ pc[c] \in {"select", "insert", "update"}
    /\ \/ UNCHANGED requests
       \/ pc[c] # "select" /\ Upsert(c)
    /\ Returns(c, "db", {})
    /\ UNCHANGED <<coarse, clock, key>>

Get(c, k) ==
    /\ pc[c] = "idle"
    /\ key' = [key EXCEPT ![c] = k]
    /\ \/ Filed(k) /\ Returns(c, "none", {[key |-> k, request |-> requests[k]]})
       \/ ~Filed(k) /\ Returns(c, "not_found", {})
       \/ Returns(c, "db", {})
    /\ UNCHANGED <<coarse, clock, requests>>

\* ORDER BY requested_at DESC LIMIT: no request left out is newer than one listed.
Listable(t) == {k \in Keys : k[1] = t /\ Filed(k)}

List(c, t) ==
    /\ pc[c] = "idle"
    /\ \/ Returns(c, "db", {})
       \/ \E kept \in SUBSET Listable(t) :
             /\ \/ kept = Listable(t) /\ Cardinality(kept) <= ListLimit
                \/ kept # Listable(t) /\ Cardinality(kept) = ListLimit
             /\ \A k \in kept, j \in Listable(t) \ kept :
                   requests[j].requestedAt <= requests[k].requestedAt
             /\ Returns(c, "none", {[key |-> k, request |-> requests[k]] : k \in kept})
    /\ key' = [key EXCEPT ![c] = NoKey]
    /\ UNCHANGED <<coarse, clock, requests>>

--------------------------------------------------------------------------------

Judge(c) == JudgeInvalid(c) \/ JudgeSettled(c) \/ JudgePending(c)

Decide(c) == DecideSelect(c) \/ Judge(c) \/ DecideUpdate(c)

Call(c) ==
    \/ \E t \in Tenants, e \in Events : BeginCreate(c, t, e)
    \/ \E k \in Keys, v \in Lifecycle!Verdicts \cup {"invalid"}, a \in Actors :
          BeginDecide(c, k, v, a)
    \/ \E k \in Keys : Get(c, k)
    \/ \E t \in Tenants : List(c, t)

Next ==
    \/ Tick
    \/ \E c \in Callers : Call(c) \/ Insert(c) \/ Decide(c) \/ StatementFails(c)

Spec == Init /\ [][Next]_vars

--------------------------------------------------------------------------------

\* Every variable keeps its type, and a caller between statements holds a row.
TypeOK ==
    /\ coarse \in BOOLEAN
    /\ clock \in 0..MaxTime
    /\ requests \in [Keys -> Request \cup {NoRequest}]
    /\ pc \in [Callers -> {"idle", "insert", "select", "judge", "update"}]
    /\ key \in [Callers -> Keys \cup {NoKey}]
    /\ verdict \in [Callers -> Verdict \cup {NoArg}]
    /\ row \in [Callers -> Request \cup {NoRequest}]
    /\ error \in [Callers -> Errors]
    /\ seen \in [Callers -> SUBSET Entry]
    /\ \A c \in Callers : pc[c] \in {"insert", "judge", "update"} => row[c] \in Request

\* However stale the row a verdict was judged on, the verdict stored is dated no
\* later than the deadline stored with it, and nothing expires before its deadline
\* (storage/postgres/store.go:360-378).
DeadlineRespected ==
    \A k \in Keys : Filed(k) =>
        /\ requests[k].status \in Lifecycle!Verdicts =>
              /\ requests[k].decidedBy \in Actors
              /\ requests[k].decidedAt <= requests[k].expiresAt
        /\ requests[k].status = "expired" => clock > requests[k].expiresAt

\* What racing deciders leave of the promise that a decided request is closed: a
\* request keeps its event and deadline, and never becomes pending again.  On a coarse
\* clock a Create may replace it.
NeverReopened ==
    [][~coarse => \A k \in Keys : Filed(k) =>
          /\ requests'[k] # NoRequest
          /\ requests'[k].event = requests[k].event
          /\ requests'[k].expiresAt = requests[k].expiresAt
          /\ requests[k].status # "pending" => requests'[k].status # "pending"]_vars

\* A caller told that a request is settled, by success or by refusal, will find it
\* settled, though not always as it was told.
ToldSettledIsSettled ==
    ~coarse => \A c \in Callers :
        /\ \A entry \in seen[c] :
              entry.request.status # "pending" =>
                  Filed(entry.key) /\ requests[entry.key].status # "pending"
        /\ error[c] \in {"already_decided", "expired"} =>
              Filed(key[c]) /\ requests[key[c]].status # "pending"

\* A request that was handled or has expired cannot be handled again
\* (.harness/changes/approval-workflow/proposal.md:48): its row is never changed, even
\* if every request has an id of its own.
OnlyPendingChanges ==
    [][~coarse => \A k \in Keys :
          Filed(k) /\ requests[k].status # "pending" => requests'[k] = requests[k]]_vars

\* On a clock that tells requests apart.
Revisable == INSTANCE RevisableLifecycle
    WITH requests <- IF coarse THEN [k \in Keys |-> NoRequest] ELSE requests

\* Racing deciders may replace each other's verdicts, but each verdict is whole, in time,
\* and of the request as it was filed; no statement, failed or not, does anything else
\* (storage/postgres/store.go:352-385).
ImplementsRevisable == Revisable!ReviseSpec

================================================================================
