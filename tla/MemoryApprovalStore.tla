-------------------------- MODULE MemoryApprovalStore --------------------------
(****************************************************************************)
(* approval.MemoryStore under concurrent callers.  What a method does       *)
(* before it takes the lock is a step of its own: Create numbers the        *)
(* request and reads the clock, Decide reads the clock, and either may wait *)
(* for the lock while others run.  The critical section is one step.        *)
(*                                                                          *)
(* Requests reach Create as runtime.Service builds them: no id, no status,  *)
(* a deadline.  The service reads the clock for the deadline just before    *)
(* Create reads it for RequestedAt: the model takes both as one reading.    *)
(* The process lives throughout; a restart loses the store.                 *)
(****************************************************************************)
EXTENDS Integers, FiniteSets

CONSTANTS
    Callers,      \* goroutines using the store
    Tenants, Events, Actors, Nobody, NoRequest,
    NoKey, NoArg, \* a caller that names no request, holds no argument
    TTL,          \* lifetime runtime.Service gives a request
    ListLimit,    \* limit of a List call
    MaxRequests,  \* bound: requests filed in a behaviour
    MaxTime       \* bound: clock readings

ASSUME TimeAssumption == TTL \in Nat /\ MaxTime \in Nat
ASSUME BoundAssumption == MaxRequests \in Nat /\ ListLimit \in Nat \ {0}

VARIABLES
    clock,      \* the wall clock, which never runs backwards
    counter,    \* MemoryStore.counter
    requests,   \* MemoryStore.requests
    pc,         \* per caller: "idle", or the method that waits for the lock
    key,        \* per caller: the tenant and id of its current or last call
    arg,        \* per caller: the request or verdict it is about to store
    error,      \* per caller: the error of its last call
    seen        \* per caller: the requests its last call returned, by key

vars == <<clock, counter, requests, pc, key, arg, error, seen>>

--------------------------------------------------------------------------------

Ids   == 1..MaxRequests
Keys  == Tenants \X Ids
Times == 0..(MaxTime + TTL)

Lifecycle == INSTANCE ApprovalLifecycle

Request == Lifecycle!Request
Verdict == [status : Lifecycle!Verdicts, actor : Actors, now : Times]
Errors  == {"none", "cancelled", "invalid_decision", "not_found",
            "already_decided", "expired"}
Entry   == [key : Keys, request : Request]

ASSUME PlaceholderAssumption == NoRequest \notin Request /\ NoKey \notin Keys

Filed(k) == requests[k] # NoRequest

\* The method returns without having touched a request.
Refused(c, err) ==
    /\ pc'    = [pc EXCEPT ![c] = "idle"]
    /\ arg'   = [arg EXCEPT ![c] = NoArg]
    /\ error' = [error EXCEPT ![c] = err]
    /\ seen'  = [seen EXCEPT ![c] = {}]

\* The method returns the requests in entries.
Returned(c, entries) ==
    /\ pc'    = [pc EXCEPT ![c] = "idle"]
    /\ arg'   = [arg EXCEPT ![c] = NoArg]
    /\ error' = [error EXCEPT ![c] = "none"]
    /\ seen'  = [seen EXCEPT ![c] = entries]

\* The method is about to lock, having forgotten what its caller saw before.
Waiting(c, method, k, a) ==
    /\ pc[c] = "idle"
    /\ pc'    = [pc EXCEPT ![c] = method]
    /\ key'   = [key EXCEPT ![c] = k]
    /\ arg'   = [arg EXCEPT ![c] = a]
    /\ error' = [error EXCEPT ![c] = "none"]
    /\ seen'  = [seen EXCEPT ![c] = {}]

--------------------------------------------------------------------------------

Init ==
    /\ clock    = 0
    /\ counter  = 0
    /\ requests = [k \in Keys |-> NoRequest]
    /\ pc       = [c \in Callers |-> "idle"]
    /\ key      = [c \in Callers |-> NoKey]
    /\ arg      = [c \in Callers |-> NoArg]
    /\ error    = [c \in Callers |-> "none"]
    /\ seen     = [c \in Callers |-> {}]

Tick ==
    /\ clock < MaxTime
    /\ clock' = clock + 1
    /\ UNCHANGED <<counter, requests, pc, key, arg, error, seen>>

\* ctx.Err() answers before anything else, in every method.
CancelledCall(c) ==
    /\ pc[c] = "idle"
    /\ key' = [key EXCEPT ![c] = NoKey]
    /\ Refused(c, "cancelled")
    /\ UNCHANGED <<clock, counter, requests>>

\* Mutant: the counter is read but not advanced, so callers share an id.
BeginCreateWithSharedId(c, t, e) ==
    /\ counter < MaxRequests
    /\ Waiting(c, "create", <<t, counter + 1>>,
               Lifecycle!PendingRequest(e, clock, clock + TTL))
    /\ UNCHANGED <<clock, counter, requests>>

\* Create, outside the lock: an id from the counter and a timestamp.
BeginCreate(c, t, e) ==
    /\ counter < MaxRequests
    /\ counter' = counter + 1
    /\ Waiting(c, "create", <<t, counter + 1>>,
               Lifecycle!PendingRequest(e, clock, clock + TTL))
    /\ UNCHANGED <<clock, requests>>

\* Create, under the lock: the map entry is assigned, whatever it held.
StoreRequest(c) ==
    /\ pc[c] = "create"
    /\ requests' = [requests EXCEPT ![key[c]] = arg[c]]
    /\ Returned(c, {[key |-> key[c], request |-> arg[c]]})
    /\ UNCHANGED <<clock, counter, key>>

\* Decide rejects any other verdict before it looks the request up.
InvalidDecision(c) ==
    /\ pc[c] = "idle"
    /\ key' = [key EXCEPT ![c] = NoKey]
    /\ Refused(c, "invalid_decision")
    /\ UNCHANGED <<clock, counter, requests>>

\* Mutant: an unset Now is not replaced by the clock.
BeginDecideUntimed(c, k, verdict, actor) ==
    /\ Waiting(c, "decide", k, [status |-> verdict, actor |-> actor, now |-> -1])
    /\ UNCHANGED <<clock, counter, requests>>

\* Decide, outside the lock: the time it will judge the deadline by.
BeginDecide(c, k, verdict, actor) ==
    /\ Waiting(c, "decide", k, [status |-> verdict, actor |-> actor, now |-> clock])
    /\ UNCHANGED <<clock, counter, requests>>

DecideMissing(c) ==
    /\ pc[c] = "decide"
    /\ ~Filed(key[c])
    /\ Refused(c, "not_found")
    /\ UNCHANGED <<clock, counter, requests, key>>

DecideSettled(c) ==
    /\ pc[c] = "decide"
    /\ Filed(key[c])
    /\ requests[key[c]].status # "pending"
    /\ Refused(c, "already_decided")
    /\ UNCHANGED <<clock, counter, requests, key>>

\* Mutant: the expired status is reported but not written back.
DecideOverdueUnsaved(c) ==
    /\ pc[c] = "decide"
    /\ Lifecycle!IsPending(key[c])
    /\ Lifecycle!Overdue(requests[key[c]], arg[c].now)
    /\ Refused(c, "expired")
    /\ UNCHANGED <<clock, counter, requests, key>>

\* Mutant: the deadline is looked at before the status.
DecideOverdueFirst(c) ==
    /\ pc[c] = "decide"
    /\ Filed(key[c])
    /\ Lifecycle!Overdue(requests[key[c]], arg[c].now)
    /\ requests' = [requests EXCEPT ![key[c]] = Lifecycle!Expired(@)]
    /\ Refused(c, "expired")
    /\ UNCHANGED <<clock, counter, key>>

DecideOverdue(c) ==
    /\ pc[c] = "decide"
    /\ Lifecycle!IsPending(key[c])
    /\ Lifecycle!Overdue(requests[key[c]], arg[c].now)
    /\ requests' = [requests EXCEPT ![key[c]] = Lifecycle!Expired(@)]
    /\ Refused(c, "expired")
    /\ UNCHANGED <<clock, counter, key>>

\* The stored and returned outcome of a verdict.
Settle(c) ==
    LET decided == Lifecycle!Decided(requests[key[c]], arg[c].status,
                                     arg[c].actor, arg[c].now)
    IN  /\ requests' = [requests EXCEPT ![key[c]] = decided]
        /\ Returned(c, {[key |-> key[c], request |-> decided]})
        /\ UNCHANGED <<clock, counter, key>>

\* Mutant: no deadline.
DecidePendingAnytime(c) == pc[c] = "decide" /\ Lifecycle!IsPending(key[c]) /\ Settle(c)

\* Mutant: any filed request can be decided, again and again.
DecideFiled(c) ==
    /\ pc[c] = "decide"
    /\ Filed(key[c])
    /\ ~Lifecycle!Overdue(requests[key[c]], arg[c].now)
    /\ Settle(c)

DecidePending(c) ==
    /\ pc[c] = "decide"
    /\ Lifecycle!IsPending(key[c])
    /\ ~Lifecycle!Overdue(requests[key[c]], arg[c].now)
    /\ Settle(c)

Get(c, k) ==
    /\ pc[c] = "idle"
    /\ key' = [key EXCEPT ![c] = k]
    /\ \/ Filed(k) /\ Returned(c, {[key |-> k, request |-> requests[k]]})
       \/ ~Filed(k) /\ Refused(c, "not_found")
    /\ UNCHANGED <<clock, counter, requests>>

\* List collects the tenant's requests in the order the map iterates, which Go
\* leaves open, and keeps the last ListLimit: any of them may be the ones kept.
Listable(t) == {k \in Keys : k[1] = t /\ Filed(k)}

List(c, t) ==
    /\ pc[c] = "idle"
    /\ \E kept \in SUBSET Listable(t) :
          /\ \/ kept = Listable(t) /\ Cardinality(kept) <= ListLimit
             \/ kept # Listable(t) /\ Cardinality(kept) = ListLimit
          /\ Returned(c, {[key |-> k, request |-> requests[k]] : k \in kept})
    /\ key' = [key EXCEPT ![c] = NoKey]
    /\ UNCHANGED <<clock, counter, requests>>

--------------------------------------------------------------------------------

Decide(c) ==
    DecideMissing(c) \/ DecideSettled(c) \/ DecideOverdue(c) \/ DecidePending(c)

Call(c) ==
    \/ CancelledCall(c)
    \/ InvalidDecision(c)
    \/ \E t \in Tenants, e \in Events : BeginCreate(c, t, e)
    \/ \E k \in Keys, v \in Lifecycle!Verdicts, a \in Actors : BeginDecide(c, k, v, a)
    \/ \E k \in Keys : Get(c, k)
    \/ \E t \in Tenants : List(c, t)

Next ==
    \/ Tick
    \/ \E c \in Callers : Call(c) \/ StoreRequest(c) \/ Decide(c)

Spec == Init /\ [][Next]_vars

--------------------------------------------------------------------------------

StoreTypeOK ==
    /\ clock \in 0..MaxTime
    /\ counter \in 0..MaxRequests
    /\ requests \in [Keys -> Request \cup {NoRequest}]

CallTypeOK ==
    /\ pc \in [Callers -> {"idle", "create", "decide"}]
    /\ key \in [Callers -> Keys \cup {NoKey}]
    /\ arg \in [Callers -> Request \cup Verdict \cup {NoArg}]
    /\ error \in [Callers -> Errors]
    /\ seen \in [Callers -> SUBSET Entry]
    /\ \A c \in Callers :
          /\ pc[c] # "idle"  => key[c] \in Keys
          /\ pc[c] = "create" => arg[c] \in Request
          /\ pc[c] = "decide" => arg[c] \in Verdict

\* Every variable keeps its type, and a caller that waits for the lock knows which
\* request it means and holds what its method will store there.
TypeOK == StoreTypeOK /\ CallTypeOK

\* A request about to be stored goes to a free slot: although ids are drawn
\* outside the lock, no Create replaces a request a caller was told of, of its
\* own tenant or another (store.go:56-67).
CreateIsFresh == \A c \in Callers : pc[c] = "create" => ~Filed(key[c])

\* A verdict that stands was given by somebody no later than the deadline, and a
\* request is marked expired only once its deadline has really passed, however
\* long the deciders waited for the lock (store.go:113-136).
DeadlineRespected ==
    \A k \in Keys : Filed(k) =>
        /\ requests[k].status \in Lifecycle!Verdicts =>
              /\ requests[k].decidedBy \in Actors
              /\ requests[k].decidedAt <= requests[k].expiresAt
        /\ requests[k].status = "expired" => clock > requests[k].expiresAt

\* What a caller was returned stays true: the request is still filed for the same
\* event, and a final answer is still the stored one.  In particular two deciders
\* of one request are never both told that they succeeded differently.
AnswersHold ==
    \A c \in Callers : \A entry \in seen[c] :
        /\ Filed(entry.key)
        /\ requests[entry.key].event = entry.request.event
        /\ entry.request.status # "pending" => requests[entry.key] = entry.request

\* A refusal stays true: "expired" means expired for good, "already decided" that
\* the request has left pending for good (store.go:124-131).
RefusalsHold ==
    \A c \in Callers :
        /\ error[c] \in {"already_decided", "expired"} =>
              /\ key[c] \in Keys /\ Filed(key[c])
              /\ requests[key[c]].status # "pending"
        /\ error[c] = "expired" => requests[key[c]].status = "expired"

\* What makes them inductive: ids in flight are drawn from the counter and never
\* shared, what waits to be stored is pending, and no verdict comes from the future.
IdsFromCounter ==
    /\ \A k \in Keys : Filed(k) => k[2] <= counter
    /\ \A c \in Callers : pc[c] = "create" => key[c][2] <= counter
    /\ \A c, d \in Callers :
          c # d /\ pc[c] = "create" /\ pc[d] = "create" => key[c][2] # key[d][2]

ArgumentsCurrent ==
    \A c \in Callers :
        /\ pc[c] = "create" =>
              arg[c] = Lifecycle!PendingRequest(arg[c].event, arg[c].requestedAt,
                                                arg[c].expiresAt)
        /\ pc[c] = "decide" => arg[c].now <= clock

Safe ==
    /\ TypeOK
    /\ IdsFromCounter
    /\ ArgumentsCurrent
    /\ CreateIsFresh
    /\ DeadlineRespected
    /\ AnswersHold
    /\ RefusalsHold

\* Once filed, a request keeps its event, and once out of pending it is frozen:
\* the memory store reads, checks and writes under one lock (store.go:117-136).
OnlyPendingChanges ==
    [][\A k \in Keys : Filed(k) =>
          /\ requests'[k] # NoRequest
          /\ requests'[k].event = requests[k].event
          /\ requests[k].status # "pending" => requests'[k] = requests[k]]_vars

\* The client documents List as the recent requests of a tenant
\* (sdk/go/agentsec/client.go:247): a request newer than everything listed is
\* never left out, as long as nothing is filed after the call.
ListShowsNewest ==
    [][\A c \in Callers, t \in Tenants : List(c, t) =>
          \A k \in Listable(t) :
              \E entry \in seen'[c] : entry.request.requestedAt >= requests[k].requestedAt]_vars

\* The store implements the abstract lifecycle.
ImplementsLifecycle == Lifecycle!Spec

================================================================================
