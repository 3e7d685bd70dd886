--------------------------- MODULE RuntimeEnforcement ---------------------------
(****************************************************************************)
(* A protected action from end to end: agents run agentsec.Enforcer.Execute, *)
(* the control plane evaluates events (runtime.Service.Evaluate behind       *)
(* POST /v1/evaluate), approvers decide requests, and the audit store keeps  *)
(* what was answered.  The approval store is an abstract one: that of        *)
(* ApprovalLifecycle, which MemoryApprovalStore implements, when the stores  *)
(* are in memory, and that of RevisableLifecycle, which                      *)
(* PostgresApprovalStore implements, when they are in PostgreSQL.            *)
(*                                                                          *)
(* Every call of a store is a step: between two of them other agents,       *)
(* approvers and the clock move, the store may fail, and the agent may give *)
(* up waiting for the answer while the server carries on.  What the policy  *)
(* packs in force say of an event at the moment it is evaluated is          *)
(* arbitrary (PolicyEngine says how they come to say it): they may be       *)
(* edited between any two evaluations.                                      *)
(*                                                                          *)
(* The server may die and be started again.  Stores in memory go with it,   *)
(* and approval requests are numbered from 1 again, while agents still hold *)
(* ids of before; stores in PostgreSQL stay, but racing deciders overwrite  *)
(* one another there.                                                       *)
(****************************************************************************)
EXTENDS Integers

CONSTANTS
    Executions,   \* calls of Enforcer.Execute
    Tenants,
    Events,       \* runtime events, without the approval they carry
    TenantOf,     \* event -> its tenant
    BindingOf,    \* event -> its agent, user, task, type, tool, resource, action, labels
    Refused,      \* events that validation or the tenant check turns away
    Outcomes,     \* decisions the packs may lead to
    Actors, Nobody, NoRequest,
    NoId,         \* no approval id
    Starts,       \* bound: where the stores are, the operations to begin with, and the
                  \* approvals they name
    TTL,          \* Service.approvalTTL
    MaxRequests,  \* bound: requests filed in a behaviour
    MaxTime,      \* bound: clock readings
    MaxRestarts   \* bound: restarts of the server

Decisions == {"deny", "require_approval", "redact", "record", "allow"}

Ids   == 1..MaxRequests
Keys  == Tenants \X Ids
Times == 0..(MaxTime + TTL)

ASSUME EventAssumption ==
    /\ TenantOf \in [Events -> Tenants]
    /\ Refused \subseteq Events
    /\ Outcomes \subseteq Decisions
ASSUME NumberAssumption ==
    /\ TTL \in Nat /\ MaxRequests \in Nat /\ MaxTime \in Nat /\ MaxRestarts \in Nat
    /\ NoId \notin Ids
    /\ Starts \subseteq
          [persistent : BOOLEAN,
           calls : [Executions -> [event : Events, approval : Ids \cup {NoId}]]]

VARIABLES
    clock,
    requests,   \* the approval store
    filed,      \* MemoryStore.counter
    log,        \* the audit store: what each recorded evaluation answered
    client,     \* per execution: where Execute is and what it submits
    server,     \* per execution: the evaluation the server runs for it
    persistent, \* whether the stores are in PostgreSQL: they all are, or none is
    restarts,   \* how often the server was started again
    lost,       \* history: executions that were cleared before the stores were lost
    given       \* history: keys of requests that were approved in time

life == <<persistent, restarts, lost, given>>
vars == <<clock, requests, filed, log, client, server, life>>

Lifecycle == INSTANCE RevisableLifecycle

ASSUME RequestAssumption == NoRequest \notin Lifecycle!Request

--------------------------------------------------------------------------------

\* Execute: ready, asked (an evaluation is under way), waiting (for an approval),
\* cleared (the action may run), ran, blocked (an error without the action).
Client == [pc : {"ready", "asked", "waiting", "cleared", "ran", "blocked"},
           event : Events, approval : Ids \cup {NoId}, again : BOOLEAN]

\* Evaluate: idle, received, creating (an approval request is to be filed),
\* appending (the audit record is to be written), answered, failed.
Server == [pc : {"idle", "received", "creating", "appending", "answered", "failed"},
           decision : Decisions, approval : Ids \cup {NoId}, until : Times]

Record == [by : Executions, event : Events, presented : Ids \cup {NoId},
           decision : Decisions, approval : Ids \cup {NoId}]

\* The event of an execution as it is submitted, and the request it names.
Event(x)     == client[x].event
Presented(x) == client[x].approval
KeyOf(e, id) == <<TenantOf[e], id>>

Waiting(x, at) == client[x].pc = "asked" /\ server[x].pc = at

\* approvalEventMatches: what an approval binds.  Subject, input, output and intent
\* are not part of a binding.
EventMatches(approved, actual) ==
    TenantOf[approved] = TenantOf[actual] /\ BindingOf[approved] = BindingOf[actual]

\* Mutant: the approved event is not compared.
PermitsAny(e, id) ==
    LET request == requests[KeyOf(e, id)]
    IN  request # NoRequest /\ request.status = "approved"

\* evaluateApproval, when the store answers.
Permits(e, id) ==
    LET request == requests[KeyOf(e, id)]
    IN  /\ request # NoRequest
        /\ request.status = "approved"
        /\ EventMatches(request.event, e)

Allows(decision) == decision \in {"allow", "record"}

ServerTo(x, s) == server' = [server EXCEPT ![x] = s]
ServerAt(x, pc) == ServerTo(x, [server[x] EXCEPT !.pc = pc])
ClientAt(x, pc) == client' = [client EXCEPT ![x].pc = pc]

Received == [pc |-> "received", decision |-> "deny", approval |-> NoId, until |-> 0]

--------------------------------------------------------------------------------

Init ==
    /\ clock = 0
    /\ Lifecycle!Init
    /\ filed = 0
    /\ log = {}
    /\ \E start \in Starts :
          /\ persistent = start.persistent
          /\ client = [x \in Executions |->
                          [pc |-> "ready", event |-> start.calls[x].event,
                           approval |-> start.calls[x].approval, again |-> FALSE]]
    /\ server = [x \in Executions |-> [Received EXCEPT !.pc = "idle"]]
    /\ restarts = 0 /\ lost = {} /\ given = {}

Tick ==
    /\ clock < MaxTime
    /\ clock' = clock + 1
    /\ UNCHANGED <<requests, filed, log, client, server, life>>

\* Execute submits the event, which may already name an approval.
Submit(x) ==
    /\ client[x].pc = "ready"
    /\ ClientAt(x, "asked")
    /\ ServerTo(x, Received)
    /\ UNCHANGED <<clock, requests, filed, log, life>>

\* The event does not validate, the caller may not act for the tenant, or the policy
\* packs cannot be listed: an error, and nothing has been written.
Refuse(x) ==
    /\ server[x].pc = "received"
    /\ Event(x) \in Refused \/ Presented(x) = NoId
    /\ ServerAt(x, "failed")
    /\ UNCHANGED <<clock, requests, filed, log, client, life>>

\* Evaluate without an approval: the packs are listed and the engine decides.
Judge(x) ==
    /\ server[x].pc = "received"
    /\ Event(x) \notin Refused /\ Presented(x) = NoId
    /\ \E d \in Outcomes :
          ServerTo(x, [pc |-> IF d = "require_approval" THEN "creating" ELSE "appending",
                       decision |-> d, approval |-> NoId, until |-> clock + TTL])
    /\ UNCHANGED <<clock, requests, filed, log, client, life>>

\* Mutant: a request that is not there is named all the same.
CheckApprovalNamingAny(x) ==
    /\ server[x].pc = "received"
    /\ Event(x) \notin Refused /\ Presented(x) # NoId
    /\ ServerTo(x, [server[x] EXCEPT !.pc = "appending", !.approval = Presented(x),
            !.decision = IF Permits(Event(x), Presented(x)) THEN "allow" ELSE "deny"])
    /\ UNCHANGED <<clock, requests, filed, log, client, life>>

\* Evaluate with an approval: the packs are not consulted.
CheckApproval(x) ==
    /\ server[x].pc = "received"
    /\ Event(x) \notin Refused /\ Presented(x) # NoId
    /\ \/ /\ Permits(Event(x), Presented(x))
          /\ ServerTo(x, [server[x] EXCEPT !.pc = "appending", !.decision = "allow",
                                           !.approval = Presented(x)])
       \/ /\ requests[KeyOf(Event(x), Presented(x))] # NoRequest
          /\ ~Permits(Event(x), Presented(x))
          /\ ServerTo(x, [server[x] EXCEPT !.pc = "appending", !.decision = "deny",
                                           !.approval = Presented(x)])
       \/ ServerTo(x, [server[x] EXCEPT !.pc = "appending", !.decision = "deny"])
    /\ UNCHANGED <<clock, requests, filed, log, client, life>>

\* The store files the request of an evaluation under the next id.
File(x) ==
    /\ filed < MaxRequests
    /\ filed' = filed + 1
    /\ Lifecycle!Create(KeyOf(Event(x), filed'), Event(x), clock, server[x].until)

\* Mutant: the id of the request does not reach the result.
CreateForgotten(x) ==
    /\ server[x].pc = "creating"
    /\ File(x)
    /\ ServerAt(x, "appending")
    /\ UNCHANGED <<clock, log, client, life>>

CreateApproval(x) ==
    /\ server[x].pc = "creating"
    /\ File(x)
    /\ ServerTo(x, [server[x] EXCEPT !.pc = "appending", !.approval = filed'])
    /\ UNCHANGED <<clock, log, client, life>>

\* Create reports an error; a request may have been filed all the same, when the
\* answer of a committed insert was lost.
CreateFails(x) ==
    /\ server[x].pc = "creating"
    /\ ServerAt(x, "failed")
    /\ File(x) \/ UNCHANGED <<requests, filed>>
    /\ UNCHANGED <<clock, log, client, life>>

RecordOf(x) ==
    [by |-> x, event |-> Event(x), presented |-> Presented(x),
     decision |-> server[x].decision, approval |-> server[x].approval]

AppendAudit(x) ==
    /\ server[x].pc = "appending"
    /\ log' = log \cup {RecordOf(x)}
    /\ ServerAt(x, "answered")
    /\ UNCHANGED <<clock, requests, filed, client, life>>

\* Mutant: an evaluation that could not be recorded is answered all the same.
AppendFailsQuietly(x) ==
    /\ server[x].pc = "appending"
    /\ ServerAt(x, "answered")
    /\ UNCHANGED <<clock, requests, filed, log, client, life>>

\* Append reports an error; the record may have been written all the same.
AppendFails(x) ==
    /\ server[x].pc = "appending"
    /\ log' \in {log, log \cup {RecordOf(x)}}
    /\ ServerAt(x, "failed")
    /\ UNCHANGED <<clock, requests, filed, client, life>>

--------------------------------------------------------------------------------

\* The answer lets the action run.
Cleared(x) ==
    /\ Waiting(x, "answered") /\ Allows(server[x].decision)
    /\ ClientAt(x, "cleared")
    /\ UNCHANGED <<clock, requests, filed, log, server, life>>

\* The first answer asks for an approval and there is a waiter.
AwaitApproval(x) ==
    /\ Waiting(x, "answered") /\ server[x].decision = "require_approval"
    /\ ~client[x].again
    /\ ClientAt(x, "waiting")
    /\ UNCHANGED <<clock, requests, filed, log, server, life>>

\* Mutant: a denied second evaluation goes back to waiting.
BlockedUnlessAgain(x) ==
    /\ Waiting(x, "answered") /\ ~Allows(server[x].decision)
    /\ ClientAt(x, IF client[x].again THEN "waiting" ELSE "blocked")
    /\ UNCHANGED <<clock, requests, filed, log, server, life>>

\* The answer does not let the action run; an answer that asks for an approval ends
\* the execution when no waiter is configured.
Blocked(x) ==
    /\ Waiting(x, "answered") /\ ~Allows(server[x].decision)
    /\ ClientAt(x, "blocked")
    /\ UNCHANGED <<clock, requests, filed, log, server, life>>

\* The evaluation failed, or its answer did not arrive; in the second case the server
\* finishes it with nobody listening.
EvaluationError(x) ==
    /\ client[x].pc = "asked"
    /\ ClientAt(x, "blocked")
    /\ UNCHANGED <<clock, requests, filed, log, server, life>>

\* The waiter returns an approved request: not necessarily the one it was asked to
\* wait for.  The event is submitted again with its id.
Resubmit(x) ==
    /\ client[x].pc = "waiting"
    /\ \E k \in Keys :
          /\ requests[k] # NoRequest /\ requests[k].status = "approved"
          /\ client' = [client EXCEPT ![x].pc = "asked", ![x].approval = k[2],
                                      ![x].again = TRUE]
    /\ ServerTo(x, Received)
    /\ UNCHANGED <<clock, requests, filed, log, life>>

\* The waiter fails, or returns a request that is not approved.
WaitEnds(x) ==
    /\ client[x].pc = "waiting"
    /\ ClientAt(x, "blocked")
    /\ UNCHANGED <<clock, requests, filed, log, server, life>>

\* The protected action.
Run(x) ==
    /\ client[x].pc = "cleared"
    /\ ClientAt(x, "ran")
    /\ UNCHANGED <<clock, requests, filed, log, server, life>>

\* A verdict reaches the store: under the lock of the one in memory, or over that of
\* a decider that read the request pending too.
Verdict(k, v, a, now) ==
    IF persistent THEN Lifecycle!Revise(k, v, a, now) ELSE Lifecycle!Decide(k, v, a, now)

\* An approver decides; the clock may have been read before the lock was taken.
DecideApproval ==
    /\ \E k \in Keys, v \in Lifecycle!Verdicts, a \in Actors, now \in 0..clock :
          /\ Verdict(k, v, a, now)
          /\ given' = IF v = "approved" THEN given \cup {k} ELSE given
    /\ UNCHANGED <<clock, filed, log, client, server, persistent, restarts, lost>>

\* Deciding a request past its deadline only marks it expired.
ExpireApproval ==
    /\ \E k \in Keys, now \in 0..clock :
          IF persistent THEN Lifecycle!Lapse(k, now) ELSE Lifecycle!Expire(k, now)
    /\ UNCHANGED <<clock, filed, log, client, server, life>>

MayRun(x) == client[x].pc \in {"cleared", "ran"}

\* Evaluations under way, and answers that have not arrived, are gone.
Interrupted ==
    [x \in Executions |->
        IF server[x].pc = "idle" \/ (server[x].pc = "answered" /\ client[x].pc # "asked")
        THEN server[x] ELSE [server[x] EXCEPT !.pc = "failed"]]

\* The stores in memory are new and empty.
StoresLost ==
    /\ requests' = [k \in Keys |-> NoRequest] /\ filed' = 0 /\ log' = {}
    /\ lost' = {x \in Executions : MayRun(x)} /\ given' = {}

\* Mutant: answers of before a restart are still taken.
RestartKeepingAnswers ==
    /\ restarts < MaxRestarts
    /\ restarts' = restarts + 1
    /\ ~persistent /\ StoresLost
    /\ UNCHANGED <<clock, client, server, persistent>>

\* The process ends and another one begins on the same kind of stores.
Restart ==
    /\ restarts < MaxRestarts
    /\ restarts' = restarts + 1
    /\ server' = Interrupted
    /\ \/ ~persistent /\ StoresLost
       \/ persistent /\ UNCHANGED <<requests, filed, log, lost, given>>
    /\ UNCHANGED <<clock, client, persistent>>

ServerStep(x) ==
    \/ Refuse(x) \/ Judge(x) \/ CheckApproval(x)
    \/ CreateApproval(x) \/ CreateFails(x) \/ AppendAudit(x) \/ AppendFails(x)

AnswerStep(x) == Cleared(x) \/ AwaitApproval(x) \/ Blocked(x) \/ EvaluationError(x)

Next ==
    \/ Tick \/ DecideApproval \/ ExpireApproval \/ Restart
    \/ \E x \in Executions :
          Submit(x) \/ ServerStep(x) \/ AnswerStep(x)
          \/ Resubmit(x) \/ WaitEnds(x) \/ Run(x)

Spec == Init /\ [][Next]_vars

\* A handler goroutine that can go on does, and so does an agent whose answer or
\* clearance is there.  Nothing is assumed of waiters, approvers or the clock, nor
\* that an operation is ever submitted.
Fairness ==
    \A x \in Executions :
        WF_vars(ServerStep(x)) /\ WF_vars(AnswerStep(x)) /\ WF_vars(Run(x))

FairSpec == Spec /\ Fairness

--------------------------------------------------------------------------------

\* Every variable keeps its type, and the server names only requests that were filed.
TypeOK ==
    /\ clock \in 0..MaxTime /\ filed \in 0..MaxRequests
    /\ requests \in [Keys -> Lifecycle!Request \cup {NoRequest}]
    /\ log \subseteq Record
    /\ client \in [Executions -> Client]
    /\ server \in [Executions -> Server]
    /\ \A x \in Executions :
          server[x].pc = "appending" => server[x].approval \in 1..filed \cup {NoId}
    /\ persistent \in BOOLEAN /\ restarts \in 0..MaxRestarts
    /\ lost \subseteq Executions /\ given \subseteq Keys

\* No action runs before the audit store holds an allowing answer to the very
\* submission that cleared it, whatever failed or was retried on the way, and whenever
\* the server was restarted; a restart that lost the store may take the record of an
\* action already cleared, and of no other (service.go:96-106, enforcer.go:86-119).
ExecutionIsRecorded ==
    \A x \in Executions : MayRun(x) /\ x \notin lost =>
        \E r \in log : /\ r.by = x /\ Allows(r.decision)
                       /\ r.event = Event(x) /\ r.presented = Presented(x)

\* An action that runs on an approval runs on one of its own tenant, given in time, for
\* an event with the same binding, whatever request the waiter returned, and whichever
\* request bore the id before a restart.  In memory the approval stands until the action
\* has run; in PostgreSQL a decider that raced the one who gave it may have replaced it
\* since, but has not left the request undecided (service.go:108-153,
\* approval/store.go:42, postgres/store.go:352-385).
ExecutionIsApproved ==
    \A x \in Executions : MayRun(x) /\ x \notin lost /\ Presented(x) # NoId =>
        LET request == requests[KeyOf(Event(x), Presented(x))]
        IN  /\ request # NoRequest /\ EventMatches(request.event, Event(x))
            /\ KeyOf(Event(x), Presented(x)) \in given /\ request.status # "pending"
            /\ ~persistent =>
                  request.status = "approved" /\ request.decidedAt <= request.expiresAt

\* What the log says of approvals can be looked up: an evaluation recorded as asking
\* for an approval names a filed request for its event, and no two of them the same
\* one; one recorded as allowed by an approval names a request that was approved in
\* time, and in memory still is (service.go:74-105).
RecordsAreBacked ==
    \A r \in log :
        /\ r.decision = "require_approval" =>
              /\ r.approval # NoId /\ requests[KeyOf(r.event, r.approval)] # NoRequest
              /\ requests[KeyOf(r.event, r.approval)].event = r.event
              /\ \A other \in log :
                    other.decision = "require_approval" /\ other.approval = r.approval
                      => other = r
        /\ r.decision = "allow" /\ r.presented # NoId =>
              /\ requests[KeyOf(r.event, r.presented)] # NoRequest
              /\ KeyOf(r.event, r.presented) \in given
              /\ ~persistent => requests[KeyOf(r.event, r.presented)].status = "approved"

Names(r, k) == KeyOf(r.event, r.approval) = k /\ r.decision = "require_approval"

\* A request that no record names is the trace of an evaluation that is still to be
\* recorded or that failed (service.go:74-105).
OrphanHasCause ==
    \A k \in Keys :
        requests[k] # NoRequest /\ ~(\E r \in log : Names(r, k)) =>
            \E x \in Executions : /\ server[x].pc \in {"appending", "failed"}
                                  /\ server[x].decision = "require_approval"
                                  /\ Event(x) = requests[k].event

\* How far an execution has come.
Stage(c) ==
    CASE c.pc = "ready" -> 0
      [] c.pc = "asked" -> IF c.again THEN 3 ELSE 1
      [] c.pc = "waiting" -> 2
      [] c.pc = "cleared" -> 4
      [] OTHER -> 5

\* No step of an agent, of the server or of a restart takes an execution back: it submits
\* its event at most twice and runs its action at most once, whatever the answers are
\* (enforcer.go:79-120).
ExecutionsAdvance ==
    [][\A x \in Executions :
          client'[x] = client[x] \/ Stage(client'[x]) > Stage(client[x])]_vars

\* Execute asks at most twice: it cannot go on submitting an event for ever, and an
\* evaluation it asked for is over, one way or the other, in the end
\* (enforcer.go:79-120).
ExecutionsSettle == \A x \in Executions : <>[](client[x].pc \notin {"asked", "cleared"})

================================================================================
