------------------------ MODULE RuntimeEnforcementProofs ------------------------
(****************************************************************************)
(* Theorems about RuntimeEnforcement: whatever the packs say and however    *)
(* they are edited, whichever store call fails, however agents, approvers,  *)
(* restarts and the clock interleave, no protected action runs unrecorded   *)
(* or on an approval that does not bind it, and requests and records        *)
(* account for each other.                                                  *)
(****************************************************************************)
EXTENDS RuntimeEnforcement, TLAPS

--------------------------------------------------------------------------------
(* The inductive invariant                                                    *)

\* A request bears an id the counter gave out, is filed under its tenant, and was
\* decided in time.
FiledRight ==
    \A k \in Keys : requests[k] # NoRequest =>
        /\ k[2] \in 1..filed /\ TenantOf[requests[k].event] = k[1]
        /\ requests[k].status \in Lifecycle!Verdicts =>
              requests[k].decidedAt <= requests[k].expiresAt

\* A request that is approved was approved in time, and one that ever was is there and
\* is not undecided again.
GivenRight ==
    \A k \in Keys :
        /\ requests[k] # NoRequest /\ requests[k].status = "approved" => k \in given
        /\ k \in given => requests[k] # NoRequest /\ requests[k].status # "pending"

\* An agent that submits has no evaluation under way, and only an evaluation that is to
\* ask for an approval files a request.
InStep ==
    \A x \in Executions :
        /\ client[x].pc = "ready" => server[x].pc = "idle"
        /\ client[x].pc = "waiting" => server[x].pc = "answered"
        /\ server[x].pc = "creating" => server[x].decision = "require_approval"
        /\ server[x].pc \in {"received", "creating"} => server[x].approval = NoId

\* The approval an execution presents was given, and binds its event; in memory it
\* still stands.
Approved(x) ==
    LET request == requests[KeyOf(Event(x), Presented(x))]
    IN  /\ request # NoRequest /\ EventMatches(request.event, Event(x))
        /\ KeyOf(Event(x), Presented(x)) \in given /\ request.status # "pending"
        /\ ~persistent =>
              request.status = "approved" /\ request.decidedAt <= request.expiresAt

Asks(x) == server[x].pc = "appending" /\ server[x].decision = "require_approval"

\* An allowing answer that is to be recorded or heard rests on an approval that binds,
\* one that was recorded is in the log.
AnswersBacked ==
    \A x \in Executions :
        /\ server[x].pc = "appending" \/ Waiting(x, "answered") =>
              (Allows(server[x].decision) /\ Presented(x) # NoId => Approved(x))
        /\ Waiting(x, "answered") => RecordOf(x) \in log

\* An evaluation that is to record that it asks for an approval has filed a request of
\* its own, which no record and no other evaluation names.
AskersApart ==
    /\ \A x \in Executions : Asks(x) =>
          /\ server[x].approval \in 1..filed
          /\ requests[KeyOf(Event(x), server[x].approval)] # NoRequest
          /\ requests[KeyOf(Event(x), server[x].approval)].event = Event(x)
          /\ \A y \in Executions : Asks(y) /\ server[y].approval = server[x].approval => y = x
          /\ \A r \in log : r.decision = "require_approval" => r.approval # server[x].approval
    /\ \A r \in log : r.decision = "require_approval" => r.approval \in 1..filed

\* The evaluation that filed a request no record names is still to record it, or failed.
Cause(x, k) ==
    /\ server[x].decision = "require_approval" /\ Event(x) = requests[k].event
    /\ \/ server[x].pc = "appending" /\ server[x].approval = k[2]
       \/ server[x].pc = "failed"

OrphansCaused ==
    \A k \in Keys : requests[k] # NoRequest =>
        (\E r \in log : Names(r, k)) \/ (\E x \in Executions : Cause(x, k))

Safe ==
    /\ TypeOK /\ FiledRight /\ GivenRight /\ InStep /\ AnswersBacked /\ AskersApart /\ OrphansCaused
    /\ ExecutionIsRecorded /\ ExecutionIsApproved /\ RecordsAreBacked

--------------------------------------------------------------------------------
(* What the operators do                                                      *)

LEMMA PendingRequestType ==
    ASSUME NEW e \in Events, NEW from \in Times, NEW until \in Times
    PROVE  /\ Lifecycle!PendingRequest(e, from, until) \in Lifecycle!Request
           /\ Lifecycle!PendingRequest(e, from, until).status = "pending"
           /\ Lifecycle!PendingRequest(e, from, until).event = e
  BY DEF Lifecycle!PendingRequest, Lifecycle!Request, Lifecycle!Statuses, Lifecycle!Verdicts

LEMMA DecidedType ==
    ASSUME NEW r \in Lifecycle!Request, NEW v \in Lifecycle!Verdicts, NEW a \in Actors,
           NEW now \in Times
    PROVE  /\ Lifecycle!Decided(r, v, a, now) \in Lifecycle!Request
           /\ Lifecycle!Decided(r, v, a, now).status = v
           /\ Lifecycle!Decided(r, v, a, now).decidedAt = now
           /\ Lifecycle!Decided(r, v, a, now).event = r.event
           /\ Lifecycle!Decided(r, v, a, now).expiresAt = r.expiresAt
  BY DEF Lifecycle!Decided, Lifecycle!Request, Lifecycle!Statuses, Lifecycle!Verdicts

LEMMA ExpiredType ==
    ASSUME NEW r \in Lifecycle!Request
    PROVE  /\ Lifecycle!Expired(r) \in Lifecycle!Request
           /\ Lifecycle!Expired(r).status = "expired"
           /\ Lifecycle!Expired(r).event = r.event
  BY DEF Lifecycle!Expired, Lifecycle!Request, Lifecycle!Statuses, Lifecycle!Verdicts

LEMMA AskedType ==
    ASSUME NEW r \in Lifecycle!Request
    PROVE  /\ Lifecycle!Asked(r) \in Lifecycle!Request
           /\ Lifecycle!Asked(r).event = r.event
           /\ Lifecycle!Asked(r).expiresAt = r.expiresAt
  BY DEF Lifecycle!Asked, Lifecycle!PendingRequest, Lifecycle!Request, Lifecycle!Statuses,
         Lifecycle!Verdicts

LEMMA KeyType ==
    ASSUME NEW e \in Events, NEW id \in Ids
    PROVE  KeyOf(e, id) \in Keys /\ KeyOf(e, id)[1] = TenantOf[e] /\ KeyOf(e, id)[2] = id
  BY EventAssumption DEF KeyOf, Keys

\* The numbers of the model are integers, and NoId none of the ids.
LEMMA Numbers ==
    ASSUME TypeOK
    PROVE  /\ clock \in Int /\ clock \in Times /\ 0..clock \subseteq Times
           /\ clock + TTL \in Times /\ 0 \in Times
           /\ filed \in Nat /\ 1..filed \subseteq Ids
  BY NumberAssumption DEF TypeOK, Times, Ids

\* An approver settles one request, in memory a pending one, and gives no verdict past its
\* deadline; the history has every approval.
Settled ==
    /\ requests' \in [Keys -> Lifecycle!Request \cup {NoRequest}] /\ given' \subseteq Keys
    /\ \A k \in Keys :
          \/ requests'[k] = requests[k] /\ (k \in given' <=> k \in given)
          \/ /\ requests[k] # NoRequest /\ requests'[k] # NoRequest
             /\ ~persistent => requests[k].status = "pending"
             /\ requests'[k].event = requests[k].event
             /\ requests'[k].status # "pending"
             /\ requests'[k].status \in Lifecycle!Verdicts =>
                   requests'[k].decidedAt <= requests'[k].expiresAt
             /\ k \in given' <=> k \in given \/ requests'[k].status = "approved"

\* What is stored under k makes way for r.
Makes(k, r) ==
    /\ r \in Lifecycle!Request /\ requests' = [requests EXCEPT ![k] = r]
    /\ requests[k] # NoRequest /\ r.event = requests[k].event
    /\ ~persistent => requests[k].status = "pending"
    /\ r.status # "pending"
    /\ r.status \in Lifecycle!Verdicts => r.decidedAt <= r.expiresAt
    /\ given' = IF r.status = "approved" THEN given \cup {k} ELSE given

LEMMA MakesSettles ==
    ASSUME TypeOK, NEW k \in Keys, NEW r, Makes(k, r)
    PROVE  Settled
<1>1. /\ requests' \in [Keys -> Lifecycle!Request \cup {NoRequest}]
      /\ requests'[k] = r /\ r # NoRequest
      /\ \A j \in Keys \ {k} : requests'[j] = requests[j]
  BY RequestAssumption DEF TypeOK, Makes
<1>2. /\ given' \subseteq Keys /\ \A j \in Keys \ {k} : j \in given' <=> j \in given
      /\ k \in given' <=> k \in given \/ r.status = "approved"
  BY DEF TypeOK, Makes
<1> QED BY <1>1, <1>2 DEF Makes, Settled

LEMMA SettledDoes ==
    ASSUME TypeOK, DecideApproval \/ ExpireApproval
    PROVE  Settled
<1>1. ASSUME NEW k \in Keys, requests[k] # NoRequest
      PROVE  /\ requests[k] \in Lifecycle!Request /\ requests[k].expiresAt \in Int
             /\ Lifecycle!Asked(requests[k]) \in Lifecycle!Request
             /\ Lifecycle!Asked(requests[k]).event = requests[k].event
             /\ Lifecycle!Asked(requests[k]).expiresAt = requests[k].expiresAt
  <2>1. requests[k] \in Lifecycle!Request
    BY <1>1 DEF TypeOK
  <2> QED BY <2>1, AskedType, NumberAssumption DEF Lifecycle!Request, Times
<1>2. ASSUME NEW k \in Keys, NEW v \in Lifecycle!Verdicts, NEW a \in Actors,
             NEW now \in 0..clock, Verdict(k, v, a, now),
             given' = IF v = "approved" THEN given \cup {k} ELSE given
      PROVE  Settled
  <2>1. /\ requests[k] # NoRequest /\ ~Lifecycle!Overdue(requests[k], now)
        /\ ~persistent => requests[k].status = "pending"
    BY <1>2 DEF Verdict, Lifecycle!Revise, Lifecycle!Decide, Lifecycle!IsPending
  <2>2. PICK old \in {requests[k], Lifecycle!Asked(requests[k])} :
           requests' = [requests EXCEPT ![k] = Lifecycle!Decided(old, v, a, now)]
    BY <1>2 DEF Verdict, Lifecycle!Revise, Lifecycle!Decide
  <2>3. /\ old \in Lifecycle!Request /\ old.event = requests[k].event
        /\ old.expiresAt = requests[k].expiresAt /\ old.expiresAt \in Int
    BY <1>1, <2>1
  <2>4. now \in Times /\ now \in Int
    BY Numbers
  <2>5. now <= old.expiresAt
    BY <2>1, <2>3, <2>4 DEF Lifecycle!Overdue
  <2> DEFINE r == Lifecycle!Decided(old, v, a, now)
  <2>6. /\ r \in Lifecycle!Request /\ r.event = requests[k].event
        /\ r.status = v /\ r.decidedAt <= r.expiresAt
    BY <2>3, <2>4, <2>5, DecidedType
  <2>7. requests' = [requests EXCEPT ![k] = r]
    BY <2>2
  <2> HIDE DEF r
  <2>8. Makes(k, r)
    BY <1>2, <2>1, <2>6, <2>7 DEF Makes, Lifecycle!Verdicts
  <2> QED BY <2>8, MakesSettles
<1>3. ASSUME NEW k \in Keys, NEW now \in 0..clock, UNCHANGED given,
             IF persistent THEN Lifecycle!Lapse(k, now) ELSE Lifecycle!Expire(k, now)
      PROVE  Settled
  <2>1. requests[k] # NoRequest /\ (~persistent => requests[k].status = "pending")
    BY <1>3 DEF Lifecycle!Lapse, Lifecycle!Expire, Lifecycle!IsPending
  <2>2. PICK old \in {requests[k], Lifecycle!Asked(requests[k])} :
           requests' = [requests EXCEPT ![k] = Lifecycle!Expired(old)]
    BY <1>3 DEF Lifecycle!Lapse, Lifecycle!Expire
  <2>3. old \in Lifecycle!Request /\ old.event = requests[k].event
    BY <1>1, <2>1
  <2> DEFINE r == Lifecycle!Expired(old)
  <2>4. r \in Lifecycle!Request /\ r.event = requests[k].event /\ r.status = "expired"
    BY <2>3, ExpiredType
  <2>5. requests' = [requests EXCEPT ![k] = r]
    BY <2>2
  <2> HIDE DEF r
  <2>6. Makes(k, r)
    BY <1>3, <2>1, <2>4, <2>5 DEF Makes, Lifecycle!Verdicts
  <2> QED BY <2>6, MakesSettles
<1> QED BY <1>2, <1>3 DEF DecideApproval, ExpireApproval, life

\* File adds one request, under an id that was not given out before.
LEMMA FileDoes ==
    ASSUME TypeOK, NEW x \in Executions, File(x)
    PROVE  /\ filed' = filed + 1 /\ filed' \in Ids /\ filed' \in 0..MaxRequests
           /\ requests' \in [Keys -> Lifecycle!Request \cup {NoRequest}]
           /\ requests[KeyOf(Event(x), filed')] = NoRequest
           /\ requests'[KeyOf(Event(x), filed')] # NoRequest
           /\ requests'[KeyOf(Event(x), filed')].event = Event(x)
           /\ requests'[KeyOf(Event(x), filed')].status = "pending"
           /\ \A k \in Keys : k # KeyOf(Event(x), filed') => requests'[k] = requests[k]
<1>1. Event(x) \in Events /\ server[x].until \in Times
  BY DEF TypeOK, Client, Server, Event
<1>2. filed' = filed + 1 /\ filed' \in Ids /\ filed' \in 0..MaxRequests
  BY NumberAssumption DEF TypeOK, File, Ids
<1> DEFINE k == KeyOf(Event(x), filed')
           r == Lifecycle!PendingRequest(Event(x), clock, server[x].until)
<1>3. k \in Keys /\ r \in Lifecycle!Request /\ r.event = Event(x) /\ r.status = "pending"
  BY <1>1, <1>2, KeyType, PendingRequestType, Numbers
<1>4. requests[k] = NoRequest /\ requests' = [requests EXCEPT ![k] = r]
  BY DEF File, Lifecycle!Create
<1> HIDE DEF k, r
<1>5. requests'[k] = r /\ \A j \in Keys \ {k} : requests'[j] = requests[j]
  BY <1>3, <1>4 DEF TypeOK
<1>6. requests' \in [Keys -> Lifecycle!Request \cup {NoRequest}]
  BY <1>3, <1>4 DEF TypeOK
<1>7. /\ requests[k] = NoRequest /\ requests'[k] # NoRequest
      /\ requests'[k].event = Event(x) /\ requests'[k].status = "pending"
      /\ \A j \in Keys : j # k => requests'[j] = requests[j]
  BY <1>3, <1>4, <1>5, RequestAssumption
<1> QED BY <1>2, <1>6, <1>7 DEF k

--------------------------------------------------------------------------------
(* Typing                                                                     *)

LEMMA TypeInit == Init => TypeOK
<1> SUFFICES ASSUME Init PROVE TypeOK
  OBVIOUS
<1>1. PICK start \in Starts :
         /\ persistent = start.persistent
         /\ client = [x \in Executions |->
                         [pc |-> "ready", event |-> start.calls[x].event,
                          approval |-> start.calls[x].approval, again |-> FALSE]]
  BY DEF Init
<1>2. /\ start.calls \in [Executions -> [event : Events, approval : Ids \cup {NoId}]]
      /\ persistent \in BOOLEAN
  BY <1>1, NumberAssumption
<1>3. client \in [Executions -> Client]
  BY <1>1, <1>2 DEF Client
<1>4. 0 \in Times /\ 0 \in 0..MaxTime /\ 0 \in 0..MaxRequests /\ 0 \in 0..MaxRestarts
  BY NumberAssumption DEF Times
<1>5. server \in [Executions -> Server] /\ \A x \in Executions : server[x].pc = "idle"
  BY <1>4 DEF Init, Received, Server, Decisions
<1> QED BY <1>2, <1>3, <1>4, <1>5 DEF Init, TypeOK, Lifecycle!Init

\* The server's answer to one execution changes.
LEMMA ServerTyped ==
    ASSUME TypeOK, NEW x \in Executions, NEW s \in Server, ServerTo(x, s),
           s.pc = "appending" => s.approval \in 1..filed' \cup {NoId},
           UNCHANGED <<clock, client, life>>,
           requests' \in [Keys -> Lifecycle!Request \cup {NoRequest}],
           filed' \in 0..MaxRequests, filed <= filed', log' \subseteq Record
    PROVE  TypeOK'
<1>1. 1..filed \subseteq 1..filed'
  BY Numbers
<1> QED BY <1>1 DEF TypeOK, ServerTo, life

\* The client of one execution moves.
LEMMA ClientTyped ==
    ASSUME TypeOK, NEW x \in Executions,
           NEW label \in {"ready", "asked", "waiting", "cleared", "ran", "blocked"},
           ClientAt(x, label)
    PROVE  client' \in [Executions -> Client]
  BY DEF TypeOK, ClientAt, Client

LEMMA ServerAtType ==
    ASSUME TypeOK, NEW x \in Executions,
           NEW label \in {"idle", "received", "creating", "appending", "answered", "failed"}
    PROVE  /\ [server[x] EXCEPT !.pc = label] \in Server
           /\ [server[x] EXCEPT !.pc = label].pc = label
           /\ [server[x] EXCEPT !.pc = label].decision = server[x].decision
           /\ [server[x] EXCEPT !.pc = label].approval = server[x].approval
  BY DEF TypeOK, Server

LEMMA RecordOfType ==
    ASSUME TypeOK, NEW x \in Executions
    PROVE  /\ RecordOf(x) \in Record /\ RecordOf(x).by = x
           /\ RecordOf(x).event = Event(x) /\ RecordOf(x).presented = Presented(x)
           /\ RecordOf(x).decision = server[x].decision
           /\ RecordOf(x).approval = server[x].approval
  BY DEF TypeOK, RecordOf, Record, Server, Client, Event, Presented

LEMMA ReceivedType ==
    ASSUME TypeOK
    PROVE  Received \in Server /\ Received.pc = "received"
  BY Numbers DEF Received, Server, Decisions

\* What CheckApproval makes of an evaluation.
LEMMA CheckApprovalDoes ==
    ASSUME TypeOK, FiledRight, InStep, NEW x \in Executions, CheckApproval(x)
    PROVE  \E s \in Server :
              /\ ServerTo(x, s) /\ s.pc = "appending"
              /\ s.approval \in 1..filed \cup {NoId}
              /\ s.decision \in {"allow", "deny"}
              /\ s.decision = "allow" => Permits(Event(x), Presented(x))
<1>1. /\ server[x] \in Server /\ Event(x) \in Events /\ Presented(x) \in Ids
      /\ server[x].approval = NoId
  BY DEF TypeOK, InStep, CheckApproval, Client, Event, Presented
<1>2. requests[KeyOf(Event(x), Presented(x))] # NoRequest => Presented(x) \in 1..filed
  BY <1>1, KeyType DEF FiledRight
<1>3. ASSUME NEW d \in {"allow", "deny"}
      PROVE  /\ [server[x] EXCEPT !.pc = "appending", !.decision = d,
                                  !.approval = Presented(x)] \in Server
             /\ [server[x] EXCEPT !.pc = "appending", !.decision = d,
                                  !.approval = Presented(x)].pc = "appending"
             /\ [server[x] EXCEPT !.pc = "appending", !.decision = d,
                                  !.approval = Presented(x)].decision = d
             /\ [server[x] EXCEPT !.pc = "appending", !.decision = d,
                                  !.approval = Presented(x)].approval = Presented(x)
  BY <1>1 DEF Server, Decisions
<1>4. /\ [server[x] EXCEPT !.pc = "appending", !.decision = "deny"] \in Server
      /\ [server[x] EXCEPT !.pc = "appending", !.decision = "deny"].pc = "appending"
      /\ [server[x] EXCEPT !.pc = "appending", !.decision = "deny"].decision = "deny"
      /\ [server[x] EXCEPT !.pc = "appending", !.decision = "deny"].approval
            = server[x].approval
  BY <1>1 DEF Server, Decisions
<1>5. CASE /\ Permits(Event(x), Presented(x))
           /\ ServerTo(x, [server[x] EXCEPT !.pc = "appending", !.decision = "allow",
                                            !.approval = Presented(x)])
  <2>1. Presented(x) \in 1..filed
    BY <1>2, <1>5 DEF Permits
  <2> QED BY <1>3, <1>5, <2>1
<1>6. CASE /\ requests[KeyOf(Event(x), Presented(x))] # NoRequest
           /\ ServerTo(x, [server[x] EXCEPT !.pc = "appending", !.decision = "deny",
                                            !.approval = Presented(x)])
  BY <1>2, <1>3, <1>6
<1>7. CASE ServerTo(x, [server[x] EXCEPT !.pc = "appending", !.decision = "deny"])
  BY <1>1, <1>4, <1>7
<1> QED BY <1>5, <1>6, <1>7 DEF CheckApproval

\* Judge asks for a request to be filed, or decides without one.
LEMMA JudgeDoes ==
    ASSUME TypeOK, NEW x \in Executions, Judge(x)
    PROVE  \E s \in Server :
              /\ ServerTo(x, s) /\ s.approval = NoId
              /\ \/ s.pc = "creating" /\ s.decision = "require_approval"
                 \/ s.pc = "appending" /\ s.decision # "require_approval"
<1>1. PICK d \in Outcomes :
         ServerTo(x, [pc |-> IF d = "require_approval" THEN "creating" ELSE "appending",
                      decision |-> d, approval |-> NoId, until |-> clock + TTL])
  BY DEF Judge
<1>2. d \in Decisions /\ clock + TTL \in Times
  BY EventAssumption, Numbers
<1>3. CASE d = "require_approval"
  <2> DEFINE s == [pc |-> "creating", decision |-> d, approval |-> NoId,
                   until |-> clock + TTL]
  <2>1. s \in Server /\ s.pc = "creating" /\ s.decision = d /\ s.approval = NoId
    BY <1>2 DEF Server
  <2>2. ServerTo(x, s)
    BY <1>1, <1>3
  <2> QED BY <1>3, <2>1, <2>2
<1>4. CASE d # "require_approval"
  <2> DEFINE s == [pc |-> "appending", decision |-> d, approval |-> NoId,
                   until |-> clock + TTL]
  <2>1. s \in Server /\ s.pc = "appending" /\ s.decision = d /\ s.approval = NoId
    BY <1>2 DEF Server
  <2>2. ServerTo(x, s)
    BY <1>1, <1>4
  <2> QED BY <1>4, <2>1, <2>2
<1> QED BY <1>3, <1>4

\* CreateApproval takes the id that was given out on.
LEMMA CreateApprovalDoes ==
    ASSUME TypeOK, NEW x \in Executions, CreateApproval(x)
    PROVE  \E s \in Server :
              /\ ServerTo(x, s) /\ s.pc = "appending" /\ s.approval = filed'
              /\ s.decision = server[x].decision
<1> DEFINE s == [server[x] EXCEPT !.pc = "appending", !.approval = filed']
<1>1. filed' \in Ids
  BY FileDoes DEF CreateApproval
<1>2. s \in Server /\ s.pc = "appending" /\ s.approval = filed'
      /\ s.decision = server[x].decision
  BY <1>1 DEF TypeOK, Server
<1>3. ServerTo(x, s)
  BY DEF CreateApproval
<1> HIDE DEF s
<1> QED BY <1>2, <1>3

\* Every evaluation under way when the server dies has failed when it is back.
LEMMA InterruptedType ==
    ASSUME TypeOK
    PROVE  /\ Interrupted \in [Executions -> Server]
           /\ \A x \in Executions :
                 \/ /\ Interrupted[x] = server[x]
                    /\ \/ server[x].pc = "idle"
                       \/ server[x].pc = "answered" /\ client[x].pc # "asked"
                 \/ /\ Interrupted[x].pc = "failed"
                    /\ Interrupted[x].decision = server[x].decision
                    /\ server[x].pc # "idle"
                    /\ server[x].pc = "answered" => client[x].pc = "asked"
<1>1. \A x \in Executions :
         /\ [server[x] EXCEPT !.pc = "failed"] \in Server
         /\ [server[x] EXCEPT !.pc = "failed"].pc = "failed"
         /\ [server[x] EXCEPT !.pc = "failed"].decision = server[x].decision
  BY ServerAtType
<1> QED BY <1>1 DEF Interrupted, TypeOK

LEMMA TypeStep == TypeOK /\ FiledRight /\ InStep /\ [Next]_vars => TypeOK'
<1> SUFFICES ASSUME TypeOK, FiledRight, InStep, [Next]_vars PROVE TypeOK'
  OBVIOUS
<1>0. /\ requests \in [Keys -> Lifecycle!Request \cup {NoRequest}]
      /\ filed \in 0..MaxRequests /\ filed <= filed /\ log \subseteq Record
  BY NumberAssumption DEF TypeOK
<1>1. CASE UNCHANGED vars
  BY <1>1 DEF TypeOK, vars, life
<1>2. CASE Tick
  BY <1>2, NumberAssumption DEF TypeOK, Tick, life
<1>3. CASE DecideApproval \/ ExpireApproval
  <2>1. requests' \in [Keys -> Lifecycle!Request \cup {NoRequest}] /\ given' \subseteq Keys
    BY <1>3, SettledDoes DEF Settled
  <2> QED BY <1>3, <2>1 DEF TypeOK, DecideApproval, ExpireApproval, life
<1>4. CASE Restart
  <2>1. restarts' \in 0..MaxRestarts /\ lost' \subseteq Executions /\ given' \subseteq Keys
    BY <1>4, NumberAssumption DEF TypeOK, Restart, StoresLost
  <2>2. /\ requests' \in [Keys -> Lifecycle!Request \cup {NoRequest}]
        /\ filed' \in 0..MaxRequests /\ log' \subseteq Record
    BY <1>4, NumberAssumption DEF TypeOK, Restart, StoresLost
  <2>3. server' \in [Executions -> Server] /\ \A x \in Executions : server'[x].pc # "appending"
    BY <1>4, InterruptedType DEF Restart
  <2> QED BY <1>4, <2>1, <2>2, <2>3 DEF TypeOK, Restart
<1>5. ASSUME NEW x \in Executions, Submit(x) \/ Resubmit(x) PROVE TypeOK'
  <2>1. client' \in [Executions -> Client]
    <3>1. CASE Submit(x)
      BY <3>1, ClientTyped DEF Submit
    <3>2. CASE Resubmit(x)
      <4>1. PICK k \in Keys : client' = [client EXCEPT ![x].pc = "asked",
                                             ![x].approval = k[2], ![x].again = TRUE]
        BY <3>2 DEF Resubmit
      <4>2. k[2] \in Ids
        BY DEF Keys
      <4> QED BY <4>1, <4>2 DEF TypeOK, Client
    <3> QED BY <1>5, <3>1, <3>2
  <2>2. ServerTo(x, Received) /\ UNCHANGED <<clock, requests, filed, log, life>>
    BY <1>5 DEF Submit, Resubmit
  <2> QED BY <2>1, <2>2, ReceivedType DEF TypeOK, ServerTo, life
<1>6. ASSUME NEW x \in Executions, Refuse(x) PROVE TypeOK'
  BY <1>0, <1>6, ServerAtType, ServerTyped DEF Refuse, ServerAt
<1>7. ASSUME NEW x \in Executions, Judge(x) PROVE TypeOK'
  <2>1. UNCHANGED <<clock, requests, filed, log, client, life>>
    BY <1>7 DEF Judge
  <2> QED BY <1>0, <1>7, <2>1, JudgeDoes, ServerTyped
<1>8. ASSUME NEW x \in Executions, CheckApproval(x) PROVE TypeOK'
  <2>1. UNCHANGED <<clock, requests, filed, log, client, life>>
    BY <1>8 DEF CheckApproval
  <2> QED BY <1>0, <1>8, <2>1, CheckApprovalDoes, ServerTyped
<1>9. ASSUME NEW x \in Executions, CreateApproval(x) PROVE TypeOK'
  <2>1. UNCHANGED <<clock, log, client, life>> /\ File(x)
    BY <1>9 DEF CreateApproval
  <2>2. filed' \in 1..filed' \cup {NoId} /\ filed <= filed'
    BY <2>1, FileDoes, Numbers
  <2> QED BY <1>0, <1>9, <2>1, <2>2, FileDoes, CreateApprovalDoes, ServerTyped
<1>10. ASSUME NEW x \in Executions, CreateFails(x) PROVE TypeOK'
  <2>1. UNCHANGED <<clock, log, client, life>> /\ ServerAt(x, "failed")
    BY <1>10 DEF CreateFails
  <2>2. /\ requests' \in [Keys -> Lifecycle!Request \cup {NoRequest}]
        /\ filed' \in 0..MaxRequests /\ filed <= filed'
    <3>1. File(x) => filed <= filed'
      BY FileDoes, Numbers
    <3> QED BY <1>0, <1>10, <3>1, FileDoes DEF CreateFails
  <2> QED BY <1>0, <2>1, <2>2, ServerAtType, ServerTyped DEF ServerAt
<1>11. ASSUME NEW x \in Executions, AppendAudit(x) \/ AppendFails(x) PROVE TypeOK'
  <2>1. UNCHANGED <<clock, requests, filed, client, life>> /\ log' \subseteq Record
    BY <1>0, <1>11, RecordOfType DEF AppendAudit, AppendFails
  <2>2. PICK label \in {"answered", "failed"} : ServerAt(x, label)
    BY <1>11 DEF AppendAudit, AppendFails
  <2> QED BY <1>0, <2>1, <2>2, ServerAtType, ServerTyped DEF ServerAt
<1>12. ASSUME NEW x \in Executions,
              AnswerStep(x) \/ WaitEnds(x) \/ Run(x)
       PROVE  TypeOK'
  <2>1. UNCHANGED <<clock, requests, filed, log, server, life>>
    BY <1>12 DEF AnswerStep, Cleared, AwaitApproval, Blocked, EvaluationError, WaitEnds, Run
  <2>2. PICK label \in {"cleared", "waiting", "blocked", "ran"} : ClientAt(x, label)
    BY <1>12 DEF AnswerStep, Cleared, AwaitApproval, Blocked, EvaluationError, WaitEnds, Run
  <2> QED BY <2>1, <2>2, ClientTyped DEF TypeOK, life
<1> QED
  BY <1>1, <1>2, <1>3, <1>4, <1>5, <1>6, <1>7, <1>8, <1>9, <1>10, <1>11, <1>12
  DEF Next, ServerStep

--------------------------------------------------------------------------------
(* The shapes of a step                                                       *)

\* A step of x is a step of x alone.
Mine(x) ==
    \A y \in Executions \ {x} : client'[y] = client[y] /\ server'[y] = server[y]

Quiet == UNCHANGED <<requests, filed, log, persistent, lost, given>>

\* The agent submits its event.
Sends(x) ==
    /\ Mine(x) /\ Quiet
    /\ client[x].pc \in {"ready", "waiting"}
    /\ client'[x].pc = "asked" /\ client'[x].event = client[x].event
    /\ server'[x] = Received

\* The agent goes on.
Hears(x) ==
    /\ Mine(x) /\ Quiet
    /\ server'[x] = server[x]
    /\ client'[x].event = client[x].event /\ client'[x].approval = client[x].approval
    /\ \/ /\ client'[x].pc = "cleared" /\ Waiting(x, "answered")
          /\ Allows(server[x].decision)
       \/ client'[x].pc = "waiting" /\ Waiting(x, "answered")
       \/ client'[x].pc = "ran" /\ client[x].pc = "cleared"
       \/ client'[x].pc = "blocked" /\ client[x].pc \in {"asked", "waiting"}

\* The evaluation ends with an error, without a write.
Fails(x) ==
    /\ Mine(x) /\ Quiet
    /\ client'[x] = client[x]
    /\ server[x].pc \in {"received", "creating"} /\ server'[x].pc = "failed"

\* The evaluation comes to a decision.
Decides(x) ==
    /\ Mine(x) /\ Quiet
    /\ client'[x] = client[x] /\ server[x].pc = "received"
    /\ \/ /\ server'[x].pc = "creating" /\ server'[x].decision = "require_approval"
          /\ server'[x].approval = NoId
       \/ /\ server'[x].pc = "appending" /\ server'[x].decision # "require_approval"
          /\ \/ Presented(x) = NoId
             \/ server'[x].decision = "deny"
             \/ Presented(x) \in Ids /\ Permits(Event(x), Presented(x))

\* The evaluation files a request, and may not hear of it.
Files(x) ==
    /\ Mine(x) /\ UNCHANGED <<log, persistent, lost, given>> /\ File(x)
    /\ client'[x] = client[x] /\ server[x].pc = "creating"
    /\ server'[x].decision = server[x].decision
    /\ \/ server'[x].pc = "appending" /\ server'[x].approval = filed'
       \/ server'[x].pc = "failed"

\* The evaluation is recorded, or not, or its record is not heard of.
Appends(x) ==
    /\ Mine(x) /\ UNCHANGED <<requests, filed, persistent, lost, given>>
    /\ client'[x] = client[x] /\ server[x].pc = "appending"
    /\ server'[x].decision = server[x].decision
    /\ server'[x].approval = server[x].approval
    /\ \/ server'[x].pc = "answered" /\ log' = log \cup {RecordOf(x)}
       \/ server'[x].pc = "failed" /\ log' \in {log, log \cup {RecordOf(x)}}

Acts(x) == Sends(x) \/ Hears(x) \/ Fails(x) \/ Decides(x) \/ Files(x) \/ Appends(x)

\* Nothing but the clock or a request moves.
Outside ==
    /\ UNCHANGED <<filed, log, client, server, persistent, lost>>
    /\ UNCHANGED <<requests, given>> \/ Settled

Restarts ==
    /\ UNCHANGED <<client, persistent>> /\ server' = Interrupted
    /\ StoresLost \/ UNCHANGED <<requests, filed, log, lost, given>>

LEMMA ServerToDoes ==
    ASSUME TypeOK, NEW x \in Executions, NEW s, ServerTo(x, s), UNCHANGED client
    PROVE  Mine(x) /\ server'[x] = s /\ client'[x] = client[x]
  BY DEF TypeOK, ServerTo, Mine

LEMMA ServerAtDoes ==
    ASSUME TypeOK, NEW x \in Executions, NEW label \in {"answered", "failed"},
           ServerAt(x, label), UNCHANGED client
    PROVE  /\ Mine(x) /\ client'[x] = client[x]
           /\ server'[x].pc = label /\ server'[x].decision = server[x].decision
           /\ server'[x].approval = server[x].approval
<1> DEFINE s == [server[x] EXCEPT !.pc = label]
<1>1. /\ s.pc = label /\ s.decision = server[x].decision /\ s.approval = server[x].approval
  BY ServerAtType
<1>2. ServerTo(x, s)
  BY DEF ServerAt
<1> HIDE DEF s
<1> QED BY <1>1, <1>2, ServerToDoes

LEMMA ClientAtDoes ==
    ASSUME TypeOK, NEW x \in Executions, NEW label, ClientAt(x, label), UNCHANGED server
    PROVE  /\ Mine(x) /\ server'[x] = server[x]
           /\ client'[x].pc = label /\ client'[x].event = client[x].event
           /\ client'[x].approval = client[x].approval
  BY DEF TypeOK, ClientAt, Mine, Client

LEMMA Shapes ==
    ASSUME TypeOK, FiledRight, InStep, [Next]_vars
    PROVE  Outside \/ Restarts \/ \E x \in Executions : Acts(x)
<1>1. CASE UNCHANGED vars \/ Tick
  BY <1>1 DEF vars, Tick, life, Outside
<1>2. CASE DecideApproval \/ ExpireApproval
  BY <1>2, SettledDoes DEF DecideApproval, ExpireApproval, life, Outside
<1>3. CASE Restart
  BY <1>3 DEF Restart, Restarts
<1>4. ASSUME NEW x \in Executions, Submit(x) PROVE Sends(x)
  <2>1. /\ client' = [client EXCEPT ![x].pc = "asked"] /\ server' = [server EXCEPT ![x] = Received]
        /\ client[x].pc = "ready" /\ Quiet
    BY <1>4 DEF Submit, ClientAt, ServerTo, Quiet, life
  <2> QED BY <2>1 DEF Sends, Mine, TypeOK, Client
<1>5. ASSUME NEW x \in Executions, Resubmit(x) PROVE Sends(x)
  <2>1. PICK k \in Keys : client' = [client EXCEPT ![x].pc = "asked", ![x].approval = k[2],
                                                   ![x].again = TRUE]
    BY <1>5 DEF Resubmit
  <2>2. server' = [server EXCEPT ![x] = Received] /\ client[x].pc = "waiting" /\ Quiet
    BY <1>5 DEF Resubmit, ServerTo, Quiet, life
  <2> QED BY <2>1, <2>2 DEF Sends, Mine, TypeOK, Client
<1>6. ASSUME NEW x \in Executions, Refuse(x) PROVE Fails(x)
  BY <1>6, ServerAtDoes DEF Refuse, Fails, Quiet, life
<1>7. ASSUME NEW x \in Executions, Judge(x) PROVE Decides(x)
  <2>1. UNCHANGED client /\ Quiet /\ server[x].pc = "received" /\ Presented(x) = NoId
    BY <1>7 DEF Judge, Quiet, life
  <2> QED BY <1>7, <2>1, JudgeDoes, ServerToDoes DEF Decides
<1>8. ASSUME NEW x \in Executions, CheckApproval(x) PROVE Decides(x)
  <2>1. UNCHANGED client /\ Quiet /\ server[x].pc = "received" /\ Presented(x) \in Ids
    BY <1>8 DEF CheckApproval, Quiet, life, TypeOK, Client, Presented
  <2> QED BY <1>8, <2>1, CheckApprovalDoes, ServerToDoes DEF Decides
<1>9. ASSUME NEW x \in Executions, CreateApproval(x) PROVE Files(x)
  <2>1. /\ UNCHANGED <<client, log, persistent, lost, given>> /\ File(x) /\ server[x].pc = "creating"
    BY <1>9 DEF CreateApproval, life
  <2> QED BY <1>9, <2>1, CreateApprovalDoes, ServerToDoes DEF Files
<1>10. ASSUME NEW x \in Executions, CreateFails(x) PROVE Fails(x) \/ Files(x)
  <2>1. /\ UNCHANGED <<client, log, persistent, lost, given>> /\ server[x].pc = "creating"
        /\ File(x) \/ UNCHANGED <<requests, filed>>
        /\ ServerAt(x, "failed")
    BY <1>10 DEF CreateFails, life
  <2> QED BY <2>1, ServerAtDoes DEF Fails, Files, Quiet
<1>11. ASSUME NEW x \in Executions, AppendAudit(x) PROVE Appends(x)
  BY <1>11, ServerAtDoes DEF AppendAudit, Appends, life
<1>12. ASSUME NEW x \in Executions, AppendFails(x) PROVE Appends(x)
  BY <1>12, ServerAtDoes DEF AppendFails, Appends, life
<1>13. ASSUME NEW x \in Executions, AnswerStep(x) \/ WaitEnds(x) \/ Run(x) PROVE Hears(x)
  <2>1. UNCHANGED server /\ Quiet
    BY <1>13 DEF AnswerStep, Cleared, AwaitApproval, Blocked, EvaluationError, WaitEnds, Run,
                 Quiet, life
  <2>2. \/ ClientAt(x, "cleared") /\ Waiting(x, "answered") /\ Allows(server[x].decision)
        \/ ClientAt(x, "waiting") /\ Waiting(x, "answered")
        \/ ClientAt(x, "ran") /\ client[x].pc = "cleared"
        \/ ClientAt(x, "blocked") /\ client[x].pc \in {"asked", "waiting"}
    BY <1>13 DEF AnswerStep, Cleared, AwaitApproval, Blocked, EvaluationError, WaitEnds, Run,
                 Waiting
  <2> QED BY <2>1, <2>2, ClientAtDoes DEF Hears
<1> QED
  BY <1>1, <1>2, <1>3, <1>4, <1>5, <1>6, <1>7, <1>8, <1>9, <1>10, <1>11, <1>12, <1>13
  DEF Next, ServerStep, Acts

--------------------------------------------------------------------------------
(* The parts of the invariant, one by one                                     *)

\* What is filed or recorded stays, a decided request never becomes pending again, and in
\* memory an approved one is never changed.
Kept ==
    /\ \A k \in Keys : requests[k] # NoRequest =>
          /\ requests'[k] # NoRequest /\ requests'[k].event = requests[k].event
          /\ requests[k].status # "pending" => requests'[k].status # "pending"
          /\ ~persistent /\ requests[k].status = "approved" => requests'[k] = requests[k]
    /\ given \subseteq given' /\ persistent' = persistent
    /\ filed' \in Nat /\ filed <= filed' /\ log \subseteq log' /\ lost' = lost

LEMMA KeepsAll ==
    ASSUME TypeOK, Outside \/ \E x \in Executions : Acts(x)
    PROVE  Kept
<1>0. filed \in Nat /\ filed <= filed
  BY Numbers
<1>1. CASE Outside
  <2>1. given \subseteq given'
    BY <1>1 DEF Outside, Settled, TypeOK
  <2> QED BY <1>0, <1>1, <2>1 DEF Outside, Settled, Kept
<1>2. ASSUME NEW x \in Executions, Sends(x) \/ Hears(x) \/ Fails(x) \/ Decides(x)
      PROVE  Kept
  BY <1>0, <1>2 DEF Sends, Hears, Fails, Decides, Quiet, Kept
<1>3. ASSUME NEW x \in Executions, Files(x) PROVE Kept
  <2>1. filed' \in Nat /\ filed <= filed'
    BY <1>0, <1>3, FileDoes DEF Files
  <2>2. \A k \in Keys : requests[k] # NoRequest => requests'[k] = requests[k]
    BY <1>3, FileDoes DEF Files
  <2> QED BY <1>3, <2>1, <2>2 DEF Files, Kept
<1>4. ASSUME NEW x \in Executions, Appends(x) PROVE Kept
  BY <1>0, <1>4 DEF Appends, Kept
<1> QED BY <1>1, <1>2, <1>3, <1>4 DEF Acts

\* An execution never submits another event.
LEMMA EventsStay ==
    ASSUME TypeOK, Outside \/ Restarts \/ \E x \in Executions : Acts(x),
           NEW y \in Executions
    PROVE  client'[y].event = client[y].event
<1>1. CASE Outside \/ Restarts
  BY <1>1 DEF Outside, Restarts
<1>2. ASSUME NEW x \in Executions, Acts(x), y = x PROVE client'[y].event = client[y].event
  BY <1>2 DEF Acts, Sends, Hears, Fails, Decides, Files, Appends
<1>3. ASSUME NEW x \in Executions, Acts(x), y # x PROVE client'[y].event = client[y].event
  BY <1>3 DEF Acts, Sends, Hears, Fails, Decides, Files, Appends, Mine
<1> QED BY <1>1, <1>2, <1>3

LEMMA FiledRightStep ==
    ASSUME TypeOK, FiledRight, Outside \/ Restarts \/ \E x \in Executions : Acts(x)
    PROVE  FiledRight'
<1>1. CASE Outside
  <2> SUFFICES ASSUME NEW k \in Keys, requests'[k] # NoRequest
               PROVE  /\ k[2] \in 1..filed' /\ TenantOf[requests'[k].event] = k[1]
                      /\ requests'[k].status \in Lifecycle!Verdicts =>
                            requests'[k].decidedAt <= requests'[k].expiresAt
    BY DEF FiledRight
  <2>1. filed' = filed
    BY <1>1 DEF Outside
  <2>2. CASE requests'[k] = requests[k]
    BY <2>1, <2>2 DEF FiledRight
  <2>3. CASE requests'[k] # requests[k]
    BY <1>1, <2>1, <2>3 DEF FiledRight, Outside, Settled
  <2> QED BY <2>2, <2>3
<1>2. CASE Restarts
  BY <1>2 DEF Restarts, StoresLost, FiledRight
<1>3. ASSUME NEW x \in Executions,
             Sends(x) \/ Hears(x) \/ Fails(x) \/ Decides(x) \/ Appends(x)
      PROVE  FiledRight'
  <2>1. UNCHANGED <<requests, filed>>
    BY <1>3 DEF Sends, Hears, Fails, Decides, Appends, Quiet
  <2> QED BY <2>1 DEF FiledRight
<1>4. ASSUME NEW x \in Executions, Files(x) PROVE FiledRight'
  <2> DEFINE new == KeyOf(Event(x), filed')
  <2>1. Event(x) \in Events
    BY DEF TypeOK, Client, Event
  <2>2. /\ filed' = filed + 1 /\ filed \in Nat /\ filed' \in Ids
        /\ requests'[new].event = Event(x) /\ requests'[new].status = "pending"
        /\ \A k \in Keys : k # new => requests'[k] = requests[k]
    BY <1>4, FileDoes, Numbers DEF Files
  <2>3. new[1] = TenantOf[Event(x)] /\ new[2] = filed'
    BY <2>1, <2>2, KeyType
  <2> HIDE DEF new
  <2>4. filed' \in 1..filed' /\ 1..filed \subseteq 1..filed'
    BY <2>2
  <2> QED BY <2>2, <2>3, <2>4 DEF FiledRight, Lifecycle!Verdicts
<1> QED BY <1>1, <1>2, <1>3, <1>4 DEF Acts

LEMMA GivenRightStep ==
    ASSUME TypeOK, GivenRight, Outside \/ Restarts \/ \E x \in Executions : Acts(x)
    PROVE  GivenRight'
<1>1. CASE Outside
  BY <1>1 DEF Outside, Settled, GivenRight
<1>2. CASE Restarts
  BY <1>2 DEF Restarts, StoresLost, GivenRight
<1>3. ASSUME NEW x \in Executions,
             Sends(x) \/ Hears(x) \/ Fails(x) \/ Decides(x) \/ Appends(x)
      PROVE  GivenRight'
  <2>1. UNCHANGED <<requests, given>>
    BY <1>3 DEF Sends, Hears, Fails, Decides, Appends, Quiet
  <2> QED BY <2>1 DEF GivenRight
<1>4. ASSUME NEW x \in Executions, Files(x) PROVE GivenRight'
  <2> DEFINE new == KeyOf(Event(x), filed')
  <2>1. /\ requests[new] = NoRequest /\ requests'[new].status = "pending"
        /\ \A k \in Keys : k # new => requests'[k] = requests[k]
        /\ given' = given
    BY <1>4, FileDoes DEF Files
  <2> HIDE DEF new
  <2> QED BY <2>1 DEF GivenRight
<1> QED BY <1>1, <1>2, <1>3, <1>4 DEF Acts

LEMMA InStepStep ==
    ASSUME TypeOK, InStep, Outside \/ Restarts \/ \E x \in Executions : Acts(x)
    PROVE  InStep'
<1> SUFFICES ASSUME NEW y \in Executions
             PROVE  /\ client'[y].pc = "ready" => server'[y].pc = "idle"
                    /\ client'[y].pc = "waiting" => server'[y].pc = "answered"
                    /\ server'[y].pc = "creating" => server'[y].decision = "require_approval"
                    /\ server'[y].pc \in {"received", "creating"} => server'[y].approval = NoId
  BY DEF InStep
<1>1. CASE client'[y] = client[y] /\ server'[y] = server[y]
  BY <1>1 DEF InStep
<1>2. CASE Restarts
  <2>1. \/ server'[y] = server[y]
        \/ server'[y].pc = "failed" /\ server[y].pc # "idle"
           /\ (server[y].pc = "answered" => client[y].pc = "asked")
    BY <1>2, InterruptedType DEF Restarts
  <2>2. client'[y] = client[y]
    BY <1>2 DEF Restarts
  <2> QED BY <2>1, <2>2 DEF InStep
<1>3. CASE Sends(y)
  BY <1>3 DEF Sends, Received
<1>4. CASE Hears(y)
  BY <1>4 DEF Hears, InStep, Waiting
<1>5. CASE Fails(y) \/ Decides(y)
  BY <1>5 DEF Fails, Decides, InStep
<1>6. CASE Files(y) \/ Appends(y)
  BY <1>6 DEF Files, Appends, InStep
<1>7. ASSUME NEW x \in Executions, Acts(x), x # y
      PROVE  client'[y] = client[y] /\ server'[y] = server[y]
  BY <1>7 DEF Acts, Sends, Hears, Fails, Decides, Files, Appends, Mine
<1> QED BY <1>1, <1>2, <1>3, <1>4, <1>5, <1>6, <1>7 DEF Outside, Acts

LEMMA ApprovedStays ==
    ASSUME TypeOK, Kept, NEW y \in Executions, Presented(y) # NoId, Approved(y),
           client'[y].event = client[y].event, client'[y].approval = client[y].approval
    PROVE  Approved(y)'
<1>1. Event(y) \in Events /\ Presented(y) \in Ids
  BY DEF TypeOK, Client, Event, Presented
<1>2. KeyOf(Event(y), Presented(y)) \in Keys
  BY <1>1, KeyType
<1> DEFINE k == KeyOf(Event(y), Presented(y))
<1>3. /\ requests'[k] # NoRequest /\ requests'[k].event = requests[k].event
      /\ k \in given' /\ requests'[k].status # "pending"
      /\ persistent' = persistent /\ (~persistent => requests'[k] = requests[k])
  BY <1>2 DEF Approved, Kept
<1>4. Event(y)' = Event(y) /\ Presented(y)' = Presented(y)
  BY DEF Event, Presented
<1> QED BY <1>3, <1>4 DEF Approved, KeyOf, EventMatches

LEMMA PermitsApproves ==
    ASSUME TypeOK, FiledRight, GivenRight, NEW y \in Executions, Presented(y) \in Ids,
           Permits(Event(y), Presented(y))
    PROVE  Approved(y)
<1>1. KeyOf(Event(y), Presented(y)) \in Keys
  BY KeyType DEF TypeOK, Client, Event
<1> QED BY <1>1 DEF Permits, Approved, FiledRight, GivenRight, Lifecycle!Verdicts

LEMMA AnswersBackedStep ==
    ASSUME TypeOK, FiledRight, GivenRight, InStep, AnswersBacked,
           Outside \/ Restarts \/ \E x \in Executions : Acts(x)
    PROVE  AnswersBacked'
<1> DEFINE Backed(y) ==
        /\ server[y].pc = "appending" \/ Waiting(y, "answered") =>
              (Allows(server[y].decision) /\ Presented(y) # NoId => Approved(y))
        /\ Waiting(y, "answered") => RecordOf(y) \in log
<1> SUFFICES ASSUME NEW y \in Executions PROVE Backed(y)'
  BY DEF AnswersBacked
<1>0. Backed(y) /\ Event(y)' = Event(y) /\ client'[y].event = client[y].event
  BY EventsStay DEF AnswersBacked, Event
<1>1. ASSUME client'[y] = client[y], server'[y] = server[y], Kept PROVE Backed(y)'
  <2>1. Presented(y)' = Presented(y) /\ RecordOf(y)' = RecordOf(y)
        /\ (Waiting(y, "answered"))' = Waiting(y, "answered")
    BY <1>0, <1>1 DEF Presented, RecordOf, Waiting
  <2>2. Approved(y) /\ Presented(y) # NoId => Approved(y)'
    BY <1>0, <1>1, ApprovedStays
  <2> QED BY <1>0, <1>1, <2>1, <2>2 DEF Kept
<1>2. CASE Restarts
  <2>1. ~(server'[y].pc = "appending") /\ ~(Waiting(y, "answered"))'
    BY <1>2, InterruptedType DEF Restarts, Waiting
  <2> QED BY <2>1
<1>3. CASE Sends(y) \/ Fails(y)
  BY <1>3 DEF Sends, Fails, Received, Waiting
<1>4. CASE Hears(y)
  <2>1. ~(Waiting(y, "answered"))' /\ server'[y] = server[y] /\ Presented(y)' = Presented(y)
    BY <1>4 DEF Hears, Waiting, Presented
  <2>2. Approved(y) /\ Presented(y) # NoId => Approved(y)'
    BY <1>0, <1>4, KeepsAll, ApprovedStays DEF Hears, Acts
  <2> QED BY <1>0, <2>1, <2>2
<1>5. CASE Decides(y)
  <2>1. ~(Waiting(y, "answered"))' /\ Presented(y)' = Presented(y)
    BY <1>5 DEF Decides, Waiting, Presented
  <2>2. Approved(y) /\ Presented(y) # NoId => Approved(y)'
    BY <1>0, <1>5, KeepsAll, ApprovedStays DEF Decides, Acts
  <2>3. Allows(server'[y].decision) /\ server'[y].pc = "appending" /\ Presented(y) # NoId
           => Approved(y)
    BY <1>5, PermitsApproves DEF Decides, Allows
  <2> QED BY <2>1, <2>2, <2>3
<1>6. CASE Files(y)
  BY <1>6 DEF Files, InStep, Allows, Waiting
<1>7. CASE Appends(y)
  <2>1. Presented(y)' = Presented(y) /\ server'[y].decision = server[y].decision
        /\ server[y].pc = "appending" /\ server'[y].pc # "appending"
    BY <1>7 DEF Appends, Presented
  <2>2. Approved(y) /\ Presented(y) # NoId => Approved(y)'
    BY <1>0, <1>7, KeepsAll, ApprovedStays DEF Appends, Acts
  <2>3. RecordOf(y)' = RecordOf(y)
    BY <1>0, <1>7, <2>1 DEF Appends, RecordOf
  <2>4. (Waiting(y, "answered"))' => RecordOf(y) \in log'
    BY <1>7 DEF Appends, Waiting
  <2> QED BY <1>0, <2>1, <2>2, <2>3, <2>4
<1>8. ASSUME NEW x \in Executions, Acts(x), x # y PROVE Backed(y)'
  <2>1. client'[y] = client[y] /\ server'[y] = server[y]
    BY <1>8 DEF Acts, Sends, Hears, Fails, Decides, Files, Appends, Mine
  <2>2. Kept
    BY <1>8, KeepsAll
  <2> HIDE DEF Backed
  <2> QED BY <1>1, <2>1, <2>2
<1>9. CASE Outside
  <2>1. client'[y] = client[y] /\ server'[y] = server[y] /\ Kept
    BY <1>9, KeepsAll DEF Outside
  <2> HIDE DEF Backed
  <2> QED BY <1>1, <2>1
<1> HIDE DEF Backed
<1> QED BY <1>2, <1>3, <1>4, <1>5, <1>6, <1>7, <1>8, <1>9 DEF Acts

\* What lets y run is still there after the step: y is where it was, or has just heard
\* an allowing answer, or its stores were lost.
LEMMA RunsOn ==
    ASSUME TypeOK, Outside \/ Restarts \/ \E x \in Executions : Acts(x),
           NEW y \in Executions, MayRun(y)', y \notin lost'
    PROVE  /\ Kept /\ y \notin lost
           /\ client'[y].event = client[y].event
           /\ client'[y].approval = client[y].approval
           /\ MayRun(y) \/ (Waiting(y, "answered") /\ Allows(server[y].decision))
<1>1. CASE Restarts
  <2>1. UNCHANGED <<client, persistent, requests, filed, log, lost, given>>
    BY <1>1 DEF Restarts, StoresLost, MayRun
  <2> QED BY <2>1, Numbers DEF Kept, MayRun
<1>2. CASE Outside
  BY <1>2, KeepsAll DEF Outside, Kept, MayRun
<1>3. ASSUME NEW x \in Executions, Acts(x), x # y
      PROVE  Kept /\ client'[y] = client[y]
  BY <1>3, KeepsAll DEF Acts, Sends, Hears, Fails, Decides, Files, Appends, Mine
<1>4. CASE Hears(y)
  BY <1>4, KeepsAll DEF Acts, Hears, Kept, MayRun
<1>5. CASE Acts(y) /\ ~Hears(y)
  <2>1. client'[y] = client[y]
    BY <1>5 DEF Acts, Sends, Fails, Decides, Files, Appends, MayRun
  <2> QED BY <1>5, <2>1, KeepsAll DEF Kept, MayRun
<1> QED BY <1>1, <1>2, <1>3, <1>4, <1>5 DEF Kept, MayRun

LEMMA RecordedStep ==
    ASSUME TypeOK, AnswersBacked, ExecutionIsRecorded,
           Outside \/ Restarts \/ \E x \in Executions : Acts(x)
    PROVE  ExecutionIsRecorded'
<1> SUFFICES ASSUME NEW y \in Executions, MayRun(y)', y \notin lost'
             PROVE  \E r \in log' : /\ r.by = y /\ Allows(r.decision)
                                    /\ r.event = Event(y)' /\ r.presented = Presented(y)'
  BY DEF ExecutionIsRecorded, MayRun
<1>1. /\ log \subseteq log' /\ y \notin lost
      /\ Event(y)' = Event(y) /\ Presented(y)' = Presented(y)
      /\ MayRun(y) \/ (Waiting(y, "answered") /\ Allows(server[y].decision))
  BY RunsOn DEF Kept, Event, Presented
<1>2. CASE MayRun(y)
  BY <1>1, <1>2 DEF ExecutionIsRecorded
<1>3. CASE Waiting(y, "answered") /\ Allows(server[y].decision)
  BY <1>1, <1>3, RecordOfType DEF AnswersBacked
<1> QED BY <1>1, <1>2, <1>3

LEMMA ApprovedStep ==
    ASSUME TypeOK, AnswersBacked, ExecutionIsApproved,
           Outside \/ Restarts \/ \E x \in Executions : Acts(x)
    PROVE  ExecutionIsApproved'
<1> SUFFICES ASSUME NEW y \in Executions, MayRun(y)', y \notin lost', Presented(y)' # NoId
             PROVE  Approved(y)'
  BY DEF ExecutionIsApproved, Approved, MayRun
<1>1. /\ Kept /\ y \notin lost
      /\ client'[y].event = client[y].event /\ client'[y].approval = client[y].approval
      /\ MayRun(y) \/ (Waiting(y, "answered") /\ Allows(server[y].decision))
  BY RunsOn
<1>2. Presented(y) # NoId
  BY <1>1 DEF Presented
<1>3. Approved(y)
  BY <1>1, <1>2 DEF ExecutionIsApproved, Approved, AnswersBacked
<1> QED BY <1>1, <1>2, <1>3, ApprovedStays

\* What an evaluation that is to record that it asks has filed.
HasFiled(x) ==
    /\ server[x].approval \in 1..filed
    /\ requests[KeyOf(Event(x), server[x].approval)] # NoRequest
    /\ requests[KeyOf(Event(x), server[x].approval)].event = Event(x)

\* It stays filed while the evaluation does not change.
LEMMA HasFiledStays ==
    ASSUME TypeOK, Kept, NEW y \in Executions, HasFiled(y),
           client'[y].event = client[y].event, server'[y].approval = server[y].approval
    PROVE  HasFiled(y)'
<1>1. Event(y) \in Events /\ server[y].approval \in Ids
  BY Numbers DEF TypeOK, Client, Event, HasFiled
<1>2. KeyOf(Event(y), server[y].approval) \in Keys
  BY <1>1, KeyType
<1>3. Event(y)' = Event(y)
  BY DEF Event
<1>4. /\ requests'[KeyOf(Event(y), server[y].approval)] # NoRequest
      /\ requests'[KeyOf(Event(y), server[y].approval)].event = Event(y)
  BY <1>2 DEF HasFiled, Kept
<1>5. server[y].approval \in 1..filed'
  BY Numbers DEF Kept, HasFiled
<1> QED BY <1>3, <1>4, <1>5 DEF HasFiled, KeyOf

\* No step but filing and recording makes an evaluation ask, or writes the log.
LEMMA AskersStayApart ==
    ASSUME TypeOK, AskersApart, Kept, log' = log,
           \A y \in Executions : client'[y].event = client[y].event,
           \A y \in Executions : Asks(y)' =>
              Asks(y) /\ server'[y].approval = server[y].approval
    PROVE  AskersApart'
<1>1. ASSUME NEW y \in Executions, Asks(y)'
      PROVE  /\ HasFiled(y)'
             /\ \A z \in Executions :
                   Asks(z)' /\ server'[z].approval = server'[y].approval => z = y
             /\ \A r \in log' : r.decision = "require_approval"
                   => r.approval # server'[y].approval
  <2>1. HasFiled(y)
    BY <1>1 DEF AskersApart, HasFiled
  <2> QED BY <1>1, <2>1, HasFiledStays DEF AskersApart
<1>2. \A r \in log' : r.decision = "require_approval" => r.approval \in 1..filed'
  BY Numbers DEF AskersApart, Kept
<1> QED BY <1>1, <1>2 DEF AskersApart, HasFiled

LEMMA AskersApartStep ==
    ASSUME TypeOK, InStep, AskersApart, Outside \/ Restarts \/ \E x \in Executions : Acts(x)
    PROVE  AskersApart'
<1>0. \A y \in Executions : client'[y].event = client[y].event
  BY EventsStay
<1>1. CASE Outside
  <2>1. Kept /\ log' = log /\ server' = server
    BY <1>1, KeepsAll DEF Outside
  <2>2. \A y \in Executions : Asks(y)' => Asks(y)
    BY <2>1 DEF Asks
  <2> QED BY <1>0, <2>1, <2>2, AskersStayApart
<1>2. CASE Restarts
  <2>1. \A y \in Executions : ~Asks(y)'
    BY <1>2, InterruptedType DEF Restarts, Asks
  <2>2. \A r \in log' : r.decision = "require_approval" => r.approval \in 1..filed'
    BY <1>2 DEF Restarts, StoresLost, AskersApart
  <2> QED BY <2>1, <2>2 DEF AskersApart
<1>3. ASSUME NEW x \in Executions, Sends(x) \/ Hears(x) \/ Fails(x) \/ Decides(x)
      PROVE  AskersApart'
  <2>1. Kept /\ log' = log /\ Mine(x)
    BY <1>3, KeepsAll DEF Acts, Sends, Hears, Fails, Decides, Quiet
  <2>2. Asks(x)' => Asks(x) /\ server'[x].approval = server[x].approval
    BY <1>3 DEF Asks, Sends, Hears, Fails, Decides, Received
  <2>3. \A y \in Executions : Asks(y)' =>
           Asks(y) /\ server'[y].approval = server[y].approval
    BY <2>1, <2>2 DEF Mine, Asks
  <2> QED BY <1>0, <2>1, <2>3, AskersStayApart
<1>4. ASSUME NEW x \in Executions, Files(x) PROVE AskersApart'
  <2>1. Kept /\ log' = log /\ Mine(x)
    BY <1>4, KeepsAll DEF Acts, Files
  <2>2. /\ filed' = filed + 1 /\ filed \in Nat
        /\ requests'[KeyOf(Event(x), filed')] # NoRequest
        /\ requests'[KeyOf(Event(x), filed')].event = Event(x)
    BY <1>4, FileDoes, Numbers DEF Files
  <2>3. \A r \in log' : r.decision = "require_approval" => r.approval \in 1..filed
    BY <2>1 DEF AskersApart
  <2>4. ASSUME NEW y \in Executions, Asks(y)', y # x
        PROVE  /\ Asks(y) /\ server'[y].approval = server[y].approval
               /\ server'[y].approval \in 1..filed
    BY <2>1, <2>4 DEF Mine, Asks, AskersApart
  <2>5. ASSUME Asks(x)' PROVE server'[x].approval = filed' /\ HasFiled(x)'
    <3>1. server'[x].approval = filed'
      BY <1>4, <2>5 DEF Files, Asks
    <3>2. Event(x)' = Event(x)
      BY <1>0 DEF Event
    <3> QED BY <2>2, <3>1, <3>2 DEF HasFiled, KeyOf
  <2>6. ASSUME NEW y \in Executions, Asks(y)', y # x PROVE HasFiled(y)'
    <3>1. HasFiled(y)
      BY <2>4, <2>6 DEF AskersApart, HasFiled
    <3> QED BY <1>0, <2>1, <2>4, <2>6, <3>1, HasFiledStays
  <2>7. filed' \notin 1..filed
    BY <2>2
  <2>8. \A y, z \in Executions : Asks(y)' /\ Asks(z)' /\ server'[z].approval = server'[y].approval
           => z = y
    BY <2>4, <2>5, <2>7 DEF AskersApart
  <2>9. \A y \in Executions : Asks(y)' =>
           \A r \in log' : r.decision = "require_approval" => r.approval # server'[y].approval
    BY <2>1, <2>3, <2>4, <2>5, <2>7 DEF AskersApart
  <2>10. \A r \in log' : r.decision = "require_approval" => r.approval \in 1..filed'
    BY <2>2, <2>3
  <2>11. \A y \in Executions : Asks(y)' => HasFiled(y)'
    BY <2>5, <2>6
  <2> QED BY <2>8, <2>9, <2>10, <2>11 DEF AskersApart, HasFiled
<1>5. ASSUME NEW x \in Executions, Appends(x) PROVE AskersApart'
  <2>1. Kept /\ log' \subseteq log \cup {RecordOf(x)} /\ Mine(x) /\ filed' = filed
    BY <1>5, KeepsAll DEF Acts, Appends
  <2>2. ~Asks(x)'
    BY <1>5 DEF Appends, Asks
  <2>3. ASSUME NEW y \in Executions, Asks(y)'
        PROVE  Asks(y) /\ server'[y].approval = server[y].approval /\ y # x
    BY <2>1, <2>2, <2>3 DEF Mine, Asks
  <2>4. RecordOf(x).decision = "require_approval" =>
           Asks(x) /\ RecordOf(x).approval = server[x].approval
    BY <1>5, RecordOfType DEF Appends, Asks
  <2>5. \A y \in Executions : Asks(y)' => HasFiled(y)'
    <3> SUFFICES ASSUME NEW y \in Executions, Asks(y)' PROVE HasFiled(y)'
      OBVIOUS
    <3>1. HasFiled(y)
      BY <2>3 DEF AskersApart, HasFiled
    <3> QED BY <1>0, <2>1, <2>3, <3>1, HasFiledStays
  <2>6. \A y, z \in Executions : Asks(y)' /\ Asks(z)' /\ server'[z].approval = server'[y].approval
           => z = y
    BY <2>3 DEF AskersApart
  <2>7. \A y \in Executions : Asks(y)' =>
           \A r \in log' : r.decision = "require_approval" => r.approval # server'[y].approval
    BY <2>1, <2>3, <2>4 DEF AskersApart
  <2>8. \A r \in log' : r.decision = "require_approval" => r.approval \in 1..filed'
    BY <2>1, <2>4 DEF AskersApart
  <2> QED BY <2>5, <2>6, <2>7, <2>8 DEF AskersApart, HasFiled
<1> QED BY <1>1, <1>2, <1>3, <1>4, <1>5 DEF Acts

\* A record of an evaluation that asks is backed, and one that was allowed by an approval.
AskBacked(r) == r.decision = "require_approval" =>
    /\ r.approval # NoId /\ requests[KeyOf(r.event, r.approval)] # NoRequest
    /\ requests[KeyOf(r.event, r.approval)].event = r.event

AllowBacked(r) == r.decision = "allow" /\ r.presented # NoId =>
    /\ requests[KeyOf(r.event, r.presented)] # NoRequest
    /\ KeyOf(r.event, r.presented) \in given
    /\ ~persistent => requests[KeyOf(r.event, r.presented)].status = "approved"

OneRecordEach ==
    \A r \in log : r.decision = "require_approval" =>
        \A other \in log :
            other.decision = "require_approval" /\ other.approval = r.approval => other = r

LEMMA BackedParts ==
    RecordsAreBacked <=> OneRecordEach /\ \A r \in log : AskBacked(r) /\ AllowBacked(r)
  BY DEF RecordsAreBacked, OneRecordEach, AskBacked, AllowBacked

LEMMA BackedStays ==
    ASSUME TypeOK, AskersApart, Kept, NEW r \in log, AskBacked(r), AllowBacked(r)
    PROVE  AskBacked(r)' /\ AllowBacked(r)'
<1>1. r.event \in Events /\ r.presented \in Ids \cup {NoId} /\ r.approval \in Ids \cup {NoId}
  BY DEF TypeOK, Record
<1>2. \A id \in Ids : KeyOf(r.event, id) \in Keys
  BY <1>1, KeyType
<1>3. AskBacked(r)'
  BY <1>1, <1>2 DEF AskBacked, Kept, KeyOf
<1>4. AllowBacked(r)'
  BY <1>1, <1>2 DEF AllowBacked, Kept, KeyOf
<1> QED BY <1>3, <1>4

LEMMA BackedStep ==
    ASSUME TypeOK, InStep, AnswersBacked, AskersApart, RecordsAreBacked,
           Outside \/ Restarts \/ \E x \in Executions : Acts(x)
    PROVE  RecordsAreBacked'
<1>0. OneRecordEach /\ \A r \in log : AskBacked(r) /\ AllowBacked(r)
  BY BackedParts
<1> SUFFICES OneRecordEach' /\ \A r \in log' : AskBacked(r)' /\ AllowBacked(r)'
  BY DEF RecordsAreBacked, OneRecordEach, AskBacked, AllowBacked
<1>1. CASE Kept /\ log' = log
  <2>1. \A r \in log' : AskBacked(r)' /\ AllowBacked(r)'
    BY <1>0, <1>1, BackedStays
  <2> QED BY <1>0, <1>1, <2>1 DEF OneRecordEach
<1>2. CASE Restarts
  <2>1. CASE log' = {}
    BY <2>1 DEF OneRecordEach
  <2>2. CASE UNCHANGED <<requests, log, given, persistent>>
    BY <1>0, <2>2 DEF OneRecordEach, AskBacked, AllowBacked, KeyOf
  <2> QED BY <1>2, <2>1, <2>2 DEF Restarts, StoresLost
<1>3. ASSUME NEW x \in Executions, Appends(x)
      PROVE  OneRecordEach' /\ \A r \in log' : AskBacked(r)' /\ AllowBacked(r)'
  <2>1. Kept /\ UNCHANGED <<requests, given, persistent>> /\ log' \subseteq log \cup {RecordOf(x)}
    BY <1>3, KeepsAll DEF Acts, Appends
  <2> DEFINE new == RecordOf(x)
  <2>2. /\ new.event = Event(x) /\ new.presented = Presented(x)
        /\ new.decision = server[x].decision /\ new.approval = server[x].approval
        /\ server[x].pc = "appending" /\ Event(x) \in Events
    BY <1>3, RecordOfType DEF Appends, TypeOK, Client, Event
  <2>3. ASSUME new.decision = "require_approval"
        PROVE  /\ HasFiled(x)
               /\ \A r \in log : r.decision = "require_approval" => r.approval # new.approval
    BY <2>2, <2>3 DEF AskersApart, Asks, HasFiled
  <2> HIDE DEF new
  <2>4. OneRecordEach'
    BY <1>0, <2>1, <2>3 DEF OneRecordEach, new
  <2>5. AskBacked(new)
    <3>1. HasFiled(x) => server[x].approval # NoId
      BY Numbers, NumberAssumption DEF HasFiled
    <3> QED BY <2>2, <2>3, <3>1 DEF AskBacked, HasFiled
  <2>6. AllowBacked(new)
    BY <2>2 DEF AllowBacked, AnswersBacked, Approved, Allows
  <2>7. \A r \in log' : AskBacked(r)' /\ AllowBacked(r)'
    <3> SUFFICES ASSUME NEW r \in log' PROVE AskBacked(r)' /\ AllowBacked(r)'
      OBVIOUS
    <3>1. CASE r \in log
      BY <1>0, <2>1, <3>1, BackedStays
    <3>2. CASE r = new
      BY <2>1, <2>5, <2>6, <3>2 DEF AskBacked, AllowBacked, KeyOf
    <3> QED BY <2>1, <3>1, <3>2 DEF new
  <2> QED BY <2>4, <2>7
<1>4. ASSUME NEW x \in Executions, Acts(x), ~Appends(x) PROVE Kept /\ log' = log
  BY <1>4, KeepsAll DEF Acts, Sends, Hears, Fails, Decides, Files, Quiet
<1>5. CASE Outside
  <2>1. Kept /\ log' = log
    BY <1>5, KeepsAll DEF Outside
  <2> QED BY <1>1, <2>1
<1> QED BY <1>1, <1>2, <1>3, <1>4, <1>5

LEMMA OrphansCausedStep ==
    ASSUME TypeOK, FiledRight, InStep, OrphansCaused,
           Outside \/ Restarts \/ \E x \in Executions : Acts(x)
    PROVE  OrphansCaused'
<1> SUFFICES ASSUME NEW k \in Keys, requests'[k] # NoRequest
             PROVE  (\E r \in log' : Names(r, k)) \/ (\E x \in Executions : Cause(x, k)')
  BY DEF OrphansCaused, Names, KeyOf
<1>1. ASSUME NEW x \in Executions, Cause(x, k), server'[x] = server[x],
             client'[x].event = client[x].event, requests'[k].event = requests[k].event
      PROVE  Cause(x, k)'
  BY <1>1 DEF Cause, Event
<1>2. CASE Restarts
  <2>1. requests' = requests /\ log' = log
    BY <1>2 DEF Restarts, StoresLost
  <2>2. CASE \E r \in log : Names(r, k)
    BY <2>1, <2>2
  <2>3. ASSUME NEW x \in Executions, Cause(x, k) PROVE Cause(x, k)'
    <3>1. Interrupted[x].pc = "failed" /\ Interrupted[x].decision = server[x].decision
      BY <2>3, InterruptedType DEF Cause
    <3>2. server'[x] = Interrupted[x] /\ client' = client
      BY <1>2 DEF Restarts
    <3> QED BY <2>1, <2>3, <3>1, <3>2 DEF Cause, Event
  <2> QED BY <2>1, <2>2, <2>3 DEF OrphansCaused
<1>3. CASE Outside
  <2>1. Kept /\ UNCHANGED <<log, client, server>>
    BY <1>3, KeepsAll DEF Outside
  <2>2. requests[k] # NoRequest
    BY <1>3 DEF Outside, Settled
  <2> QED BY <1>1, <2>1, <2>2 DEF OrphansCaused, Kept
<1>4. ASSUME NEW x \in Executions, Acts(x)
      PROVE  (\E r \in log' : Names(r, k)) \/ (\E y \in Executions : Cause(y, k)')
  <2>1. Kept /\ Mine(x)
    BY <1>4, KeepsAll DEF Acts, Sends, Hears, Fails, Decides, Files, Appends
  <2>2. \A y \in Executions : client'[y].event = client[y].event
    BY <1>4, EventsStay
  <2>3. CASE requests[k] = NoRequest
    <3>1. Files(x)
      BY <1>4, <2>3 DEF Acts, Sends, Hears, Fails, Decides, Appends, Quiet
    <3>2. k = KeyOf(Event(x), filed') /\ requests'[k].event = Event(x)
      BY <2>3, <3>1, FileDoes DEF Files
    <3>3. k[2] = filed'
      BY <3>2 DEF KeyOf
    <3>4. server'[x].decision = "require_approval"
      BY <3>1 DEF Files, InStep
    <3>5. \/ server'[x].pc = "appending" /\ server'[x].approval = filed'
          \/ server'[x].pc = "failed"
      BY <3>1 DEF Files
    <3> QED BY <2>2, <3>2, <3>3, <3>4, <3>5 DEF Cause, Event
  <2>4. CASE requests[k] # NoRequest
    <3>1. requests'[k].event = requests[k].event /\ log \subseteq log'
      BY <2>1, <2>4 DEF Kept
    <3>2. CASE \E r \in log : Names(r, k)
      BY <3>1, <3>2
    <3>3. ASSUME NEW y \in Executions, Cause(y, k), y # x PROVE Cause(y, k)'
      BY <1>1, <2>1, <2>2, <3>1, <3>3 DEF Mine
    <3>4. ASSUME Cause(x, k)
          PROVE  (\E r \in log' : Names(r, k)) \/ Cause(x, k)'
      <4>1. CASE Hears(x)
        BY <1>1, <2>2, <3>1, <3>4, <4>1 DEF Hears
      <4>2. CASE Appends(x)
        <5>1. CASE log' = log \cup {RecordOf(x)}
          <6>1. /\ RecordOf(x).event = Event(x) /\ RecordOf(x).approval = k[2]
                /\ RecordOf(x).decision = "require_approval"
            BY <3>4, <4>2, RecordOfType DEF Cause, Appends
          <6>2. TenantOf[Event(x)] = k[1] /\ k = <<k[1], k[2]>>
            BY <2>4, <3>4 DEF FiledRight, Cause, Keys
          <6> QED BY <5>1, <6>1, <6>2 DEF Names, KeyOf
        <5>2. CASE server'[x].pc = "failed"
          BY <2>2, <3>1, <3>4, <4>2, <5>2 DEF Appends, Cause, Event
        <5> QED BY <4>2, <5>1, <5>2 DEF Appends
      <4>3. ~Sends(x) /\ ~Fails(x) /\ ~Decides(x) /\ ~Files(x)
        BY <3>4 DEF Cause, Sends, Fails, Decides, Files, InStep
      <4> QED BY <1>4, <4>1, <4>2, <4>3 DEF Acts
    <3> QED BY <2>4, <3>2, <3>3, <3>4 DEF OrphansCaused
  <2> QED BY <2>3, <2>4
<1> QED BY <1>2, <1>3, <1>4

--------------------------------------------------------------------------------
(* The invariant, and what follows from it                                    *)

LEMMA SafeInit == Init => Safe
<1> SUFFICES ASSUME Init PROVE Safe
  OBVIOUS
<1>1. TypeOK
  BY TypeInit
<1>2. /\ requests = [k \in Keys |-> NoRequest] /\ log = {} /\ given = {}
      /\ \A x \in Executions : server[x].pc = "idle"
  BY DEF Init, Lifecycle!Init, Received
<1>3. \A x \in Executions : client[x].pc = "ready"
  <2>1. PICK start \in Starts :
           client = [x \in Executions |->
                         [pc |-> "ready", event |-> start.calls[x].event,
                          approval |-> start.calls[x].approval, again |-> FALSE]]
    BY DEF Init
  <2> QED BY <2>1
<1>4. FiledRight /\ GivenRight /\ OrphansCaused
  BY <1>2 DEF FiledRight, GivenRight, OrphansCaused
<1>5. InStep /\ AnswersBacked /\ AskersApart
  BY <1>2, <1>3 DEF InStep, AnswersBacked, AskersApart, Waiting, Asks
<1>6. ExecutionIsRecorded /\ ExecutionIsApproved /\ RecordsAreBacked
  BY <1>2, <1>3 DEF ExecutionIsRecorded, ExecutionIsApproved, RecordsAreBacked, MayRun
<1> QED BY <1>1, <1>4, <1>5, <1>6 DEF Safe

LEMMA SafeStep == Safe /\ [Next]_vars => Safe'
<1> SUFFICES ASSUME Safe, [Next]_vars PROVE Safe'
  OBVIOUS
<1>1. Outside \/ Restarts \/ \E x \in Executions : Acts(x)
  BY Shapes DEF Safe
<1>2. TypeOK'
  BY TypeStep DEF Safe
<1>3. FiledRight' /\ GivenRight' /\ InStep'
  BY <1>1, FiledRightStep, GivenRightStep, InStepStep DEF Safe
<1>4. AnswersBacked' /\ AskersApart'
  BY <1>1, AnswersBackedStep, AskersApartStep DEF Safe
<1>5. OrphansCaused'
  BY <1>1, OrphansCausedStep DEF Safe
<1>6. ExecutionIsRecorded' /\ ExecutionIsApproved'
  BY <1>1, RecordedStep, ApprovedStep DEF Safe
<1>7. RecordsAreBacked'
  BY <1>1, BackedStep DEF Safe
<1> QED BY <1>2, <1>3, <1>4, <1>5, <1>6, <1>7 DEF Safe

\* The inductive invariant holds in every behaviour: of however many executions, events,
\* tenants and restarts, and whatever is failed or lost.
THEOREM AlwaysSafe == Spec => []Safe
<1>1. Init => Safe
  BY SafeInit
<1>2. Safe /\ [Next]_vars => Safe'
  BY SafeStep
<1> QED BY <1>1, <1>2, PTL DEF Spec

\* Every variable keeps its type, and an evaluation that is to be recorded names only a
\* request that was filed.
THEOREM TypeCorrect == Spec => []TypeOK
<1>1. Safe => TypeOK
  BY DEF Safe
<1> QED BY <1>1, AlwaysSafe, PTL

\* No protected action runs before the allowing answer to the submission that cleared it
\* is in the audit store, unless a restart lost the store since.
THEOREM ExecutionAlwaysRecorded == Spec => []ExecutionIsRecorded
<1>1. Safe => ExecutionIsRecorded
  BY DEF Safe
<1> QED BY <1>1, AlwaysSafe, PTL

\* No protected action runs on an approval of another tenant, one for another event, one
\* given too late, or, with the store in memory, one taken back.
THEOREM ExecutionAlwaysApproved == Spec => []ExecutionIsApproved
<1>1. Safe => ExecutionIsApproved
  BY DEF Safe
<1> QED BY <1>1, AlwaysSafe, PTL

\* What the log says of approvals can be looked up, and no two evaluations share the
\* request they filed.
THEOREM RecordsAlwaysBacked == Spec => []RecordsAreBacked
<1>1. Safe => RecordsAreBacked
  BY DEF Safe
<1> QED BY <1>1, AlwaysSafe, PTL

\* A request that no record names was filed by an evaluation that is still to be recorded
\* or that failed.
THEOREM OrphanAlwaysHasCause == Spec => []OrphanHasCause
<1>1. Safe => OrphanHasCause
  BY DEF Safe, OrphansCaused, OrphanHasCause, Cause
<1> QED BY <1>1, AlwaysSafe, PTL

--------------------------------------------------------------------------------
(* What else follows                                                          *)

\* The id the counter gives out next is free under every tenant, so that filing never
\* meets another request, of a concurrent evaluation or of before a restart, and the
\* abstract Create never refuses what the code would file (approval/store.go:57).
THEOREM NextIdIsFree ==
    Spec => [](\A x \in Executions :
                  filed < MaxRequests => requests[KeyOf(Event(x), filed + 1)] = NoRequest)
<1>1. ASSUME Safe, NEW x \in Executions, filed < MaxRequests
      PROVE  requests[KeyOf(Event(x), filed + 1)] = NoRequest
  <2>1. filed \in Nat /\ filed + 1 \in Ids /\ Event(x) \in Events
    BY <1>1, NumberAssumption DEF Safe, TypeOK, Ids, Client, Event
  <2>2. /\ KeyOf(Event(x), filed + 1) \in Keys
        /\ KeyOf(Event(x), filed + 1)[2] = filed + 1
    BY <2>1, KeyType
  <2>3. filed + 1 \notin 1..filed
    BY <2>1
  <2> QED BY <1>1, <2>2, <2>3 DEF Safe, FiledRight
<1>2. Safe => \A x \in Executions :
         filed < MaxRequests => requests[KeyOf(Event(x), filed + 1)] = NoRequest
  BY <1>1
<1> QED BY <1>2, AlwaysSafe, PTL

\* One client moves: it comes further if its own stage does.
LEMMA AdvancesAlone ==
    ASSUME TypeOK, NEW x \in Executions, NEW c, client' = [client EXCEPT ![x] = c],
           Stage(c) > Stage(client[x])
    PROVE  \A y \in Executions :
              client'[y] = client[y] \/ Stage(client'[y]) > Stage(client[y])
<1> SUFFICES ASSUME NEW y \in Executions
             PROVE  client'[y] = client[y] \/ Stage(client'[y]) > Stage(client[y])
  OBVIOUS
<1>1. client'[y] = IF y = x THEN c ELSE client[y]
  BY DEF TypeOK
<1> QED BY <1>1

\* No step of agent or server, no failure and no restart takes an execution back: the event
\* is submitted at most twice and the action run at most once (enforcer.go:79-120).
THEOREM ExecutionsAlwaysAdvance == Spec => ExecutionsAdvance
<1> DEFINE Advance == \A x \in Executions :
              client'[x] = client[x] \/ Stage(client'[x]) > Stage(client[x])
<1>1. ASSUME TypeOK, [Next]_vars PROVE Advance
  <2>1. CASE UNCHANGED client
    BY <2>1
  <2>2. ASSUME NEW x \in Executions, NEW label \in {"asked", "waiting", "cleared", "ran", "blocked"},
               ClientAt(x, label),
               Stage([client[x] EXCEPT !.pc = label]) > Stage(client[x])
        PROVE  Advance
    <3>1. client' = [client EXCEPT ![x] = [client[x] EXCEPT !.pc = label]]
      BY <2>2 DEF ClientAt
    <3> QED BY <1>1, <2>2, <3>1, AdvancesAlone
  <2>3. ASSUME NEW x \in Executions PROVE client[x] \in Client
    BY <1>1, <2>3 DEF TypeOK
  <2>4. ASSUME NEW x \in Executions, Submit(x) PROVE Advance
    <3>1. Stage([client[x] EXCEPT !.pc = "asked"]) > Stage(client[x])
      BY <2>3, <2>4 DEF Submit, Stage, Client
    <3> QED BY <2>2, <2>4, <3>1 DEF Submit
  <2>5. ASSUME NEW x \in Executions, Cleared(x) PROVE Advance
    <3>1. Stage([client[x] EXCEPT !.pc = "cleared"]) > Stage(client[x])
      BY <2>3, <2>5 DEF Cleared, Waiting, Stage, Client
    <3> QED BY <2>2, <2>5, <3>1 DEF Cleared
  <2>6. ASSUME NEW x \in Executions, AwaitApproval(x) PROVE Advance
    <3>1. Stage([client[x] EXCEPT !.pc = "waiting"]) > Stage(client[x])
      BY <2>3, <2>6 DEF AwaitApproval, Waiting, Stage, Client
    <3> QED BY <2>2, <2>6, <3>1 DEF AwaitApproval
  <2>7. ASSUME NEW x \in Executions, Blocked(x) \/ EvaluationError(x) \/ WaitEnds(x) PROVE Advance
    <3>1. Stage([client[x] EXCEPT !.pc = "blocked"]) > Stage(client[x])
      BY <2>3, <2>7 DEF Blocked, EvaluationError, WaitEnds, Waiting, Stage, Client
    <3> QED BY <2>2, <2>7, <3>1 DEF Blocked, EvaluationError, WaitEnds
  <2>8. ASSUME NEW x \in Executions, Run(x) PROVE Advance
    <3>1. Stage([client[x] EXCEPT !.pc = "ran"]) > Stage(client[x])
      BY <2>3, <2>8 DEF Run, Stage, Client
    <3> QED BY <2>2, <2>8, <3>1 DEF Run
  <2>9. ASSUME NEW x \in Executions, Resubmit(x) PROVE Advance
    <3>1. PICK k \in Keys :
             client' = [client EXCEPT ![x].pc = "asked", ![x].approval = k[2],
                                      ![x].again = TRUE]
      BY <2>9 DEF Resubmit
    <3> DEFINE c == [client[x] EXCEPT !.pc = "asked", !.approval = k[2], !.again = TRUE]
    <3>2. client' = [client EXCEPT ![x] = c]
      BY <1>1, <3>1 DEF TypeOK
    <3>3. Stage(c) > Stage(client[x])
      BY <2>3, <2>9 DEF Resubmit, Stage, Client
    <3> HIDE DEF c
    <3> QED BY <1>1, <3>2, <3>3, AdvancesAlone
  <2>10. ASSUME NEW x \in Executions, ServerStep(x) PROVE UNCHANGED client
    BY <2>10 DEF ServerStep, Refuse, Judge, CheckApproval, CreateApproval, CreateFails,
                 AppendAudit, AppendFails
  <2>11. CASE Tick \/ DecideApproval \/ ExpireApproval \/ Restart
    BY <2>1, <2>11 DEF Tick, DecideApproval, ExpireApproval, Restart
  <2>12. CASE UNCHANGED vars
    BY <2>1, <2>12 DEF vars
  <2> HIDE DEF Advance
  <2> QED
    BY <1>1, <2>1, <2>4, <2>5, <2>6, <2>7, <2>8, <2>9, <2>10, <2>11, <2>12 DEF Next, AnswerStep
<1>2. TypeOK /\ [Next]_vars => [Advance]_vars
  BY <1>1
<1> QED BY <1>2, TypeCorrect, PTL DEF Spec, ExecutionsAdvance

--------------------------------------------------------------------------------
(* The two lifecycles                                                         *)

\* A pending request is as it was filed.
PendingAsAsked ==
    /\ requests \in [Keys -> Lifecycle!Request \cup {NoRequest}]
    /\ \A k \in Keys : Lifecycle!IsPending(k) => requests[k] = Lifecycle!Asked(requests[k])

\* Whatever a store does that decides each request once (approval/store.go:109-139) is
\* also something a store with racing deciders may do (postgres/store.go:352-385), so that
\* MemoryApprovalStore, which implements the first, implements both.
THEOREM DecidedOnceIsRevisable == Lifecycle!Spec => Lifecycle!ReviseSpec
<1>1. Lifecycle!Init => PendingAsAsked
  BY DEF Lifecycle!Init, PendingAsAsked, Lifecycle!IsPending
<1>2. ASSUME PendingAsAsked, Lifecycle!Next
      PROVE  PendingAsAsked' /\ (Lifecycle!ReviseNext \/ UNCHANGED requests)
  <2>1. ASSUME NEW k \in Keys, NEW r \in Lifecycle!Request,
               requests' = [requests EXCEPT ![k] = r],
               r.status = "pending" => r = Lifecycle!Asked(r)
        PROVE  PendingAsAsked'
    <3>1. /\ requests' \in [Keys -> Lifecycle!Request \cup {NoRequest}]
          /\ requests'[k] = r /\ \A j \in Keys \ {k} : requests'[j] = requests[j]
      BY <1>2, <2>1 DEF PendingAsAsked
    <3> QED BY <1>2, <2>1, <3>1 DEF PendingAsAsked, Lifecycle!IsPending
  <2>2. ASSUME NEW k \in Keys, NEW r, requests' = [requests EXCEPT ![k] = r],
               requests'[k] = requests[k]
        PROVE  UNCHANGED requests
    BY <1>2, <2>2 DEF PendingAsAsked
  <2>3. ASSUME NEW k \in Keys, Lifecycle!IsPending(k)
        PROVE  /\ requests[k] \in Lifecycle!Request /\ requests[k] # NoRequest
               /\ requests[k] = Lifecycle!Asked(requests[k])
    BY <1>2, <2>3 DEF PendingAsAsked, Lifecycle!IsPending
  <2>4. ASSUME NEW k \in Keys, NEW e \in Events, NEW from \in Times, NEW until \in Times,
               Lifecycle!Create(k, e, from, until)
        PROVE  PendingAsAsked' /\ (Lifecycle!ReviseNext \/ UNCHANGED requests)
    <3> DEFINE r == Lifecycle!PendingRequest(e, from, until)
    <3>1. r \in Lifecycle!Request /\ r = Lifecycle!Asked(r)
      BY DEF Lifecycle!PendingRequest, Lifecycle!Asked, Lifecycle!Request,
             Lifecycle!Statuses, Lifecycle!Verdicts
    <3>2. requests' = [requests EXCEPT ![k] = r]
      BY <2>4 DEF Lifecycle!Create
    <3> HIDE DEF r
    <3> QED BY <2>1, <2>2, <2>4, <3>1, <3>2 DEF Lifecycle!ReviseNext
  <2>5. ASSUME NEW k \in Keys, NEW v \in Lifecycle!Verdicts, NEW a \in Actors,
               NEW now \in Times, Lifecycle!Decide(k, v, a, now)
        PROVE  PendingAsAsked' /\ (Lifecycle!ReviseNext \/ UNCHANGED requests)
    <3> DEFINE r == Lifecycle!Decided(requests[k], v, a, now)
    <3>1. Lifecycle!IsPending(k) /\ requests' = [requests EXCEPT ![k] = r]
      BY <2>5 DEF Lifecycle!Decide
    <3>2. r \in Lifecycle!Request /\ r.status # "pending"
      BY <2>3, <3>1, DecidedType DEF Lifecycle!Verdicts
    <3>3. Lifecycle!Revise(k, v, a, now)
      BY <2>3, <2>5, <3>1 DEF Lifecycle!Decide, Lifecycle!Revise
    <3> HIDE DEF r
    <3> QED BY <2>1, <2>2, <3>1, <3>2, <3>3 DEF Lifecycle!ReviseNext
  <2>6. ASSUME NEW k \in Keys, NEW now \in Times, Lifecycle!Expire(k, now)
        PROVE  PendingAsAsked' /\ (Lifecycle!ReviseNext \/ UNCHANGED requests)
    <3> DEFINE r == Lifecycle!Expired(requests[k])
    <3>1. Lifecycle!IsPending(k) /\ requests' = [requests EXCEPT ![k] = r]
      BY <2>6 DEF Lifecycle!Expire
    <3>2. r \in Lifecycle!Request /\ r.status # "pending"
      BY <2>3, <3>1, ExpiredType
    <3>3. Lifecycle!Lapse(k, now)
      BY <2>3, <2>6, <3>1 DEF Lifecycle!Expire, Lifecycle!Lapse
    <3> HIDE DEF r
    <3> QED BY <2>1, <2>2, <3>1, <3>2, <3>3 DEF Lifecycle!ReviseNext
  <2> QED BY <1>2, <2>4, <2>5, <2>6 DEF Lifecycle!Next
<1>3. PendingAsAsked /\ UNCHANGED requests => PendingAsAsked'
  BY DEF PendingAsAsked, Lifecycle!IsPending, Lifecycle!Asked, Lifecycle!PendingRequest
<1> QED BY <1>1, <1>2, <1>3, PTL DEF Lifecycle!Spec, Lifecycle!ReviseSpec

================================================================================
