----------------------- MODULE MemoryApprovalStoreProofs -----------------------
(****************************************************************************)
(* Proofs about MemoryApprovalStore, for any number of callers, tenants and *)
(* requests, any lifetime and any bound.  First typing; then an inductive   *)
(* invariant Safe that ties the ids in flight to the counter and so keeps   *)
(* the slots of concurrent Creates apart; then the invariants of the runs   *)
(* and the refinement of ApprovalLifecycle.                                 *)
(****************************************************************************)
EXTENDS MemoryApprovalStore, TLAPS

--------------------------------------------------------------------------------

LEMMA PendingRequestType ==
    ASSUME NEW e \in Events, NEW from \in Times, NEW until \in Times
    PROVE  /\ Lifecycle!PendingRequest(e, from, until) \in Request
           /\ Lifecycle!PendingRequest(e, from, until).status = "pending"
           /\ Lifecycle!PendingRequest(e, from, until).event = e
           /\ Lifecycle!PendingRequest(e, from, until).requestedAt = from
           /\ Lifecycle!PendingRequest(e, from, until).expiresAt = until
  BY DEF Lifecycle!PendingRequest, Request, Lifecycle!Request, Lifecycle!Statuses,
         Lifecycle!Verdicts

--------------------------------------------------------------------------------
(* Typing                                                                     *)

\* The three ways a method moves its caller keep the caller's record typed.
LEMMA RefusedTyped ==
    ASSUME CallTypeOK, NEW c \in Callers, NEW err \in Errors, Refused(c, err),
           \/ key' = key
           \/ \E k \in Keys \cup {NoKey} : key' = [key EXCEPT ![c] = k]
    PROVE  CallTypeOK'
  BY DEF CallTypeOK, Refused

LEMMA ReturnedTyped ==
    ASSUME CallTypeOK, NEW c \in Callers, NEW entries \in SUBSET Entry,
           Returned(c, entries),
           \/ key' = key
           \/ \E k \in Keys \cup {NoKey} : key' = [key EXCEPT ![c] = k]
    PROVE  CallTypeOK'
  BY DEF CallTypeOK, Returned, Errors

LEMMA WaitingTyped ==
    ASSUME CallTypeOK, NEW c \in Callers, NEW k \in Keys, NEW a, NEW m,
           \/ m = "create" /\ a \in Request
           \/ m = "decide" /\ a \in Verdict,
           Waiting(c, m, k, a)
    PROVE  CallTypeOK'
  BY DEF CallTypeOK, Waiting, Errors

LEMMA ClockInTimes == clock \in 0..MaxTime => clock \in Times /\ clock + TTL \in Times
  BY TimeAssumption DEF Times

LEMMA DecidedType ==
    ASSUME NEW r \in Request, NEW v \in Lifecycle!Verdicts, NEW a \in Actors,
           NEW now \in Times
    PROVE  /\ Lifecycle!Decided(r, v, a, now) \in Request
           /\ Lifecycle!Decided(r, v, a, now).status = v
           /\ Lifecycle!Decided(r, v, a, now).decidedBy = a
           /\ Lifecycle!Decided(r, v, a, now).decidedAt = now
           /\ Lifecycle!Decided(r, v, a, now).event = r.event
           /\ Lifecycle!Decided(r, v, a, now).expiresAt = r.expiresAt
  BY DEF Lifecycle!Decided, Request, Lifecycle!Request, Lifecycle!Statuses,
         Lifecycle!Verdicts

LEMMA ExpiredType ==
    ASSUME NEW r \in Request
    PROVE  /\ Lifecycle!Expired(r) \in Request
           /\ Lifecycle!Expired(r).status = "expired"
           /\ Lifecycle!Expired(r).event = r.event
           /\ Lifecycle!Expired(r).expiresAt = r.expiresAt
  BY DEF Lifecycle!Expired, Request, Lifecycle!Request, Lifecycle!Statuses,
         Lifecycle!Verdicts

\* A filed request is a request, and a key of the store when named by a caller.
LEMMA FiledType ==
    ASSUME StoreTypeOK, NEW k \in Keys, Filed(k)
    PROVE  requests[k] \in Request
  BY DEF StoreTypeOK, Filed

LEMMA IsPendingFiled == \A k : Lifecycle!IsPending(k) => Filed(k)
  BY DEF Lifecycle!IsPending, Filed

LEMMA EntryType ==
    ASSUME NEW k \in Keys, NEW r \in Request
    PROVE  [key |-> k, request |-> r] \in Entry
  BY DEF Entry

LEMMA TypeInit == Init => TypeOK
  BY TimeAssumption, BoundAssumption DEF Init, TypeOK, StoreTypeOK, CallTypeOK, Errors

LEMMA TypeStep == TypeOK /\ [Next]_vars => TypeOK'
<1> SUFFICES ASSUME TypeOK, [Next]_vars PROVE TypeOK'
  OBVIOUS
<1>0. StoreTypeOK /\ CallTypeOK
  BY DEF TypeOK
<1>1. CASE UNCHANGED vars
  BY <1>1 DEF TypeOK, StoreTypeOK, CallTypeOK, vars
<1>2. CASE Tick
  BY <1>2, TimeAssumption DEF Tick, TypeOK, StoreTypeOK, CallTypeOK
<1>3. ASSUME NEW c \in Callers, CancelledCall(c) \/ InvalidDecision(c)
      PROVE  TypeOK'
  <2>1. StoreTypeOK'
    BY <1>0, <1>3 DEF CancelledCall, InvalidDecision, StoreTypeOK
  <2>2. PICK err \in Errors : Refused(c, err)
    BY <1>3 DEF CancelledCall, InvalidDecision, Errors
  <2>3. key' = [key EXCEPT ![c] = NoKey]
    BY <1>3 DEF CancelledCall, InvalidDecision
  <2>4. CallTypeOK'
    BY <1>0, <2>2, <2>3, RefusedTyped
  <2> QED BY <2>1, <2>4 DEF TypeOK
<1>4. ASSUME NEW c \in Callers, NEW t \in Tenants, NEW e \in Events,
             BeginCreate(c, t, e)
      PROVE  TypeOK'
  <2> DEFINE k == <<t, counter + 1>>
             r == Lifecycle!PendingRequest(e, clock, clock + TTL)
  <2>1. StoreTypeOK'
    BY <1>0, <1>4, BoundAssumption DEF BeginCreate, StoreTypeOK
  <2>2. k \in Keys
    BY <1>0, <1>4, BoundAssumption DEF BeginCreate, StoreTypeOK, Keys, Ids
  <2>3. r \in Request
    BY <1>0, ClockInTimes, PendingRequestType DEF StoreTypeOK
  <2>4. Waiting(c, "create", k, r)
    BY <1>4 DEF BeginCreate
  <2>5. CallTypeOK'
    <3> HIDE DEF k, r
    <3> QED BY <1>0, <2>2, <2>3, <2>4, WaitingTyped
  <2> QED BY <2>1, <2>5 DEF TypeOK
<1>5. ASSUME NEW c \in Callers, StoreRequest(c)
      PROVE  TypeOK'
  <2>1. key[c] \in Keys /\ arg[c] \in Request
    BY <1>0, <1>5 DEF StoreRequest, CallTypeOK
  <2>2. StoreTypeOK'
    BY <1>0, <1>5, <2>1 DEF StoreRequest, StoreTypeOK
  <2>3. {[key |-> key[c], request |-> arg[c]]} \in SUBSET Entry
    BY <2>1, EntryType
  <2>4. Returned(c, {[key |-> key[c], request |-> arg[c]]}) /\ key' = key
    BY <1>5 DEF StoreRequest
  <2>5. CallTypeOK'
    BY <1>0, <2>3, <2>4, ReturnedTyped
  <2> QED BY <2>2, <2>5 DEF TypeOK
<1>6. ASSUME NEW c \in Callers, NEW k \in Keys, NEW v \in Lifecycle!Verdicts,
             NEW a \in Actors, BeginDecide(c, k, v, a)
      PROVE  TypeOK'
  <2> DEFINE w == [status |-> v, actor |-> a, now |-> clock]
  <2>1. StoreTypeOK'
    BY <1>0, <1>6 DEF BeginDecide, StoreTypeOK
  <2>2. w \in Verdict
    BY <1>0, ClockInTimes DEF StoreTypeOK, Verdict
  <2>3. Waiting(c, "decide", k, w)
    BY <1>6 DEF BeginDecide
  <2>4. CallTypeOK'
    <3> HIDE DEF w
    <3> QED BY <1>0, <2>2, <2>3, WaitingTyped
  <2> QED BY <2>1, <2>4 DEF TypeOK
<1>7. ASSUME NEW c \in Callers, DecideMissing(c) \/ DecideSettled(c)
      PROVE  TypeOK'
  <2>1. StoreTypeOK'
    BY <1>0, <1>7 DEF DecideMissing, DecideSettled, StoreTypeOK
  <2>2. PICK err \in Errors : Refused(c, err)
    BY <1>7 DEF DecideMissing, DecideSettled, Errors
  <2>3. key' = key
    BY <1>7 DEF DecideMissing, DecideSettled
  <2>4. CallTypeOK'
    BY <1>0, <2>2, <2>3, RefusedTyped
  <2> QED BY <2>1, <2>4 DEF TypeOK
<1>8. ASSUME NEW c \in Callers, DecideOverdue(c)
      PROVE  TypeOK'
  <2>1. key[c] \in Keys
    BY <1>0, <1>8 DEF DecideOverdue, CallTypeOK
  <2>2. Lifecycle!Expired(requests[key[c]]) \in Request
    BY <1>0, <1>8, <2>1, IsPendingFiled, FiledType, ExpiredType DEF DecideOverdue
  <2>3. StoreTypeOK'
    BY <1>0, <1>8, <2>1, <2>2 DEF DecideOverdue, StoreTypeOK
  <2>4. Refused(c, "expired") /\ key' = key
    BY <1>8 DEF DecideOverdue
  <2>5. CallTypeOK'
    BY <1>0, <2>4, RefusedTyped DEF Errors
  <2> QED BY <2>3, <2>5 DEF TypeOK
<1>9. ASSUME NEW c \in Callers, DecidePending(c)
      PROVE  TypeOK'
  <2> DEFINE d == Lifecycle!Decided(requests[key[c]], arg[c].status, arg[c].actor,
                                    arg[c].now)
  <2>1. key[c] \in Keys /\ arg[c] \in Verdict
    BY <1>0, <1>9 DEF DecidePending, CallTypeOK
  <2>2. requests[key[c]] \in Request
    BY <1>0, <1>9, <2>1, IsPendingFiled, FiledType DEF DecidePending
  <2>3. d \in Request
    BY <2>1, <2>2, DecidedType DEF Verdict
  <2>4. /\ requests' = [requests EXCEPT ![key[c]] = d]
        /\ Returned(c, {[key |-> key[c], request |-> d]})
        /\ UNCHANGED <<clock, counter, key>>
    BY <1>9 DEF DecidePending, Settle
  <2> HIDE DEF d
  <2>5. StoreTypeOK'
    BY <1>0, <2>1, <2>3, <2>4 DEF StoreTypeOK
  <2>6. {[key |-> key[c], request |-> d]} \in SUBSET Entry
    BY <2>1, <2>3, EntryType
  <2>7. CallTypeOK'
    BY <1>0, <2>4, <2>6, ReturnedTyped
  <2> QED BY <2>5, <2>7 DEF TypeOK
<1>10. ASSUME NEW c \in Callers, NEW k \in Keys, Get(c, k)
       PROVE  TypeOK'
  <2>1. StoreTypeOK'
    BY <1>0, <1>10 DEF Get, StoreTypeOK
  <2>2. key' = [key EXCEPT ![c] = k]
    BY <1>10 DEF Get
  <2>3. CASE Filed(k) /\ Returned(c, {[key |-> k, request |-> requests[k]]})
    <3>1. {[key |-> k, request |-> requests[k]]} \in SUBSET Entry
      BY <1>0, <2>3, FiledType, EntryType
    <3> QED BY <1>0, <2>1, <2>2, <2>3, <3>1, ReturnedTyped DEF TypeOK
  <2>4. CASE ~Filed(k) /\ Refused(c, "not_found")
    BY <1>0, <2>1, <2>2, <2>4, RefusedTyped DEF TypeOK, Errors
  <2> QED BY <1>10, <2>3, <2>4 DEF Get
<1>11. ASSUME NEW c \in Callers, NEW t \in Tenants, List(c, t)
       PROVE  TypeOK'
  <2>1. StoreTypeOK'
    BY <1>0, <1>11 DEF List, StoreTypeOK
  <2>2. PICK kept \in SUBSET Listable(t) :
           Returned(c, {[key |-> k, request |-> requests[k]] : k \in kept})
    BY <1>11 DEF List
  <2> DEFINE es == {[key |-> k, request |-> requests[k]] : k \in kept}
  <2>3. es \in SUBSET Entry
    BY <1>0, FiledType, EntryType DEF Listable
  <2>4. key' = [key EXCEPT ![c] = NoKey]
    BY <1>11 DEF List
  <2>5. Returned(c, es)
    BY <2>2
  <2>6. CallTypeOK'
    <3> HIDE DEF es
    <3> QED BY <1>0, <2>3, <2>4, <2>5, ReturnedTyped
  <2> QED BY <2>1, <2>6 DEF TypeOK
<1> QED
  BY <1>1, <1>2, <1>3, <1>4, <1>5, <1>6, <1>7, <1>8, <1>9, <1>10, <1>11
  DEF Next, Call, Decide

\* The store and the record of every caller stay typed, whatever the interleaving
\* of the methods of store.go:49-138.
THEOREM TypeCorrect == Spec => []TypeOK
<1>1. TypeOK /\ [Next]_vars => TypeOK'
  BY TypeStep
<1> QED BY TypeInit, <1>1, PTL DEF Spec

--------------------------------------------------------------------------------
(* Safety                                                                     *)

\* A step that may touch the store keeps every filed request and every settled one.
KeepsSettled ==
    \A k \in Keys : Filed(k) =>
        /\ requests'[k] # NoRequest
        /\ requests'[k].event = requests[k].event
        /\ requests[k].status # "pending" => requests'[k] = requests[k]

LEMMA KeepsSettledStep == Safe /\ [Next]_vars => KeepsSettled
<1> SUFFICES ASSUME Safe, [Next]_vars PROVE KeepsSettled
  OBVIOUS
<1>0. TypeOK /\ StoreTypeOK /\ CallTypeOK /\ CreateIsFresh
  BY DEF Safe, TypeOK
<1>1. CASE requests' = requests
  BY <1>1 DEF KeepsSettled, Filed
<1>2. ASSUME NEW c \in Callers, StoreRequest(c)
      PROVE  KeepsSettled
  <2>1. key[c] \in Keys /\ ~Filed(key[c])
    BY <1>0, <1>2 DEF StoreRequest, CallTypeOK, CreateIsFresh
  <2>2. requests' = [requests EXCEPT ![key[c]] = arg[c]]
    BY <1>2 DEF StoreRequest
  <2> QED BY <1>0, <2>1, <2>2 DEF KeepsSettled, StoreTypeOK, Filed
<1>3. ASSUME NEW c \in Callers, DecideOverdue(c)
      PROVE  KeepsSettled
  <2>1. key[c] \in Keys /\ Lifecycle!IsPending(key[c])
    BY <1>0, <1>3 DEF DecideOverdue, CallTypeOK
  <2> DEFINE d == Lifecycle!Expired(requests[key[c]])
  <2>2. requests[key[c]] \in Request /\ requests[key[c]].status = "pending"
    BY <1>0, <2>1, IsPendingFiled, FiledType DEF Lifecycle!IsPending
  <2>3. d \in Request /\ d.event = requests[key[c]].event
    BY <2>2, ExpiredType
  <2>4. requests' = [requests EXCEPT ![key[c]] = d]
    BY <1>3 DEF DecideOverdue
  <2> HIDE DEF d
  <2> QED BY <1>0, <2>1, <2>2, <2>3, <2>4, PlaceholderAssumption
          DEF KeepsSettled, StoreTypeOK, Filed
<1>4. ASSUME NEW c \in Callers, DecidePending(c)
      PROVE  KeepsSettled
  <2> DEFINE d == Lifecycle!Decided(requests[key[c]], arg[c].status, arg[c].actor,
                                    arg[c].now)
  <2>1. key[c] \in Keys /\ arg[c] \in Verdict /\ Lifecycle!IsPending(key[c])
    BY <1>0, <1>4 DEF DecidePending, CallTypeOK
  <2>2. requests[key[c]] \in Request /\ requests[key[c]].status = "pending"
    BY <1>0, <2>1, IsPendingFiled, FiledType DEF Lifecycle!IsPending
  <2>3. d \in Request /\ d.event = requests[key[c]].event
    BY <2>1, <2>2, DecidedType DEF Verdict
  <2>4. requests' = [requests EXCEPT ![key[c]] = d]
    BY <1>4 DEF DecidePending, Settle
  <2> HIDE DEF d
  <2> QED BY <1>0, <2>1, <2>2, <2>3, <2>4, PlaceholderAssumption
          DEF KeepsSettled, StoreTypeOK, Filed
<1> QED
  BY <1>1, <1>2, <1>3, <1>4
  DEF Next, Call, Decide, vars, Tick, CancelledCall, InvalidDecision, BeginCreate,
      BeginDecide, DecideMissing, DecideSettled, Get, List

LEMMA SafeInit == Init => Safe
<1> SUFFICES ASSUME Init PROVE Safe
  OBVIOUS
<1>1. TypeOK
  BY TypeInit
<1> QED
  BY <1>1 DEF Init, Safe, IdsFromCounter, ArgumentsCurrent, CreateIsFresh,
              DeadlineRespected, AnswersHold, RefusalsHold, Filed

\* Only the holder of a draft files a request, and only under its own key.
LEMMA OnlyStoreFiles ==
    ASSUME Safe, [Next]_vars, NEW k \in Keys,
           ~Filed(k), requests'[k] # NoRequest
    PROVE  \E c \in Callers : StoreRequest(c) /\ k = key[c]
<1>0. TypeOK /\ StoreTypeOK /\ CallTypeOK
  BY DEF Safe, TypeOK
<1>1. CASE requests' = requests
  BY <1>1 DEF Filed
<1>2. ASSUME NEW c \in Callers, StoreRequest(c)
      PROVE  k = key[c]
  BY <1>0, <1>2 DEF StoreRequest, CallTypeOK, StoreTypeOK, Filed
<1>3. ASSUME NEW c \in Callers, DecideOverdue(c) \/ DecidePending(c)
      PROVE  FALSE
  <2>1. key[c] \in Keys /\ Filed(key[c])
    BY <1>0, <1>3, IsPendingFiled DEF DecideOverdue, DecidePending, CallTypeOK
  <2>2. \E d : requests' = [requests EXCEPT ![key[c]] = d]
    BY <1>3 DEF DecideOverdue, DecidePending, Settle
  <2> QED BY <1>0, <2>1, <2>2 DEF StoreTypeOK, Filed
<1> QED
  BY <1>1, <1>2, <1>3
  DEF Next, Call, Decide, vars, Tick, CancelledCall, InvalidDecision, BeginCreate,
      BeginDecide, DecideMissing, DecideSettled, Get, List

\* How a step can leave a caller waiting for the lock: it did before, or it just
\* drew its id or read the clock.
LEMMA WaiterOrigin ==
    ASSUME Safe, [Next]_vars, NEW c \in Callers, pc'[c] # "idle"
    PROVE  \/ pc'[c] = pc[c] /\ key'[c] = key[c] /\ arg'[c] = arg[c]
           \/ \E t \in Tenants, e \in Events :
                 BeginCreate(c, t, e) /\ pc'[c] = "create"
           \/ \E k \in Keys, v \in Lifecycle!Verdicts, a \in Actors :
                 BeginDecide(c, k, v, a) /\ pc'[c] = "decide"
<1>0. CallTypeOK
  BY DEF Safe, TypeOK
<1>1. CASE UNCHANGED vars \/ Tick
  BY <1>1 DEF vars, Tick
<1>2. ASSUME NEW d \in Callers, NEW m, NEW k, NEW a, Waiting(d, m, k, a)
      PROVE  \/ c = d /\ pc'[c] = m
             \/ pc'[c] = pc[c] /\ key'[c] = key[c] /\ arg'[c] = arg[c]
  BY <1>0, <1>2 DEF Waiting, CallTypeOK
<1>3. ASSUME NEW d \in Callers, NEW t \in Tenants, NEW e \in Events,
             BeginCreate(d, t, e)
      PROVE  \/ c = d /\ pc'[c] = "create"
             \/ pc'[c] = pc[c] /\ key'[c] = key[c] /\ arg'[c] = arg[c]
  BY <1>2, <1>3 DEF BeginCreate
<1>4. ASSUME NEW d \in Callers, NEW k \in Keys, NEW v \in Lifecycle!Verdicts,
             NEW a \in Actors, BeginDecide(d, k, v, a)
      PROVE  \/ c = d /\ pc'[c] = "decide"
             \/ pc'[c] = pc[c] /\ key'[c] = key[c] /\ arg'[c] = arg[c]
  BY <1>2, <1>4 DEF BeginDecide
<1>5. ASSUME NEW d \in Callers,
             \E err, es : Refused(d, err) \/ Returned(d, es),
             key' = key \/ \E k : key' = [key EXCEPT ![d] = k]
      PROVE  pc'[c] = pc[c] /\ key'[c] = key[c] /\ arg'[c] = arg[c]
  BY <1>0, <1>5 DEF Refused, Returned, CallTypeOK
<1>6. ASSUME NEW d \in Callers,
             \/ CancelledCall(d) \/ InvalidDecision(d) \/ StoreRequest(d) \/ Decide(d)
             \/ \E k \in Keys : Get(d, k)
             \/ \E t \in Tenants : List(d, t)
      PROVE  pc'[c] = pc[c] /\ key'[c] = key[c] /\ arg'[c] = arg[c]
  BY <1>5, <1>6 DEF CancelledCall, InvalidDecision, StoreRequest, Decide, DecideMissing,
      DecideSettled, DecideOverdue, DecidePending, Settle, Get, List
<1> QED BY <1>1, <1>3, <1>4, <1>6 DEF Next, Call

LEMMA DraftOrigin ==
    ASSUME Safe, [Next]_vars, NEW c \in Callers, pc'[c] = "create"
    PROVE  \/ pc[c] = "create" /\ key'[c] = key[c] /\ arg'[c] = arg[c]
           \/ \E t \in Tenants, e \in Events : BeginCreate(c, t, e)
  BY WaiterOrigin

LEMMA NothingRunsBack == Safe /\ [Next]_vars => counter' >= counter /\ clock' >= clock
<1> SUFFICES ASSUME Safe, [Next]_vars PROVE counter' >= counter /\ clock' >= clock
  OBVIOUS
<1>1. counter \in Nat /\ clock \in Nat
  BY BoundAssumption, TimeAssumption DEF Safe, TypeOK, StoreTypeOK
<1>2. CASE Tick
  BY <1>1, <1>2 DEF Tick
<1>3. ASSUME NEW c \in Callers, NEW t \in Tenants, NEW e \in Events,
             BeginCreate(c, t, e)
      PROVE  counter' >= counter /\ clock' >= clock
  BY <1>1, <1>3 DEF BeginCreate
<1>4. CASE counter' = counter /\ clock' = clock
  BY <1>1, <1>4
<1> QED
  BY <1>2, <1>3, <1>4
  DEF Next, Call, Decide, vars, CancelledCall, InvalidDecision, StoreRequest,
      BeginDecide, DecideMissing, DecideSettled, DecideOverdue, DecidePending, Settle,
      Get, List

LEMMA IdsFromCounterStep ==
    Safe /\ TypeOK' /\ [Next]_vars => IdsFromCounter'
<1> SUFFICES ASSUME Safe, TypeOK', [Next]_vars PROVE IdsFromCounter'
  OBVIOUS
<1>0. /\ CallTypeOK /\ CallTypeOK' /\ counter \in Nat /\ counter' \in Nat
      /\ \A k \in Keys : k[2] \in Nat
      /\ IdsFromCounter /\ counter' >= counter
  BY NothingRunsBack, BoundAssumption DEF Safe, TypeOK, StoreTypeOK, Keys, Ids
<1>1. ASSUME NEW k \in Keys, requests'[k] # NoRequest
      PROVE  k[2] <= counter'
  <2>1. CASE Filed(k)
    BY <1>0, <2>1 DEF IdsFromCounter
  <2>2. CASE ~Filed(k)
    <3>1. PICK c \in Callers : StoreRequest(c) /\ k = key[c]
      BY <1>1, <2>2, OnlyStoreFiles
    <3>2. pc[c] = "create"
      BY <3>1 DEF StoreRequest
    <3> QED BY <1>0, <3>1, <3>2 DEF IdsFromCounter
  <2> QED BY <2>1, <2>2
<1>2. ASSUME NEW c \in Callers, NEW t \in Tenants, NEW e \in Events,
             BeginCreate(c, t, e)
      PROVE  /\ key'[c][2] = counter' /\ counter' = counter + 1
             /\ \A d \in Callers \ {c} : pc'[d] = pc[d] /\ key'[d] = key[d]
  <2>1. key' = [key EXCEPT ![c] = <<t, counter + 1>>] /\ counter' = counter + 1
    BY <1>2 DEF BeginCreate, Waiting
  <2>2. key'[c] = <<t, counter + 1>>
    BY <1>0, <2>1 DEF CallTypeOK
  <2> QED BY <1>0, <1>2, <2>1, <2>2 DEF BeginCreate, Waiting, CallTypeOK
<1>3. ASSUME NEW c \in Callers, pc'[c] = "create"
      PROVE  key'[c][2] <= counter'
  <2>1. CASE pc[c] = "create" /\ key'[c] = key[c]
    BY <1>0, <2>1 DEF IdsFromCounter, CallTypeOK
  <2>2. CASE \E t \in Tenants, e \in Events : BeginCreate(c, t, e)
    BY <1>0, <1>2, <2>2
  <2> QED BY <1>3, <2>1, <2>2, DraftOrigin
<1>4. ASSUME NEW c \in Callers, NEW d \in Callers, c # d,
             pc'[c] = "create", pc'[d] = "create"
      PROVE  key'[c][2] # key'[d][2]
  <2>1. CASE /\ pc[c] = "create" /\ key'[c] = key[c]
             /\ pc[d] = "create" /\ key'[d] = key[d]
    BY <1>0, <1>4, <2>1 DEF IdsFromCounter
  <2>2. ASSUME NEW x \in Callers, NEW y \in Callers, x # y, pc'[y] = "create",
               \E t \in Tenants, e \in Events : BeginCreate(x, t, e)
        PROVE  key'[x][2] # key'[y][2]
    <3>1. pc[y] = "create" /\ key'[y] = key[y] /\ key'[x][2] = counter + 1
      BY <1>2, <2>2
    <3>2. key[y][2] <= counter /\ key[y] \in Keys
      BY <1>0, <3>1 DEF IdsFromCounter, CallTypeOK
    <3> QED BY <1>0, <3>1, <3>2
  <2> QED BY <1>4, <2>1, <2>2, DraftOrigin
<1> QED BY <1>1, <1>3, <1>4 DEF IdsFromCounter, Filed

LEMMA CreateIsFreshStep ==
    Safe /\ TypeOK' /\ [Next]_vars => CreateIsFresh'
<1> SUFFICES ASSUME Safe, TypeOK', [Next]_vars,
                    NEW c \in Callers, pc'[c] = "create",
                    requests'[key'[c]] # NoRequest
             PROVE  FALSE
  BY DEF CreateIsFresh, Filed
<1>0. /\ CallTypeOK /\ CallTypeOK' /\ counter \in Nat
      /\ IdsFromCounter /\ CreateIsFresh
  BY BoundAssumption DEF Safe, TypeOK, StoreTypeOK
<1>1. key'[c] \in Keys /\ key'[c][2] \in Nat
  BY <1>0 DEF CallTypeOK, Keys, Ids
<1>2. CASE pc[c] = "create" /\ key'[c] = key[c]
  <2>1. ~Filed(key[c])
    BY <1>0, <1>2 DEF CreateIsFresh
  <2>2. PICK d \in Callers : StoreRequest(d) /\ key[c] = key[d]
    BY <1>1, <1>2, <2>1, OnlyStoreFiles
  <2>3. c = d
    BY <1>0, <1>2, <2>2 DEF IdsFromCounter, StoreRequest
  <2>4. pc'[c] = "idle"
    BY <1>0, <2>2, <2>3 DEF StoreRequest, Returned, CallTypeOK
  <2> QED BY <2>4
<1>3. ASSUME NEW t \in Tenants, NEW e \in Events, BeginCreate(c, t, e)
      PROVE  FALSE
  <2>1. key' = [key EXCEPT ![c] = <<t, counter + 1>>] /\ requests' = requests
    BY <1>3 DEF BeginCreate, Waiting
  <2>2. key'[c] = <<t, counter + 1>>
    BY <1>0, <2>1 DEF CallTypeOK
  <2>3. Filed(key'[c])
    BY <2>1 DEF Filed
  <2> QED BY <1>0, <1>1, <2>2, <2>3 DEF IdsFromCounter
<1> QED BY <1>2, <1>3, DraftOrigin

LEMMA ArgumentsCurrentStep ==
    Safe /\ TypeOK' /\ [Next]_vars => ArgumentsCurrent'
<1> SUFFICES ASSUME Safe, TypeOK', [Next]_vars,
                    NEW c \in Callers, pc'[c] # "idle"
             PROVE  /\ pc'[c] = "create" =>
                          arg'[c] = Lifecycle!PendingRequest(arg'[c].event,
                                       arg'[c].requestedAt, arg'[c].expiresAt)
                    /\ pc'[c] = "decide" => arg'[c].now <= clock'
  BY DEF ArgumentsCurrent
<1>0. /\ CallTypeOK /\ ArgumentsCurrent /\ clock \in 0..MaxTime
      /\ clock \in Nat /\ clock' \in Nat /\ clock' >= clock
  BY NothingRunsBack, TimeAssumption DEF Safe, TypeOK, StoreTypeOK
<1>1. CASE pc'[c] = pc[c] /\ key'[c] = key[c] /\ arg'[c] = arg[c]
  <2>1. pc[c] = "decide" => arg[c].now \in Nat
    BY <1>0, TimeAssumption DEF CallTypeOK, Verdict, Times
  <2> QED BY <1>0, <1>1, <2>1 DEF ArgumentsCurrent
<1>2. ASSUME NEW t \in Tenants, NEW e \in Events,
             BeginCreate(c, t, e), pc'[c] = "create"
      PROVE  arg'[c] = Lifecycle!PendingRequest(arg'[c].event,
                          arg'[c].requestedAt, arg'[c].expiresAt)
  <2>1. arg'[c] = Lifecycle!PendingRequest(e, clock, clock + TTL)
    BY <1>0, <1>2 DEF BeginCreate, Waiting, CallTypeOK
  <2> QED BY <1>0, <2>1, ClockInTimes, PendingRequestType
<1>3. ASSUME NEW k \in Keys, NEW v \in Lifecycle!Verdicts, NEW a \in Actors,
             BeginDecide(c, k, v, a), pc'[c] = "decide"
      PROVE  arg'[c].now <= clock'
  <2>1. arg'[c] = [status |-> v, actor |-> a, now |-> clock] /\ clock' = clock
    BY <1>0, <1>3 DEF BeginDecide, Waiting, CallTypeOK
  <2> QED BY <1>0, <2>1
<1>4. CASE \E t \in Tenants, e \in Events : BeginCreate(c, t, e) /\ pc'[c] = "create"
  BY <1>2, <1>4
<1>5. CASE \E k \in Keys, v \in Lifecycle!Verdicts, a \in Actors :
              BeginDecide(c, k, v, a) /\ pc'[c] = "decide"
  BY <1>3, <1>5
<1> QED BY <1>1, <1>4, <1>5, WaiterOrigin

\* What a step does to the store, in the words of the abstract lifecycle.
LEMMA LifecycleStep ==
    ASSUME Safe, [Next]_vars
    PROVE  \/ requests' = requests
           \/ \E k \in Keys, e \in Events, from, until \in Times :
                 Lifecycle!Create(k, e, from, until)
           \/ \E k \in Keys, v \in Lifecycle!Verdicts, a \in Actors, now \in Times :
                 now <= clock /\ Lifecycle!Decide(k, v, a, now)
           \/ \E k \in Keys, now \in Times : now <= clock /\ Lifecycle!Expire(k, now)
<1>0. CallTypeOK /\ ArgumentsCurrent /\ CreateIsFresh
  BY DEF Safe, TypeOK
<1>1. ASSUME NEW c \in Callers, StoreRequest(c)
      PROVE  \E k \in Keys, e \in Events, from, until \in Times :
                 Lifecycle!Create(k, e, from, until)
  <2>1. /\ pc[c] = "create" /\ key[c] \in Keys /\ arg[c] \in Request
        /\ requests[key[c]] = NoRequest
        /\ requests' = [requests EXCEPT ![key[c]] = arg[c]]
    BY <1>0, <1>1 DEF StoreRequest, CallTypeOK, CreateIsFresh, Filed
  <2>2. /\ arg[c].event \in Events /\ arg[c].requestedAt \in Times
        /\ arg[c].expiresAt \in Times
    BY <2>1 DEF Request, Lifecycle!Request
  <2>3. Lifecycle!Create(key[c], arg[c].event, arg[c].requestedAt, arg[c].expiresAt)
    BY <1>0, <2>1 DEF Lifecycle!Create, ArgumentsCurrent
  <2> QED BY <2>1, <2>2, <2>3
<1>2. ASSUME NEW c \in Callers, DecidePending(c)
      PROVE  \E k \in Keys, v \in Lifecycle!Verdicts, a \in Actors, now \in Times :
                 now <= clock /\ Lifecycle!Decide(k, v, a, now)
  <2>1. /\ key[c] \in Keys /\ arg[c] \in Verdict /\ arg[c].now <= clock
    BY <1>0, <1>2 DEF DecidePending, CallTypeOK, ArgumentsCurrent
  <2>2. arg[c].status \in Lifecycle!Verdicts /\ arg[c].actor \in Actors
        /\ arg[c].now \in Times
    BY <2>1 DEF Verdict
  <2>3. Lifecycle!Decide(key[c], arg[c].status, arg[c].actor, arg[c].now)
    BY <1>2 DEF DecidePending, Settle, Lifecycle!Decide
  <2> QED BY <2>1, <2>2, <2>3
<1>3. ASSUME NEW c \in Callers, DecideOverdue(c)
      PROVE  \E k \in Keys, now \in Times : now <= clock /\ Lifecycle!Expire(k, now)
  <2>1. key[c] \in Keys /\ arg[c].now \in Times /\ arg[c].now <= clock
    BY <1>0, <1>3 DEF DecideOverdue, CallTypeOK, ArgumentsCurrent, Verdict
  <2>2. Lifecycle!Expire(key[c], arg[c].now)
    BY <1>3 DEF DecideOverdue, Lifecycle!Expire
  <2> QED BY <2>1, <2>2
<1> QED
  BY <1>1, <1>2, <1>3
  DEF Next, Call, Decide, vars, Tick, CancelledCall, InvalidDecision, BeginCreate,
      BeginDecide, DecideMissing, DecideSettled, Get, List

LEMMA DeadlineRespectedStep ==
    Safe /\ TypeOK' /\ [Next]_vars => DeadlineRespected'
<1> SUFFICES ASSUME Safe, TypeOK', [Next]_vars,
                    NEW k \in Keys, requests'[k] # NoRequest
             PROVE  /\ requests'[k].status \in Lifecycle!Verdicts =>
                          /\ requests'[k].decidedBy \in Actors
                          /\ requests'[k].decidedAt <= requests'[k].expiresAt
                    /\ requests'[k].status = "expired" => clock' > requests'[k].expiresAt
  BY DEF DeadlineRespected, Filed
<1>0. /\ StoreTypeOK /\ DeadlineRespected
      /\ clock \in Nat /\ clock' \in Nat /\ clock' >= clock
  BY NothingRunsBack, TimeAssumption DEF Safe, TypeOK, StoreTypeOK
<1>1. ASSUME NEW r \in Request
      PROVE  r.expiresAt \in Nat
  BY <1>1, TimeAssumption DEF Request, Lifecycle!Request, Times
<1>2. CASE requests'[k] = requests[k]
  <2>1. Filed(k) /\ requests[k] \in Request
    BY <1>0, <1>2, FiledType DEF Filed
  <2>2. requests[k].expiresAt \in Nat
    BY <1>1, <2>1
  <2> QED BY <1>0, <1>2, <2>1, <2>2 DEF DeadlineRespected
<1>3. ASSUME NEW j \in Keys, NEW e \in Events, NEW from \in Times, NEW until \in Times,
             Lifecycle!Create(j, e, from, until), j = k
      PROVE  requests'[k].status = "pending"
  <2> DEFINE r == Lifecycle!PendingRequest(e, from, until)
  <2>1. r.status = "pending"
    BY PendingRequestType
  <2>2. requests' = [requests EXCEPT ![k] = r]
    BY <1>3 DEF Lifecycle!Create
  <2> HIDE DEF r
  <2> QED BY <1>0, <2>1, <2>2 DEF StoreTypeOK
<1>4. ASSUME NEW j \in Keys, NEW v \in Lifecycle!Verdicts, NEW a \in Actors,
             NEW now \in Times, Lifecycle!Decide(j, v, a, now), j = k
      PROVE  /\ requests'[k].status = v /\ requests'[k].decidedBy = a
             /\ requests'[k].decidedAt <= requests'[k].expiresAt
  <2> DEFINE d == Lifecycle!Decided(requests[k], v, a, now)
  <2>1. Filed(k) /\ requests[k] \in Request
    BY <1>0, <1>4, IsPendingFiled, FiledType DEF Lifecycle!Decide
  <2>2. /\ d.status = v /\ d.decidedBy = a /\ d.decidedAt = now
        /\ d.expiresAt = requests[k].expiresAt
    BY <2>1, DecidedType
  <2>3. requests' = [requests EXCEPT ![k] = d]
    BY <1>4 DEF Lifecycle!Decide
  <2>4. now <= requests[k].expiresAt
    BY <1>1, <1>4, <2>1, TimeAssumption DEF Lifecycle!Decide, Lifecycle!Overdue, Times
  <2> HIDE DEF d
  <2> QED BY <1>0, <2>2, <2>3, <2>4 DEF StoreTypeOK
<1>5. ASSUME NEW j \in Keys, NEW now \in Times, now <= clock,
             Lifecycle!Expire(j, now), j = k
      PROVE  requests'[k].status = "expired" /\ clock' > requests'[k].expiresAt
  <2> DEFINE x == Lifecycle!Expired(requests[k])
  <2>1. Filed(k) /\ requests[k] \in Request
    BY <1>0, <1>5, IsPendingFiled, FiledType DEF Lifecycle!Expire
  <2>2. x.status = "expired" /\ x.expiresAt = requests[k].expiresAt
    BY <2>1, ExpiredType
  <2>3. requests' = [requests EXCEPT ![k] = x] /\ now > requests[k].expiresAt
    BY <1>5 DEF Lifecycle!Expire, Lifecycle!Overdue
  <2>4. requests[k].expiresAt \in Nat /\ now \in Nat
    BY <1>1, <2>1, TimeAssumption DEF Times
  <2>5. clock' > requests[k].expiresAt
    BY <1>0, <1>5, <2>3, <2>4
  <2> HIDE DEF x
  <2> QED BY <1>0, <2>2, <2>3, <2>5 DEF StoreTypeOK
<1>6. ASSUME NEW j \in Keys, j # k, \E r : requests' = [requests EXCEPT ![j] = r]
      PROVE  requests'[k] = requests[k]
  BY <1>0, <1>6 DEF StoreTypeOK
<1>7. CASE \E j \in Keys, e \in Events, from, until \in Times :
              Lifecycle!Create(j, e, from, until)
  BY <1>2, <1>3, <1>6, <1>7 DEF Lifecycle!Create, Lifecycle!Verdicts
<1>8. CASE \E j \in Keys, v \in Lifecycle!Verdicts, a \in Actors, now \in Times :
              Lifecycle!Decide(j, v, a, now)
  BY <1>2, <1>4, <1>6, <1>8 DEF Lifecycle!Decide, Lifecycle!Verdicts
<1>9. CASE \E j \in Keys, now \in Times : now <= clock /\ Lifecycle!Expire(j, now)
  BY <1>2, <1>5, <1>6, <1>9 DEF Lifecycle!Expire, Lifecycle!Verdicts
<1> QED BY <1>2, <1>7, <1>8, <1>9, LifecycleStep

\* What a caller sees after a step it saw before, or it is what the store now holds.
LEMMA AnswerOrigin ==
    ASSUME Safe, [Next]_vars, NEW c \in Callers
    PROVE  \/ seen'[c] = seen[c]
           \/ \A entry \in seen'[c] :
                 entry.key \in Keys /\ requests'[entry.key] = entry.request
<1>0. CallTypeOK /\ StoreTypeOK
  BY DEF Safe, TypeOK
<1>1. CASE UNCHANGED vars \/ Tick
  BY <1>1 DEF vars, Tick
<1>2. ASSUME NEW d \in Callers, NEW es, seen' = [seen EXCEPT ![d] = es],
             \A entry \in es : entry.key \in Keys /\ requests'[entry.key] = entry.request
      PROVE  \/ seen'[c] = seen[c]
             \/ \A entry \in seen'[c] :
                   entry.key \in Keys /\ requests'[entry.key] = entry.request
  BY <1>0, <1>2 DEF CallTypeOK
<1>3. ASSUME NEW d \in Callers,
             \/ CancelledCall(d) \/ InvalidDecision(d) \/ DecideMissing(d)
             \/ DecideSettled(d) \/ DecideOverdue(d)
             \/ \E t \in Tenants, e \in Events : BeginCreate(d, t, e)
             \/ \E k \in Keys, v \in Lifecycle!Verdicts, a \in Actors :
                   BeginDecide(d, k, v, a)
      PROVE  seen' = [seen EXCEPT ![d] = {}]
  BY <1>3 DEF CancelledCall, InvalidDecision, DecideMissing, DecideSettled,
      DecideOverdue, BeginCreate, BeginDecide, Refused, Waiting
<1>4. ASSUME NEW d \in Callers, StoreRequest(d)
      PROVE  \E es : /\ seen' = [seen EXCEPT ![d] = es]
                     /\ \A entry \in es : /\ entry.key \in Keys
                                          /\ requests'[entry.key] = entry.request
  <2>1. key[d] \in Keys /\ requests'[key[d]] = arg[d]
    BY <1>0, <1>4 DEF StoreRequest, CallTypeOK, StoreTypeOK
  <2> DEFINE es == {[key |-> key[d], request |-> arg[d]]}
  <2>2. seen' = [seen EXCEPT ![d] = es]
    BY <1>4 DEF StoreRequest, Returned
  <2>3. \A entry \in es : entry.key \in Keys /\ requests'[entry.key] = entry.request
    BY <2>1
  <2> HIDE DEF es
  <2> QED BY <2>2, <2>3
<1>5. ASSUME NEW d \in Callers, DecidePending(d)
      PROVE  \E es : /\ seen' = [seen EXCEPT ![d] = es]
                     /\ \A entry \in es : /\ entry.key \in Keys
                                          /\ requests'[entry.key] = entry.request
  <2> DEFINE r == Lifecycle!Decided(requests[key[d]], arg[d].status, arg[d].actor,
                                    arg[d].now)
  <2>1. /\ key[d] \in Keys
        /\ requests' = [requests EXCEPT ![key[d]] = r]
        /\ seen' = [seen EXCEPT ![d] = {[key |-> key[d], request |-> r]}]
    BY <1>0, <1>5 DEF DecidePending, Settle, Returned, CallTypeOK
  <2> HIDE DEF r
  <2>2. requests'[key[d]] = r
    BY <1>0, <2>1 DEF StoreTypeOK
  <2> DEFINE es == {[key |-> key[d], request |-> r]}
  <2>3. \A entry \in es : entry.key \in Keys /\ requests'[entry.key] = entry.request
    BY <2>1, <2>2
  <2>4. seen' = [seen EXCEPT ![d] = es]
    BY <2>1
  <2> HIDE DEF es
  <2> QED BY <2>3, <2>4
<1>6. ASSUME NEW d \in Callers, NEW k \in Keys, Get(d, k)
      PROVE  \E es : /\ seen' = [seen EXCEPT ![d] = es]
                     /\ \A entry \in es : /\ entry.key \in Keys
                                          /\ requests'[entry.key] = entry.request
  <2>1. requests' = requests
    BY <1>6 DEF Get
  <2>2. PICK es \in {{[key |-> k, request |-> requests[k]]}, {}} :
           seen' = [seen EXCEPT ![d] = es]
    BY <1>6 DEF Get, Returned, Refused
  <2>3. \A entry \in es : entry.key \in Keys /\ requests'[entry.key] = entry.request
    BY <2>1, <2>2
  <2> QED BY <2>2, <2>3
<1>7. ASSUME NEW d \in Callers, NEW t \in Tenants, List(d, t)
      PROVE  \E es : /\ seen' = [seen EXCEPT ![d] = es]
                     /\ \A entry \in es : /\ entry.key \in Keys
                                          /\ requests'[entry.key] = entry.request
  <2>1. requests' = requests
    BY <1>7 DEF List
  <2>2. PICK kept \in SUBSET Listable(t) :
           Returned(d, {[key |-> k, request |-> requests[k]] : k \in kept})
    BY <1>7 DEF List
  <2> DEFINE es == {[key |-> k, request |-> requests[k]] : k \in kept}
  <2>3. \A entry \in es : entry.key \in Keys /\ requests'[entry.key] = entry.request
    BY <2>1 DEF Listable
  <2>4. seen' = [seen EXCEPT ![d] = es]
    BY <2>2 DEF Returned
  <2> HIDE DEF es
  <2> QED BY <2>3, <2>4
<1>8. ASSUME NEW d \in Callers,
             \E es : /\ seen' = [seen EXCEPT ![d] = es]
                     /\ \A entry \in es : /\ entry.key \in Keys
                                          /\ requests'[entry.key] = entry.request
      PROVE  \/ seen'[c] = seen[c]
             \/ \A entry \in seen'[c] :
                   entry.key \in Keys /\ requests'[entry.key] = entry.request
  BY <1>2, <1>8
<1>9. ASSUME NEW d \in Callers, Call(d) \/ StoreRequest(d) \/ Decide(d)
      PROVE  \/ seen'[c] = seen[c]
             \/ \A entry \in seen'[c] :
                   entry.key \in Keys /\ requests'[entry.key] = entry.request
  <2>1. CASE seen' = [seen EXCEPT ![d] = {}]
    BY <1>2, <2>1
  <2> QED BY <1>3, <1>4, <1>5, <1>6, <1>7, <1>8, <1>9, <2>1 DEF Call, Decide
<1> QED BY <1>1, <1>9 DEF Next

LEMMA AnswersHoldStep ==
    Safe /\ TypeOK' /\ [Next]_vars => AnswersHold'
<1> SUFFICES ASSUME Safe, TypeOK', [Next]_vars, NEW c \in Callers, NEW entry \in seen'[c]
             PROVE  /\ requests'[entry.key] # NoRequest
                    /\ requests'[entry.key].event = entry.request.event
                    /\ entry.request.status # "pending" =>
                          requests'[entry.key] = entry.request
  BY DEF AnswersHold, Filed
<1>0. CallTypeOK /\ CallTypeOK' /\ AnswersHold /\ KeepsSettled
  BY KeepsSettledStep DEF Safe, TypeOK
<1>1. entry.key \in Keys /\ entry.request \in Request
  BY <1>0 DEF CallTypeOK, Entry
<1>2. CASE seen'[c] = seen[c]
  <2>1. /\ Filed(entry.key)
        /\ requests[entry.key].event = entry.request.event
        /\ entry.request.status # "pending" => requests[entry.key] = entry.request
    BY <1>0, <1>2 DEF AnswersHold
  <2> QED BY <1>0, <1>1, <2>1 DEF KeepsSettled
<1>3. CASE requests'[entry.key] = entry.request
  BY <1>1, <1>3, PlaceholderAssumption
<1> QED BY <1>2, <1>3, AnswerOrigin

\* A caller's error after a step is the one it had, or says nothing final, or the
\* store now bears it out.
LEMMA RefusalOrigin ==
    ASSUME Safe, [Next]_vars, NEW c \in Callers
    PROVE  \/ error'[c] = error[c] /\ key'[c] = key[c]
           \/ error'[c] \notin {"already_decided", "expired"}
           \/ /\ key'[c] \in Keys
              /\ requests'[key'[c]] # NoRequest
              /\ requests'[key'[c]].status # "pending"
              /\ error'[c] = "expired" => requests'[key'[c]].status = "expired"
<1>0. CallTypeOK /\ StoreTypeOK
  BY DEF Safe, TypeOK
<1>1. CASE UNCHANGED vars \/ Tick
  BY <1>1 DEF vars, Tick
<1>2. ASSUME NEW d \in Callers, NEW err, error' = [error EXCEPT ![d] = err],
             key' = key \/ \E k : key' = [key EXCEPT ![d] = k],
             err \notin {"already_decided", "expired"}
      PROVE  \/ error'[c] = error[c] /\ key'[c] = key[c]
             \/ error'[c] \notin {"already_decided", "expired"}
  BY <1>0, <1>2 DEF CallTypeOK
<1>3. ASSUME NEW d \in Callers, Call(d) \/ StoreRequest(d) \/ DecideMissing(d)
                                \/ DecidePending(d)
      PROVE  \/ error'[c] = error[c] /\ key'[c] = key[c]
             \/ error'[c] \notin {"already_decided", "expired"}
  <2>1. \/ error' = [error EXCEPT ![d] = "none"]
        \/ error' = [error EXCEPT ![d] = "cancelled"]
        \/ error' = [error EXCEPT ![d] = "invalid_decision"]
        \/ error' = [error EXCEPT ![d] = "not_found"]
    BY <1>3 DEF Call, CancelledCall, InvalidDecision, BeginCreate, BeginDecide, Get, List,
        StoreRequest, DecideMissing, DecidePending, Settle, Refused, Returned, Waiting
  <2>2. key' = key \/ \E k : key' = [key EXCEPT ![d] = k]
    BY <1>3 DEF Call, CancelledCall, InvalidDecision, BeginCreate, BeginDecide, Get, List,
        StoreRequest, DecideMissing, DecidePending, Settle, Waiting
  <2> QED BY <1>2, <2>1, <2>2
<1>4. ASSUME NEW d \in Callers, DecideSettled(d) \/ DecideOverdue(d), c # d
      PROVE  error'[c] = error[c] /\ key'[c] = key[c]
  BY <1>0, <1>4 DEF DecideSettled, DecideOverdue, Refused, CallTypeOK
<1>5. ASSUME DecideSettled(c)
      PROVE  /\ key'[c] \in Keys /\ requests'[key'[c]] # NoRequest
             /\ requests'[key'[c]].status # "pending" /\ error'[c] # "expired"
  BY <1>0, <1>5 DEF DecideSettled, Refused, CallTypeOK, Filed
<1>6. ASSUME DecideOverdue(c)
      PROVE  /\ key'[c] \in Keys /\ requests'[key'[c]] # NoRequest
             /\ requests'[key'[c]].status = "expired"
  <2> DEFINE x == Lifecycle!Expired(requests[key[c]])
  <2>1. key[c] \in Keys /\ Filed(key[c])
    BY <1>0, <1>6, IsPendingFiled DEF DecideOverdue, CallTypeOK
  <2>2. x \in Request /\ x.status = "expired"
    BY <1>0, <2>1, FiledType, ExpiredType
  <2>3. requests' = [requests EXCEPT ![key[c]] = x] /\ key' = key
    BY <1>6 DEF DecideOverdue
  <2> HIDE DEF x
  <2> QED BY <1>0, <2>1, <2>2, <2>3, PlaceholderAssumption DEF StoreTypeOK
<1> QED BY <1>1, <1>3, <1>4, <1>5, <1>6 DEF Next, Decide

LEMMA RefusalsHoldStep ==
    Safe /\ TypeOK' /\ [Next]_vars => RefusalsHold'
<1> SUFFICES ASSUME Safe, TypeOK', [Next]_vars, NEW c \in Callers,
                    error'[c] \in {"already_decided", "expired"}
             PROVE  /\ key'[c] \in Keys
                    /\ requests'[key'[c]] # NoRequest
                    /\ requests'[key'[c]].status # "pending"
                    /\ error'[c] = "expired" => requests'[key'[c]].status = "expired"
  BY DEF RefusalsHold, Filed
<1>0. RefusalsHold /\ KeepsSettled
  BY KeepsSettledStep DEF Safe
<1>1. CASE error'[c] = error[c] /\ key'[c] = key[c]
  BY <1>0, <1>1 DEF RefusalsHold, KeepsSettled
<1> QED BY <1>1, RefusalOrigin

LEMMA SafeStep == Safe /\ [Next]_vars => Safe'
<1> SUFFICES ASSUME Safe, [Next]_vars PROVE Safe'
  OBVIOUS
<1>1. TypeOK'
  BY TypeStep DEF Safe
<1>2. IdsFromCounter' /\ CreateIsFresh'
  BY <1>1, IdsFromCounterStep, CreateIsFreshStep
<1>3. ArgumentsCurrent' /\ DeadlineRespected'
  BY <1>1, ArgumentsCurrentStep, DeadlineRespectedStep
<1>4. AnswersHold' /\ RefusalsHold'
  BY <1>1, AnswersHoldStep, RefusalsHoldStep
<1> QED BY <1>1, <1>2, <1>3, <1>4 DEF Safe

\* The inductive invariant of the store.
THEOREM AlwaysSafe == Spec => []Safe
<1>1. Safe /\ [Next]_vars => Safe'
  BY SafeStep
<1> QED BY SafeInit, <1>1, PTL DEF Spec

\* No Create replaces a filed request, although ids are drawn outside the lock
\* (store.go:56-67).
THEOREM CreateAlwaysFresh == Spec => []CreateIsFresh
<1>1. Safe => CreateIsFresh
  BY DEF Safe
<1> QED BY AlwaysSafe, <1>1, PTL

\* A verdict is never later than the deadline, and nothing expires early
\* (store.go:113-136).
THEOREM DeadlineAlwaysRespected == Spec => []DeadlineRespected
<1>1. Safe => DeadlineRespected
  BY DEF Safe
<1> QED BY AlwaysSafe, <1>1, PTL

\* Whatever a caller was returned stays true of the store.
THEOREM AnswersAlwaysHold == Spec => []AnswersHold
<1>1. Safe => AnswersHold
  BY DEF Safe
<1> QED BY AlwaysSafe, <1>1, PTL

\* A caller refused because the request was settled or late was rightly refused.
THEOREM RefusalsAlwaysHold == Spec => []RefusalsHold
<1>1. Safe => RefusalsHold
  BY DEF Safe
<1> QED BY AlwaysSafe, <1>1, PTL

\* A filed request keeps its event and, once out of pending, never changes again.
THEOREM OnlyPendingEverChanges == Spec => OnlyPendingChanges
<1>1. Safe /\ [Next]_vars =>
        [\A k \in Keys : Filed(k) =>
            /\ requests'[k] # NoRequest
            /\ requests'[k].event = requests[k].event
            /\ requests[k].status # "pending" => requests'[k] = requests[k]]_vars
  BY KeepsSettledStep DEF KeepsSettled
<1> QED BY AlwaysSafe, <1>1, PTL DEF Spec, OnlyPendingChanges

\* The memory store implements the abstract lifecycle: calls in flight, errors and
\* answers are stutters, each critical section is at most one abstract step.
THEOREM RefinesLifecycle == Spec => ImplementsLifecycle
<1>1. Init => Lifecycle!Init
  BY DEF Init, Lifecycle!Init
<1>2. Safe /\ [Next]_vars => [Lifecycle!Next]_requests
  BY LifecycleStep DEF Lifecycle!Next
<1> QED BY AlwaysSafe, <1>1, <1>2, PTL DEF Spec, ImplementsLifecycle, Lifecycle!Spec

================================================================================
