--------------------------- MODULE ApprovalLifecycle ---------------------------
(****************************************************************************)
(* What an approval store owes the rest of the system, with no caller, lock *)
(* or database row in sight.  A request is filed once under a key (a tenant *)
(* and an id), is decided or expires at most once, and is never edited      *)
(* otherwise.  MemoryApprovalStore is shown to implement it, and            *)
(* RuntimeEnforcement is built on it.                                       *)
(****************************************************************************)
EXTENDS Integers

CONSTANTS
    Keys,       \* what a request is filed under
    Events,     \* the runtime events an approval may be asked for
    Actors,     \* who can decide (decided_by)
    Nobody,     \* decided_by of an undecided request
    Times,      \* clock readings
    NoRequest   \* nothing is filed under the key

VARIABLE requests   \* key -> request

--------------------------------------------------------------------------------

Verdicts == {"approved", "rejected"}
Statuses == Verdicts \cup {"pending", "expired"}

Request == [event : Events, requestedAt : Times, expiresAt : Times,
            status : Statuses, decidedAt : Times \cup {-1},
            decidedBy : Actors \cup {Nobody}]

PendingRequest(e, from, until) ==
    [event |-> e, requestedAt |-> from, expiresAt |-> until,
     status |-> "pending", decidedAt |-> -1, decidedBy |-> Nobody]

\* time.Time.After is strict: at the deadline itself a request can be decided.
Overdue(request, now) == now > request.expiresAt

Decided(request, verdict, actor, now) ==
    [request EXCEPT !.status = verdict, !.decidedAt = now, !.decidedBy = actor]

Expired(request) == [request EXCEPT !.status = "expired"]

IsPending(k) == requests[k] # NoRequest /\ requests[k].status = "pending"

--------------------------------------------------------------------------------

Init == requests = [k \in Keys |-> NoRequest]

Create(k, e, from, until) ==
    /\ requests[k] = NoRequest
    /\ requests' = [requests EXCEPT ![k] = PendingRequest(e, from, until)]

Decide(k, verdict, actor, now) ==
    /\ IsPending(k)
    /\ ~Overdue(requests[k], now)
    /\ requests' = [requests EXCEPT ![k] = Decided(@, verdict, actor, now)]

Expire(k, now) ==
    /\ IsPending(k)
    /\ Overdue(requests[k], now)
    /\ requests' = [requests EXCEPT ![k] = Expired(@)]

Next ==
    \E k \in Keys :
        \/ \E e \in Events, from, until \in Times : Create(k, e, from, until)
        \/ \E v \in Verdicts, a \in Actors, now \in Times : Decide(k, v, a, now)
        \/ \E now \in Times : Expire(k, now)

Spec == Init /\ [][Next]_requests

================================================================================
