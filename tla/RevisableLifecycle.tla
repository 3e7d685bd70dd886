--------------------------- MODULE RevisableLifecycle ---------------------------
(****************************************************************************)
(* What an approval store still owes when deciders race over two            *)
(* statements, as those of PostgreSQL do.  A request is filed once and      *)
(* never becomes pending again, but a later decider may replace the verdict *)
(* of an earlier one.  It never mixes the two: what it stores is the        *)
(* request as it was filed, with its own verdict alone.                     *)
(****************************************************************************)
EXTENDS ApprovalLifecycle

\* The request as it was filed.
Asked(request) == PendingRequest(request.event, request.requestedAt, request.expiresAt)

\* A verdict, given in time to the request as it was filed.
Revise(k, verdict, actor, now) ==
    /\ requests[k] # NoRequest
    /\ ~Overdue(requests[k], now)
    /\ requests' = [requests EXCEPT ![k] = Decided(Asked(@), verdict, actor, now)]

\* A decider that found it pending, and past its deadline, marks it expired.
Lapse(k, now) ==
    /\ requests[k] # NoRequest
    /\ Overdue(requests[k], now)
    /\ requests' = [requests EXCEPT ![k] = Expired(Asked(@))]

\* A step that changes no request is a stutter, and is not looked into.
ReviseNext ==
    \E k \in Keys :
        /\ requests'[k] # requests[k]
        /\ \/ \E e \in Events, from, until \in Times : Create(k, e, from, until)
           \/ \E v \in Verdicts, a \in Actors, now \in Times : Revise(k, v, a, now)
           \/ \E now \in Times : Lapse(k, now)

ReviseSpec == Init /\ [][ReviseNext]_requests

================================================================================
