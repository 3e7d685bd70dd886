------------------------------- MODULE AuditTrail -------------------------------
(****************************************************************************)
(* What an audit store owes the rest of the system: records are added one   *)
(* at a time, each under an id of its own, and are never changed or lost.   *)
(* AuditLog is shown to implement it, whichever store is configured.        *)
(****************************************************************************)
CONSTANT Records    \* records with an id

VARIABLE trail      \* the records kept

Init == trail = {}

Add(record) ==
    /\ \A kept \in trail : kept.id # record.id
    /\ trail' = trail \cup {record}

Next == \E record \in Records : Add(record)

Spec == Init /\ [][Next]_trail

================================================================================
