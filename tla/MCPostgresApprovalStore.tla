------------------------ MODULE MCPostgresApprovalStore ------------------------
(* Model values for PostgresApprovalStore; callers, events and actors are      *)
(* interchangeable.                                                            *)
EXTENDS PostgresApprovalStore, TLC

Interchangeable ==
    Permutations(Callers) \cup Permutations(Events) \cup Permutations(Actors)

================================================================================
