------------------------- MODULE MCMemoryApprovalStore -------------------------
(* Model values for MemoryApprovalStore; callers, tenants, events and actors   *)
(* are interchangeable.                                                        *)
EXTENDS MemoryApprovalStore, TLC

Interchangeable ==
    Permutations(Callers) \cup Permutations(Tenants)
        \cup Permutations(Events) \cup Permutations(Actors)

================================================================================
