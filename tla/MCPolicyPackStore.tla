--------------------------- MODULE MCPolicyPackStore ---------------------------
(* Model values for PolicyPackStore: a baseline pack and one of the tenant's own. *)
EXTENDS PolicyPackStore, TLC

Interchangeable == Permutations(Admins)

================================================================================
