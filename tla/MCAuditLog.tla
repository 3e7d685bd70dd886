------------------------------- MODULE MCAuditLog -------------------------------
(* Model values for AuditLog; writers and values are interchangeable.  Limits stand*)
(* for 100 and 1000, the largest int for 2^63 - 1.                                 *)
EXTENDS AuditLog, TLC

Interchangeable == Permutations(Writers) \cup Permutations(Values)

================================================================================
