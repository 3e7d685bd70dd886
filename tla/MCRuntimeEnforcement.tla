-------------------------- MODULE MCRuntimeEnforcement --------------------------
(* Small instances of RuntimeEnforcement.  "write" differs from "read" in its     *)
(* action, "foreign" in its tenant alone, and "blank" does not validate.          *)
EXTENDS RuntimeEnforcement

TenantOfEvent == [e \in Events |-> IF e = "foreign" THEN "t2" ELSE "t1"]

BindingOfEvent == [e \in Events |-> IF e = "write" THEN "write" ELSE "read"]

\* Executions are interchangeable, and so are "read" and "write": of two operations
\* one may be taken to be "read", but for "write" next to "foreign", which have less
\* in common than "read" has with either.
First == CHOOSE x \in Executions : TRUE

PairsWithRead ==
    {calls \in [Executions -> [event : Events, approval : {NoId, 1}]] :
        calls[First].event = "read"}

\* In PostgreSQL, where requests are decided again and again, only the first files one.
OneFiles(calls) ==
    \A x \in Executions \ {First} : calls[x].event = "blank" \/ calls[x].approval = 1

StartsWithRead ==
    {start \in [persistent : BOOLEAN, calls : PairsWithRead] :
        start.persistent => OneFiles(start.calls)}

================================================================================
