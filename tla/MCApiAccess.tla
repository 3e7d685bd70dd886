------------------------------ MODULE MCApiAccess ------------------------------
(* A small world for ApiAccess: two tenants, one also spelled with a space, two   *)
(* secrets, configurations that are blank, whole, or wrong in one entry.          *)
EXTENDS ApiAccess

MCStrings == {"", " ", "t1", " t1", "t2", "*", "s1", " s1", "s2", "runtime"}

MCTrim == [s \in MCStrings |->
    CASE s = " " -> "" [] s = " t1" -> "t1" [] s = " s1" -> "s1" [] OTHER -> s]

MCEntry(id, secret, tenants) ==
    [formed |-> TRUE, id |-> id, secret |-> secret, tenants |-> tenants]

OfT1 == MCEntry("runtime", "s1", <<" t1">>)
OfT2 == MCEntry("runtime", "s2", <<"t2">>)
OfAll == MCEntry("runtime", "s2", <<"t2", "*">>)

MCConfigs ==
    {<<>>, <<OfT1>>, <<OfT1, OfT2>>, <<OfAll, OfT1>>,
     <<OfT1, MCEntry("runtime", " s1", <<"t2">>)>>,
     <<OfT1, [OfT2 EXCEPT !.formed = FALSE]>>,
     <<MCEntry("runtime", " ", <<"t1">>)>>, <<MCEntry("", "s1", <<"t1">>)>>,
     <<OfT2, MCEntry("runtime", "s1", <<"t1", " ">>)>>}

Tokens == {"", "s1", " s1", "s2"}
Tenants == {"t1", " t1", "t2", " "}

MCRequest(route, token, tenant, body, flag) ==
    [route |-> route, token |-> token, tenant |-> tenant, body |-> body, flag |-> flag]

MCRequests ==
    LET Made(routes, tenants, bodies, flags) ==
            {MCRequest(r, k, t, b, f) :
                r \in routes, k \in Tokens, t \in tenants, b \in bodies, f \in flags}
    IN  Made({"healthz"}, {""}, {""}, {FALSE})
        \cup {q \in Made({"evaluate"}, Tenants \cup {""}, Tenants \cup {"", Unreadable}, BOOLEAN) :
                 q.tenant = IF q.body = Unreadable THEN "" ELSE q.body}
        \cup Made({"audit"}, Tenants \cup {""}, {"", Unreadable}, {FALSE})
        \cup Made({"list packs", "get pack", "list approvals", "get approval"}, Tenants, {""}, {FALSE})
        \cup Made({"put pack"}, Tenants, {"", "t2", Unreadable}, BOOLEAN)
        \cup Made({"patch pack"}, Tenants, {"", Unreadable}, BOOLEAN)
        \cup Made({"decide"}, Tenants, {"", Unreadable}, {TRUE})
        \cup Made({"simulate"}, Tenants, Tenants \cup {Unreadable}, {FALSE})

================================================================================
