---------------------------- MODULE MCPolicyEngine -----------------------------
(* A small world of policies for PolicyEngine: two tenants, one spelled in two *)
(* ways, packs that are disabled or leave the tenant to their policies, and    *)
(* policies that tie on decision, on priority, or match under one condition.   *)
EXTENDS PolicyEngine

MCStrings == {"", "  ", "t1", "T1", "t2", "shell", "SHELL", "mail", "/etc", "/etc/passwd",
              "pii", "PII", "read", "p1", "p2", "p3", "p4", "p5", "p6", "p7", "why"}

MCFold == [s \in MCStrings |->
    CASE s = "  " -> "" [] s = "T1" -> "t1" [] s = "SHELL" -> "shell" [] s = "PII" -> "pii"
      [] OTHER -> s]

MCCovers == {<<"/etc", "/etc/passwd">>, <<"/etc", "/etc">>, <<"/etc/passwd", "/etc/passwd">>}

Anything == [f \in Fields |-> {}]

MCPolicy(id, tenant, enabled, priority, conditions, decision) ==
    [id |-> id, tenant |-> tenant, enabled |-> enabled, priority |-> priority,
     conditions |-> conditions, decision |-> decision,
     reason |-> IF id = "p1" THEN "why" ELSE ""]

DenyEtc    == MCPolicy("p1", "", TRUE, 1,
                [Anything EXCEPT !["resource"] = {"/etc", "  "}], "deny")
AskShell   == MCPolicy("p2", "T1", TRUE, 2,
                [Anything EXCEPT !["tool"] = {"SHELL"}], "require_approval")
AskPii     == MCPolicy("p3", "  ", TRUE, 1,
                [Anything EXCEPT !["labels"] = {"PII"}], "require_approval")
AllowAll   == MCPolicy("p4", "", TRUE, 0, Anything, "allow")
RecordOff  == MCPolicy("p5", "", FALSE, 9, Anything, "record")
Unranked   == MCPolicy("p6", "", TRUE, 9,
                [Anything EXCEPT !["type"] = {"read"}], "unknown")
AllowLow   == MCPolicy("p7", "", TRUE, -1, Anything, "allow")

MCPack(tenant, enabled, policies_) ==
    [tenant |-> tenant, enabled |-> enabled, policies |-> policies_]

ListsOf(pool) ==
    {<<>>} \cup {<<a>> : a \in pool}
           \cup {<<a, b>> : a \in pool, b \in pool}
           \cup {<<a, b, c>> : a \in pool, b \in pool, c \in pool}

MCPackLists == ListsOf(
    {MCPack("t1", TRUE, <<AskShell, AskPii>>), MCPack("t1", TRUE, <<AllowAll, RecordOff>>),
     MCPack("t2", TRUE, <<DenyEtc>>), MCPack("", TRUE, <<DenyEtc, Unranked>>),
     MCPack("t1", FALSE, <<DenyEtc>>), MCPack("T1", TRUE, <<AllowLow>>)})

MCEvents ==
    {[tenant |-> t,
      values |-> [f \in Fields \ ListFields |->
          CASE f = "type" -> "read" [] f = "tool" -> tool [] f = "resource" -> resource],
      lists  |-> [f \in ListFields |-> labels]] :
     t \in {"t1", "t2"}, tool \in {"shell", "mail"}, labels \in {{}, {"pii"}},
     resource \in {"", "/etc/passwd"}}

================================================================================
