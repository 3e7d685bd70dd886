--------------------------- MODULE MCPolicySimulation ---------------------------
(* A small world for PolicySimulation: drafts that leave the tenant blank, spell  *)
(* it otherwise, name another one, are disabled, or hold a policy of another;     *)
(* beforehand the store is empty, or holds a pack in force, or packs that are not. *)
EXTENDS PolicySimulation

MCStrings == {"", "  ", "t1", "T1", "t2", "shell", "SHELL", "mail", "p1", "p2", "p3", "p4", "p5", "p6"}

MCFold == [s \in MCStrings |->
    CASE s = "  " -> "" [] s = "T1" -> "t1" [] s = "SHELL" -> "shell" [] OTHER -> s]

MCPolicy(id, tenant, priority, tools, decision) ==
    [id |-> id, tenant |-> tenant, enabled |-> TRUE, priority |-> priority,
     conditions |-> [f \in {"tool"} |-> tools], decision |-> decision, reason |-> ""]

MCPack(tenant, enabled, policies_) ==
    [tenant |-> tenant, enabled |-> enabled, policies |-> policies_]

AskShell   == MCPolicy("p1", "", 1, {"SHELL"}, "require_approval")
AskFirst   == MCPolicy("p2", "T1", 2, {"shell"}, "require_approval")
DenyOther  == MCPolicy("p3", "t2", 1, {}, "deny")
RecordMail == MCPolicy("p4", "  ", 0, {"mail"}, "record")
RecordAll  == MCPolicy("p6", "", 0, {}, "record")
DenyShell  == MCPolicy("p5", "t1", 0, {"shell"}, "deny")

Drafts ==
    {MCPack("", TRUE, <<AskShell, RecordMail>>), MCPack("T1", TRUE, <<AskFirst, DenyOther>>),
     MCPack("  ", TRUE, <<RecordMail>>), MCPack("t1", FALSE, <<DenyShell>>),
     MCPack("t2", TRUE, <<RecordAll>>)}

MCPackLists ==
    {<<a>> : a \in Drafts} \cup {<<a, b>> : a \in Drafts, b \in Drafts}
        \cup {<<a, b, c>> : a \in Drafts, b \in Drafts, c \in Drafts}

MCOthers ==
    {<<>>, <<MCPack("t1", TRUE, <<DenyShell>>)>>,
     <<MCPack("t1", FALSE, <<DenyShell>>), MCPack("t2", TRUE, <<RecordAll>>)>>}

MCEvents ==
    {[tenant |-> "t1", values |-> [f \in {"tool"} |-> tool], lists |-> <<>>] :
        tool \in {"shell", "mail"}}

================================================================================
