------------------------------- MODULE ApiAccess -------------------------------
(****************************************************************************)
(* Who may do what over HTTP: AGENT_SECURITY_API_KEYS is parsed entry by    *)
(* entry at start (auth.ParseAPIKeys), and every request passes withAuth    *)
(* and the tenant check of its handler before it reaches the stores.        *)
(*                                                                          *)
(* A handler is a function of the request and the stores here: its answer,  *)
(* what it shows and what it leaves in the stores.  The other modules say   *)
(* what its calls do when they are interleaved; keys never change while the *)
(* server runs, so who may do what does not depend on that.                 *)
(*                                                                          *)
(* The check trims the tenant, the stores take it as it was spelled: " t1"  *)
(* has rows of its own, which a key for t1 may reach.  A failing store is   *)
(* left out, and so is a server without one of the stores.                  *)
(****************************************************************************)
EXTENDS Integers, Sequences

CONSTANTS
    Strings,     \* ids, secrets and tenants as they may be written, "" among them
    Trim,        \* string -> it without the space around it
    Star,        \* "*", all tenants
    Unreadable,  \* a body that is no JSON, or query parameters that are not accepted
    Configs,     \* the values of AGENT_SECURITY_API_KEYS, split into entries
    Requests     \* the requests clients may make

\* An entry that does not have three parts between colons is not formed.
Entry == [formed : BOOLEAN, id : Strings, secret : Strings, tenants : Seq(Strings)]

Routes == {"healthz", "evaluate", "audit", "put pack", "list packs", "get pack",
           "patch pack", "simulate", "list approvals", "get approval", "decide"}

\* tenant is the one in the path, or the query's; body the one the body names, in its
\* event or its pack; token is "" without a bearer token.  flag is what else a body may
\* say: that a pack is to be enabled, that an event names an approval.
Request == [route : Routes, token : Strings, tenant : Strings,
            body : Strings \cup {Unreadable}, flag : BOOLEAN]

ASSUME StringAssumption ==
    /\ "" \in Strings /\ Star \in Strings /\ Unreadable \notin Strings
    /\ Trim \in [Strings -> Strings] /\ Trim[""] = "" /\ Trim[Star] = Star
    /\ \A s \in Strings : Trim[Trim[s]] = Trim[s]
    /\ Star # ""
ASSUME InputAssumption ==
    /\ Configs \subseteq Seq(Entry)
    /\ Requests \subseteq Request

VARIABLES
    config,  \* the configuration as written; <<>> when it is blank.  Never changes
    phase,   \* "parsing", "refused" (the process exits) or "serving"
    keys,    \* the keys parsed so far, APIKeyConfig.keys once serving
    rows     \* what the stores hold

vars == <<config, phase, keys, rows>>

--------------------------------------------------------------------------------

Blank(s) == Trim[s] = ""

Key == [id : Strings \ {""}, secret : Strings \ {""},
        tenants : SUBSET (Strings \ {"", Star}), all : BOOLEAN]

\* Every tenant uses the same pack id and the same approval id.  says: a pack is on or
\* off, an approval pending or settled, a record is a record.
Row == [kind : {"pack", "approval", "record"}, tenant : Strings,
        says : {"on", "off", "pending", "settled", "record"}]

Named(entry) == {Trim[entry.tenants[i]] : i \in DOMAIN entry.tenants}

\* parseAPIKey, the entries it accepts.
Acceptable(entry) ==
    /\ entry.formed
    /\ ~Blank(entry.id) /\ ~Blank(entry.secret)
    /\ Named(entry) # {} /\ "" \notin Named(entry)

\* Mutant: "*" is taken for a tenant, too.
KeyOfWithStar(entry) ==
    [id |-> Trim[entry.id], secret |-> Trim[entry.secret],
     tenants |-> Named(entry), all |-> Star \in Named(entry)]

\* parseAPIKey, the key it returns.
KeyOf(entry) ==
    [id |-> Trim[entry.id], secret |-> Trim[entry.secret],
     tenants |-> Named(entry) \ {Star}, all |-> Star \in Named(entry)]

Init ==
    /\ config \in Configs
    /\ phase = "parsing"
    /\ keys = <<>>
    /\ rows = {}

Seen(secret) == \E i \in DOMAIN keys : keys[i].secret = secret

Unparsed == config[Len(keys) + 1]

\* ParseAPIKeys, one round of the loop.
ParseEntry ==
    /\ phase = "parsing" /\ Len(keys) < Len(config)
    /\ Acceptable(Unparsed) /\ ~Seen(Trim[Unparsed.secret])
    /\ keys' = Append(keys, KeyOf(Unparsed))
    /\ UNCHANGED <<config, phase, rows>>

\* One entry that is not accepted, or repeats a secret, and the server does not start.
RefuseEntry ==
    /\ phase = "parsing" /\ Len(keys) < Len(config)
    /\ ~Acceptable(Unparsed) \/ Seen(Trim[Unparsed.secret])
    /\ phase' = "refused"
    /\ UNCHANGED <<config, keys, rows>>

\* Mutant: the server starts with the entries that were accepted before an error.
ListenRegardless ==
    /\ phase \in {"parsing", "refused"}
    /\ phase' = "serving"
    /\ UNCHANGED <<config, keys, rows>>

Listen ==
    /\ phase = "parsing" /\ Len(keys) = Len(config)
    /\ phase' = "serving"
    /\ UNCHANGED <<config, keys, rows>>

--------------------------------------------------------------------------------

Enabled == keys # <<>>

\* Authenticate: the key that has the token for its secret; no two of them do.
Matching(token) == {i \in DOMAIN keys : ~Blank(token) /\ keys[i].secret = Trim[token]}

Authenticated(token) == Matching(token) # {}

AllowsTenant(key, tenant) ==
    ~Blank(tenant) /\ (key.all \/ Trim[tenant] \in key.tenants)

\* authorizeTenant, with the key withAuth left in the context: the first that matches.
AuthorizesTenant(token, tenant) ==
    \/ ~Enabled
    \/ \E i \in Matching(token) : /\ \A j \in Matching(token) : i <= j
                                  /\ AllowsTenant(keys[i], tenant)

Of(kind, tenant, stored) == {row \in stored : row.kind = kind /\ row.tenant = tenant}

Is(kind, tenant, says) == [kind |-> kind, tenant |-> tenant, says |-> says]

Reply(status, shown, stored) == [status |-> status, shown |-> shown, stored |-> stored]
Error(status, stored) == Reply(status, {}, stored)

\* Of the requests a tenant's events file, the first is followed.
Filed(tenant, stored) ==
    IF Of("approval", tenant, stored) = {} THEN {Is("approval", tenant, "pending")} ELSE {}

\* The body is read before the tenant it names can be checked.
Evaluate(q, stored) ==
    LET asking   == {row \in Of("pack", q.body, stored) : row.says = "on"}
        recorded == stored \cup {Is("record", q.body, "record")}
    IN  IF q.body = Unreadable THEN Error(400, stored)
        ELSE IF ~AuthorizesTenant(q.token, q.body) THEN Error(403, stored)
        ELSE IF Blank(q.body) THEN Error(422, stored)
        ELSE IF q.flag THEN Reply(200, Of("approval", q.body, stored), recorded)
        ELSE IF asking = {} THEN Reply(200, {}, recorded)
        ELSE Reply(200, asking, recorded \cup Filed(q.body, stored))

\* Without a tenant the query is for the records of all of them.
ListAuditEvents(q, stored) ==
    IF q.body = Unreadable \/ (Enabled /\ q.tenant = "") THEN Error(400, stored)
    ELSE IF Enabled /\ ~AuthorizesTenant(q.token, q.tenant) THEN Error(403, stored)
    ELSE Reply(200, {row \in stored : row.kind = "record" /\ q.tenant \in {"", row.tenant}},
               stored)

Saved(tenant, enabled, stored) ==
    LET pack == Is("pack", tenant, IF enabled THEN "on" ELSE "off")
    IN  Reply(200, {pack}, (stored \ Of("pack", tenant, stored)) \cup {pack})

\* Mutant: the pack is stored under the tenant its body names.
UpsertPolicyPackOfBody(q, stored) ==
    IF q.body = Unreadable THEN Error(400, stored)
    ELSE Saved(IF q.body = "" THEN q.tenant ELSE q.body, q.flag, stored)

\* The tenant of the path takes the place of the one in the body.
UpsertPolicyPack(q, stored) ==
    IF q.body = Unreadable THEN Error(400, stored) ELSE Saved(q.tenant, q.flag, stored)

ListPolicyPacks(q, stored) == Reply(200, Of("pack", q.tenant, stored), stored)

GetPolicyPack(q, stored) ==
    IF Of("pack", q.tenant, stored) = {} THEN Error(404, stored)
    ELSE Reply(200, Of("pack", q.tenant, stored), stored)

SetPolicyPackEnabled(q, stored) ==
    IF q.body = Unreadable THEN Error(400, stored)
    ELSE IF Of("pack", q.tenant, stored) = {} THEN Error(404, stored)
    ELSE Saved(q.tenant, q.flag, stored)

\* The event's tenant must be spelled as in the path; nothing is read from the stores.
SimulatePolicyPack(q, stored) ==
    IF q.body = Unreadable THEN Error(400, stored)
    ELSE IF q.body # q.tenant THEN Error(403, stored)
    ELSE IF Blank(q.body) THEN Error(422, stored)
    ELSE Reply(200, {}, stored)

ListApprovals(q, stored) == Reply(200, Of("approval", q.tenant, stored), stored)

GetApproval(q, stored) ==
    IF Of("approval", q.tenant, stored) = {} THEN Error(404, stored)
    ELSE Reply(200, Of("approval", q.tenant, stored), stored)

DecideApproval(q, stored) ==
    LET found   == Of("approval", q.tenant, stored)
        settled == Is("approval", q.tenant, "settled")
    IN  IF q.body = Unreadable THEN Error(400, stored)
        ELSE IF found = {} THEN Error(404, stored)
        ELSE IF settled \in found THEN Error(409, stored)
        ELSE Reply(200, {settled}, (stored \ found) \cup {settled})

\* The handlers of a tenant's resources, once the tenant of the path is authorised.
Perform(q, stored) ==
    CASE q.route = "put pack"       -> UpsertPolicyPack(q, stored)
      [] q.route = "list packs"     -> ListPolicyPacks(q, stored)
      [] q.route = "get pack"       -> GetPolicyPack(q, stored)
      [] q.route = "patch pack"     -> SetPolicyPackEnabled(q, stored)
      [] q.route = "simulate"       -> SimulatePolicyPack(q, stored)
      [] q.route = "list approvals" -> ListApprovals(q, stored)
      [] q.route = "get approval"   -> GetApproval(q, stored)
      [] q.route = "decide"         -> DecideApproval(q, stored)

\* Mutant: the resource is looked for before the tenant is checked.
HandleFoundFirst(q, stored) ==
    LET done == Perform(q, stored)
    IN  IF done.status = 404 \/ AuthorizesTenant(q.token, q.tenant) THEN done
        ELSE Error(403, stored)

Handle(q, stored) ==
    IF AuthorizesTenant(q.token, q.tenant) THEN Perform(q, stored) ELSE Error(403, stored)

\* withAuth around the router.
Answer(q, stored) ==
    IF q.route = "healthz" THEN Reply(200, {}, stored)
    ELSE IF Enabled /\ ~Authenticated(q.token) THEN Error(401, stored)
    ELSE CASE q.route = "evaluate" -> Evaluate(q, stored)
           [] q.route = "audit"    -> ListAuditEvents(q, stored)
           [] OTHER                -> Handle(q, stored)

Serve(q) ==
    /\ phase = "serving"
    /\ rows' = Answer(q, rows).stored
    /\ UNCHANGED <<config, phase, keys>>

Next == ParseEntry \/ RefuseEntry \/ Listen \/ \E q \in Requests : Serve(q)

Spec == Init /\ [][Next]_vars

--------------------------------------------------------------------------------

\* Every variable keeps its type, and keys are those of the first entries.
TypeOK ==
    /\ config \in Configs /\ phase \in {"parsing", "refused", "serving"}
    /\ keys \in Seq(Key) /\ Len(keys) <= Len(config)
    /\ rows \subseteq Row

\* What the configuration, read as a whole, grants to the bearer of a token: everything
\* if it is blank, else the tenants some entry with that secret names.
Grants(token, tenant) ==
    \/ config = <<>>
    \/ /\ ~Blank(token) /\ ~Blank(tenant)
       /\ \E i \in DOMAIN config :
             /\ Trim[config[i].secret] = Trim[token]
             /\ Star \in Named(config[i]) \/ Trim[tenant] \in Named(config[i])

\* A server that serves has taken every entry of its configuration: it never serves
\* without authentication because entries were wrong, and no entry hides another's
\* tenants behind the same secret (apikey.go:41-62, server/main.go:39-43).
ServesWhatIsConfigured ==
    phase = "serving" =>
        \A q \in Requests : AuthorizesTenant(q.token, q.tenant) <=> Grants(q.token, q.tenant)

Mine(token) == {row \in rows : Grants(token, row.tenant)}

\* No request shows, adds, changes or removes a row of a tenant its token was not granted,
\* whatever tenant its body names (handler.go:99-101, 128-136, 167-177, 269-272).
TenantsAreSeparate ==
    phase = "serving" =>
        \A q \in Requests :
            LET done == Answer(q, rows)
            IN  \A row \in done.shown \cup (done.stored \ rows) \cup (rows \ done.stored) :
                    Grants(q.token, row.tenant)

\* What a request is answered, refusals included, and what it does depend on nothing
\* but the rows of the tenants its token was granted: whether another tenant has a pack
\* or an approval cannot be told (handler.go:164-169, 302-320, 327-329).
AnswersIgnoreOthers ==
    phase = "serving" =>
        \A q \in Requests :
            LET done  == Answer(q, rows)
                alone == Answer(q, Mine(q.token))
            IN  /\ done.status = alone.status /\ done.shown = alone.shown
                /\ done.stored = alone.stored \cup (rows \ Mine(q.token))

================================================================================
