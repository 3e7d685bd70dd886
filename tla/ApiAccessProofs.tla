---------------------------- MODULE ApiAccessProofs ----------------------------
(****************************************************************************)
(* Theorems about ApiAccess: for every configuration, every set of tenants  *)
(* and tokens and every request, the server grants what its configuration   *)
(* says, and no request reaches or learns of a tenant that was not granted. *)
(****************************************************************************)
EXTENDS ApiAccess, TLAPS

--------------------------------------------------------------------------------
(* The inductive invariant                                                    *)

\* The keys are those of the first entries, all of them accepted.
KeysAreParsed ==
    \A i \in DOMAIN keys :
        /\ i \in DOMAIN config /\ Acceptable(config[i])
        /\ keys[i] = KeyOf(config[i])

SecretsDiffer ==
    \A i, j \in DOMAIN keys : keys[i].secret = keys[j].secret => i = j

AllParsed == phase = "serving" => Len(keys) = Len(config)

Safe == TypeOK /\ KeysAreParsed /\ SecretsDiffer /\ AllParsed

--------------------------------------------------------------------------------
(* Parsing                                                                    *)

LEMMA KeyOfType ==
    ASSUME NEW entry \in Entry, Acceptable(entry)
    PROVE  KeyOf(entry) \in Key
<1>1. /\ Trim[entry.id] \in Strings \ {""} /\ Trim[entry.secret] \in Strings \ {""}
  BY StringAssumption DEF Entry, Acceptable, Blank
<1>2. Named(entry) \subseteq Strings
  <2>1. entry.tenants \in Seq(Strings)
    BY DEF Entry
  <2>2. \A i \in DOMAIN entry.tenants : entry.tenants[i] \in Strings
    BY <2>1
  <2> QED BY <2>2, StringAssumption DEF Named
<1>3. Named(entry) \ {Star} \subseteq Strings \ {"", Star}
  BY <1>2 DEF Acceptable
<1>4. Named(entry) \ {Star} \in SUBSET (Strings \ {"", Star})
  BY <1>3
<1>5. (Star \in Named(entry)) \in BOOLEAN
  OBVIOUS
<1> QED BY <1>1, <1>4, <1>5, Zenon DEF KeyOf, Key

LEMMA SafeInit == Init => Safe
<1> SUFFICES ASSUME Init PROVE Safe
  OBVIOUS
<1>1. config \in Configs /\ keys = <<>> /\ phase = "parsing" /\ rows = {}
  BY DEF Init
<1>2. Len(config) \in Nat
  BY <1>1, InputAssumption
<1> QED BY <1>1, <1>2 DEF Safe, TypeOK, KeysAreParsed, SecretsDiffer, AllParsed

\* One more entry is taken.
LEMMA ParseEntryStep ==
    ASSUME Safe, ParseEntry
    PROVE  Safe'
<1>1. /\ config \in Seq(Entry) /\ keys \in Seq(Key) /\ Len(keys) \in Nat
      /\ Len(config) \in Nat /\ Len(keys) < Len(config)
  BY InputAssumption DEF Safe, TypeOK, ParseEntry
<1> DEFINE n == Len(keys) + 1
<1>2. n \in DOMAIN config /\ Unparsed = config[n] /\ Unparsed \in Entry
  BY <1>1 DEF Unparsed
<1>3. Acceptable(Unparsed) /\ KeyOf(Unparsed) \in Key
  BY <1>2, KeyOfType DEF ParseEntry
<1>4. /\ keys' = Append(keys, KeyOf(Unparsed)) /\ keys' \in Seq(Key) /\ Len(keys') = n
      /\ DOMAIN keys' = 1..n /\ DOMAIN keys = 1..Len(keys)
      /\ keys'[n] = KeyOf(Unparsed) /\ \A i \in DOMAIN keys : keys'[i] = keys[i]
  <2> DEFINE k == KeyOf(Unparsed)
  <2>1. keys' = Append(keys, k) /\ k \in Key
    BY <1>3 DEF ParseEntry
  <2> HIDE DEF k
  <2>2. keys' \in Seq(Key) /\ Len(keys') = n
    BY <1>1, <2>1
  <2>3. DOMAIN keys' = 1..n /\ DOMAIN keys = 1..Len(keys)
    BY <1>1, <2>2
  <2>4. keys'[n] = k /\ \A i \in 1..Len(keys) : keys'[i] = keys[i]
    BY <1>1, <2>1
  <2> QED BY <2>1, <2>2, <2>3, <2>4 DEF k
<1>5. 1..n = DOMAIN keys \cup {n}
  BY <1>1, <1>4
<1>6. TypeOK'
  BY <1>1, <1>4 DEF Safe, TypeOK, ParseEntry
<1>7. KeysAreParsed'
  <2>1. \A i \in DOMAIN keys' : /\ i \in DOMAIN config /\ Acceptable(config[i])
                                /\ keys'[i] = KeyOf(config[i])
    BY <1>2, <1>3, <1>4, <1>5 DEF Safe, KeysAreParsed
  <2>2. config' = config
    BY DEF ParseEntry
  <2> QED BY <2>1, <2>2 DEF KeysAreParsed
<1>8. KeyOf(Unparsed).secret = Trim[Unparsed.secret]
  BY DEF KeyOf
<1>9. SecretsDiffer'
  BY <1>4, <1>5, <1>8 DEF Safe, SecretsDiffer, ParseEntry, Seen
<1>10. AllParsed'
  BY DEF ParseEntry, AllParsed
<1> QED BY <1>6, <1>7, <1>9, <1>10 DEF Safe

--------------------------------------------------------------------------------
(* What a handler does to the rows of one tenant                              *)

\* With all rows or with a part of them that has every row of tenant t, the answer is the
\* same, and only rows of t are shown or touched.
Confined(done, alone, all, own, t) ==
    /\ done.stored \subseteq Row /\ done.shown \subseteq Row
    /\ \A row \in done.shown \cup (done.stored \ all) \cup (all \ done.stored) : row.tenant = t
    /\ done.status = alone.status /\ done.shown = alone.shown
    /\ done.stored = alone.stored \cup (all \ own)

Whole(own, all, t) == own \subseteq all /\ \A row \in all : row.tenant = t => row \in own

LEMMA IsRow ==
    ASSUME NEW t \in Strings, NEW kind \in {"pack", "approval", "record"},
           NEW says \in {"on", "off", "pending", "settled", "record"}
    PROVE  /\ Is(kind, t, says) \in Row /\ Is(kind, t, says).tenant = t
           /\ Is(kind, t, says).kind = kind /\ Is(kind, t, says).says = says
  BY DEF Is, Row

LEMMA OfWhole ==
    ASSUME NEW t, NEW kind, NEW all \in SUBSET Row, NEW own, Whole(own, all, t)
    PROVE  /\ Of(kind, t, own) = Of(kind, t, all) /\ Of(kind, t, all) \subseteq Row
           /\ \A row \in Of(kind, t, all) : row.tenant = t /\ row \in own
  BY DEF Of, Whole

\* An answer that writes nothing.
LEMMA ReplyConfined ==
    ASSUME NEW t, NEW all \in SUBSET Row, NEW own, Whole(own, all, t),
           NEW status, NEW shown \in SUBSET Row, \A row \in shown : row.tenant = t
    PROVE  Confined(Reply(status, shown, all), Reply(status, shown, own), all, own, t)
<1> DEFINE done == Reply(status, shown, all)
           alone == Reply(status, shown, own)
<1>1. /\ done.status = status /\ done.shown = shown /\ done.stored = all
      /\ alone.status = status /\ alone.shown = shown /\ alone.stored = own
  BY DEF Reply
<1> HIDE DEF done, alone
<1>2. Confined(done, alone, all, own, t)
  BY <1>1 DEF Confined, Whole
<1> QED BY <1>2 DEF done, alone

LEMMA ErrorConfined ==
    ASSUME NEW t, NEW all \in SUBSET Row, NEW own, Whole(own, all, t), NEW status
    PROVE  Confined(Error(status, all), Error(status, own), all, own, t)
  BY ReplyConfined DEF Error

\* An answer that puts one row of t in the place of others.
LEMMA ReplaceConfined ==
    ASSUME NEW t, NEW all \in SUBSET Row, NEW own, Whole(own, all, t),
           NEW status, NEW shown \in SUBSET Row, \A row \in shown : row.tenant = t,
           NEW old \in SUBSET Row, \A row \in old : row.tenant = t,
           NEW new \in SUBSET Row, \A row \in new : row.tenant = t
    PROVE  Confined(Reply(status, shown, (all \ old) \cup new),
                    Reply(status, shown, (own \ old) \cup new), all, own, t)
<1> DEFINE done == Reply(status, shown, (all \ old) \cup new)
           alone == Reply(status, shown, (own \ old) \cup new)
<1>1. /\ done.status = status /\ done.shown = shown /\ done.stored = (all \ old) \cup new
      /\ alone.status = status /\ alone.shown = shown /\ alone.stored = (own \ old) \cup new
  BY DEF Reply
<1> HIDE DEF done, alone
<1>2. Confined(done, alone, all, own, t)
  BY <1>1 DEF Confined, Whole
<1> QED BY <1>2 DEF done, alone

LEMMA SavedConfined ==
    ASSUME NEW t \in Strings, NEW all \in SUBSET Row, NEW own, Whole(own, all, t),
           NEW enabled \in BOOLEAN
    PROVE  Confined(Saved(t, enabled, all), Saved(t, enabled, own), all, own, t)
<1> DEFINE pack == Is("pack", t, IF enabled THEN "on" ELSE "off")
           old == Of("pack", t, all)
<1>1. {pack} \in SUBSET Row /\ \A row \in {pack} : row.tenant = t
  BY IsRow
<1>2. old \subseteq Row /\ (\A row \in old : row.tenant = t) /\ Of("pack", t, own) = old
  BY OfWhole
<1>3. /\ Saved(t, enabled, all) = Reply(200, {pack}, (all \ old) \cup {pack})
      /\ Saved(t, enabled, own) = Reply(200, {pack}, (own \ old) \cup {pack})
  BY <1>2 DEF Saved
<1> HIDE DEF pack, old
<1>4. Confined(Reply(200, {pack}, (all \ old) \cup {pack}),
               Reply(200, {pack}, (own \ old) \cup {pack}), all, own, t)
  BY <1>1, <1>2, ReplaceConfined
<1> QED BY <1>3, <1>4

LEMMA UpsertConfined ==
    ASSUME NEW q \in Request, NEW all \in SUBSET Row, NEW own, Whole(own, all, q.tenant)
    PROVE  Confined(UpsertPolicyPack(q, all), UpsertPolicyPack(q, own), all, own, q.tenant)
  BY ErrorConfined, SavedConfined DEF UpsertPolicyPack, Request

LEMMA ListPacksConfined ==
    ASSUME NEW q \in Request, NEW all \in SUBSET Row, NEW own, Whole(own, all, q.tenant)
    PROVE  Confined(ListPolicyPacks(q, all), ListPolicyPacks(q, own), all, own, q.tenant)
  BY OfWhole, ReplyConfined DEF ListPolicyPacks

LEMMA GetPackConfined ==
    ASSUME NEW q \in Request, NEW all \in SUBSET Row, NEW own, Whole(own, all, q.tenant)
    PROVE  Confined(GetPolicyPack(q, all), GetPolicyPack(q, own), all, own, q.tenant)
  BY OfWhole, ReplyConfined, ErrorConfined DEF GetPolicyPack

LEMMA SetEnabledConfined ==
    ASSUME NEW q \in Request, NEW all \in SUBSET Row, NEW own, Whole(own, all, q.tenant)
    PROVE  Confined(SetPolicyPackEnabled(q, all), SetPolicyPackEnabled(q, own), all, own,
                    q.tenant)
  BY OfWhole, ErrorConfined, SavedConfined DEF SetPolicyPackEnabled, Request

LEMMA SimulateConfined ==
    ASSUME NEW q \in Request, NEW all \in SUBSET Row, NEW own, Whole(own, all, q.tenant)
    PROVE  Confined(SimulatePolicyPack(q, all), SimulatePolicyPack(q, own), all, own, q.tenant)
<1>1. Confined(Reply(200, {}, all), Reply(200, {}, own), all, own, q.tenant)
  BY ReplyConfined
<1> QED BY <1>1, ErrorConfined DEF SimulatePolicyPack

LEMMA ListApprovalsConfined ==
    ASSUME NEW q \in Request, NEW all \in SUBSET Row, NEW own, Whole(own, all, q.tenant)
    PROVE  Confined(ListApprovals(q, all), ListApprovals(q, own), all, own, q.tenant)
  BY OfWhole, ReplyConfined DEF ListApprovals

LEMMA GetApprovalConfined ==
    ASSUME NEW q \in Request, NEW all \in SUBSET Row, NEW own, Whole(own, all, q.tenant)
    PROVE  Confined(GetApproval(q, all), GetApproval(q, own), all, own, q.tenant)
  BY OfWhole, ReplyConfined, ErrorConfined DEF GetApproval

LEMMA DecideConfined ==
    ASSUME NEW q \in Request, NEW all \in SUBSET Row, NEW own, Whole(own, all, q.tenant)
    PROVE  Confined(DecideApproval(q, all), DecideApproval(q, own), all, own, q.tenant)
<1> DEFINE found == Of("approval", q.tenant, all)
           settled == Is("approval", q.tenant, "settled")
<1>1. {settled} \in SUBSET Row /\ \A row \in {settled} : row.tenant = q.tenant
  BY IsRow DEF Request
<1>2. /\ found \subseteq Row /\ (\A row \in found : row.tenant = q.tenant)
      /\ Of("approval", q.tenant, own) = found
  BY OfWhole
<1> HIDE DEF settled, found
<1>3. Confined(Reply(200, {settled}, (all \ found) \cup {settled}),
               Reply(200, {settled}, (own \ found) \cup {settled}), all, own, q.tenant)
  BY <1>1, <1>2, ReplaceConfined
<1> QED BY <1>2, <1>3, ErrorConfined DEF DecideApproval, found, settled

LEMMA EvaluateConfined ==
    ASSUME NEW q \in Request, q.body \in Strings, NEW all \in SUBSET Row, NEW own,
           Whole(own, all, q.body)
    PROVE  Confined(Evaluate(q, all), Evaluate(q, own), all, own, q.body)
<1> DEFINE t == q.body
           record == Is("record", t, "record")
           found == Of("approval", t, all)
           asking == {row \in Of("pack", t, all) : row.says = "on"}
           filed == Filed(t, all)
<1>1. record \in Row /\ record.tenant = t
  BY IsRow
<1>2. /\ found \subseteq Row /\ (\A row \in found : row.tenant = t)
      /\ Of("approval", t, own) = found
  BY OfWhole
<1>3. /\ asking \subseteq Row /\ (\A row \in asking : row.tenant = t)
      /\ asking = {row \in Of("pack", t, own) : row.says = "on"}
  BY OfWhole
<1>4. /\ filed \subseteq Row /\ (\A row \in filed : row.tenant = t)
      /\ Filed(t, own) = filed
  BY <1>2, IsRow DEF Filed
<1> HIDE DEF record, found, asking, filed
<1>5. ASSUME NEW shown \in SUBSET Row, \A row \in shown : row.tenant = t,
             NEW more \in SUBSET Row, \A row \in more : row.tenant = t
      PROVE  Confined(Reply(200, shown, (all \cup {record}) \cup more),
                      Reply(200, shown, (own \cup {record}) \cup more), all, own, t)
  <2>1. /\ (all \ {}) \cup ({record} \cup more) = (all \cup {record}) \cup more
        /\ (own \ {}) \cup ({record} \cup more) = (own \cup {record}) \cup more
    OBVIOUS
  <2>2. ({record} \cup more) \in SUBSET Row /\ \A row \in {record} \cup more : row.tenant = t
    BY <1>1, <1>5
  <2>3. Confined(Reply(200, shown, (all \ {}) \cup ({record} \cup more)),
                 Reply(200, shown, (own \ {}) \cup ({record} \cup more)), all, own, t)
    BY <1>5, <2>2, ReplaceConfined
  <2> QED BY <2>1, <2>3
<1>6. /\ Confined(Reply(200, found, all \cup {record}), Reply(200, found, own \cup {record}),
                  all, own, t)
      /\ Confined(Reply(200, {}, all \cup {record}), Reply(200, {}, own \cup {record}),
                  all, own, t)
  <2>1. /\ (all \cup {record}) \cup {} = all \cup {record}
        /\ (own \cup {record}) \cup {} = own \cup {record}
    OBVIOUS
  <2>2. Confined(Reply(200, found, (all \cup {record}) \cup {}),
                 Reply(200, found, (own \cup {record}) \cup {}), all, own, t)
    BY <1>2, <1>5
  <2>3. Confined(Reply(200, {}, (all \cup {record}) \cup {}),
                 Reply(200, {}, (own \cup {record}) \cup {}), all, own, t)
    BY <1>5
  <2> QED BY <2>1, <2>2, <2>3
<1>7. Confined(Reply(200, asking, (all \cup {record}) \cup filed),
               Reply(200, asking, (own \cup {record}) \cup filed), all, own, t)
  BY <1>3, <1>4, <1>5
<1>8. q.body # Unreadable
  BY StringAssumption
<1>9. ASSUME NEW stored, stored \in {all, own}
      PROVE  Evaluate(q, stored) =
                IF ~AuthorizesTenant(q.token, t) THEN Error(403, stored)
                ELSE IF Blank(t) THEN Error(422, stored)
                ELSE IF q.flag THEN Reply(200, found, stored \cup {record})
                ELSE IF asking = {} THEN Reply(200, {}, stored \cup {record})
                ELSE Reply(200, asking, (stored \cup {record}) \cup filed)
  <2>1. /\ Of("approval", t, stored) = found /\ Filed(t, stored) = filed
        /\ {row \in Of("pack", t, stored) : row.says = "on"} = asking
    BY <1>2, <1>3, <1>4, <1>9 DEF found, asking, filed
  <2> QED BY <1>8, <2>1 DEF Evaluate, record
<1>10. Confined(Error(403, all), Error(403, own), all, own, t)
       /\ Confined(Error(422, all), Error(422, own), all, own, t)
  BY ErrorConfined
<1> QED BY <1>6, <1>7, <1>9, <1>10

--------------------------------------------------------------------------------
(* What a key grants                                                          *)

\* The key a token selects grants what the configuration says.
LEMMA KeysGrant ==
    ASSUME Safe, phase = "serving", NEW token \in Strings, NEW tenant \in Strings
    PROVE  AuthorizesTenant(token, tenant) <=> Grants(token, tenant)
<1>1. /\ config \in Seq(Entry) /\ keys \in Seq(Key) /\ Len(keys) = Len(config)
      /\ DOMAIN keys = DOMAIN config
  BY InputAssumption DEF Safe, TypeOK, AllParsed
<1>2. Enabled <=> config # <<>>
  BY <1>1 DEF Enabled
<1>3. ASSUME NEW i \in DOMAIN keys
      PROVE  /\ keys[i].secret = Trim[config[i].secret]
             /\ keys[i].all = (Star \in Named(config[i]))
             /\ keys[i].tenants = Named(config[i]) \ {Star}
  <2>1. keys[i] = KeyOf(config[i])
    BY <1>3 DEF Safe, KeysAreParsed
  <2>2. /\ KeyOf(config[i]).secret = Trim[config[i].secret]
        /\ KeyOf(config[i]).all = (Star \in Named(config[i]))
        /\ KeyOf(config[i]).tenants = Named(config[i]) \ {Star}
    BY Zenon DEF KeyOf
  <2> QED BY <2>1, <2>2, Zenon
<1>4. ASSUME NEW i \in DOMAIN keys
      PROVE  AllowsTenant(keys[i], tenant) <=>
                ~Blank(tenant) /\ (Star \in Named(config[i]) \/ Trim[tenant] \in Named(config[i]))
  BY <1>3, <1>4 DEF AllowsTenant
<1>5. \A i, j \in Matching(token) : i = j
  BY DEF Safe, SecretsDiffer, Matching
<1>6. AuthorizesTenant(token, tenant) <=>
         ~Enabled \/ \E i \in Matching(token) : AllowsTenant(keys[i], tenant)
  <2>1. \A i \in Matching(token) : \A j \in Matching(token) : i <= j
    BY <1>1, <1>5 DEF Matching
  <2> QED BY <2>1 DEF AuthorizesTenant
<1> QED BY <1>1, <1>2, <1>3, <1>4, <1>6 DEF Grants, Matching

\* Rows of a granted tenant are all in the token's part of the stores.
LEMMA MineWhole ==
    ASSUME NEW token, NEW t, Grants(token, t)
    PROVE  Whole(Mine(token), rows, t)
  BY DEF Whole, Mine

\* A request with the answer it gets, and the one it would get if there were no rows but
\* those it was granted.
Apart(q) ==
    LET done  == Answer(q, rows)
        alone == Answer(q, Mine(q.token))
    IN  /\ done.stored \subseteq Row
        /\ \A row \in done.shown \cup (done.stored \ rows) \cup (rows \ done.stored) :
              Grants(q.token, row.tenant)
        /\ done.status = alone.status /\ done.shown = alone.shown
        /\ done.stored = alone.stored \cup (rows \ Mine(q.token))

LEMMA ConfinedApart ==
    ASSUME NEW q, NEW t, Grants(q.token, t),
           Confined(Answer(q, rows), Answer(q, Mine(q.token)), rows, Mine(q.token), t)
    PROVE  Apart(q)
  BY DEF Apart, Confined

\* An answer that shows and writes nothing.
LEMMA SilentApart ==
    ASSUME NEW q, rows \subseteq Row, NEW status,
           Answer(q, rows) = Reply(status, {}, rows),
           Answer(q, Mine(q.token)) = Reply(status, {}, Mine(q.token))
    PROVE  Apart(q)
<1>1. rows = Mine(q.token) \cup (rows \ Mine(q.token))
  BY DEF Mine
<1> QED BY <1>1 DEF Apart, Reply

LEMMA PerformConfined ==
    ASSUME NEW q \in Request, NEW all \in SUBSET Row, NEW own, Whole(own, all, q.tenant),
           q.route \notin {"healthz", "evaluate", "audit"}
    PROVE  Confined(Perform(q, all), Perform(q, own), all, own, q.tenant)
<1>1. q.route \in Routes
  BY DEF Request
<1> QED BY <1>1, UpsertConfined, ListPacksConfined, GetPackConfined, SetEnabledConfined,
           SimulateConfined, ListApprovalsConfined, GetApprovalConfined, DecideConfined
        DEF Perform, Routes

LEMMA AuditApart ==
    ASSUME Safe, phase = "serving", NEW q \in Request, q.route = "audit",
           ~Enabled \/ Authenticated(q.token)
    PROVE  Apart(q)
<1> DEFINE shown(stored) ==
        {row \in stored : row.kind = "record" /\ q.tenant \in {"", row.tenant}}
<1>1. rows \subseteq Row /\ q.token \in Strings /\ q.tenant \in Strings
  BY DEF Safe, TypeOK, Request
<1>2. Answer(q, rows) = ListAuditEvents(q, rows)
      /\ Answer(q, Mine(q.token)) = ListAuditEvents(q, Mine(q.token))
  BY DEF Answer
<1>3. CASE q.body = Unreadable \/ (Enabled /\ q.tenant = "")
  BY <1>1, <1>2, <1>3, SilentApart DEF ListAuditEvents, Error
<1>4. CASE /\ ~(q.body = Unreadable \/ (Enabled /\ q.tenant = ""))
           /\ Enabled /\ ~AuthorizesTenant(q.token, q.tenant)
  BY <1>1, <1>2, <1>4, SilentApart DEF ListAuditEvents, Error
<1>5. CASE /\ q.body # Unreadable /\ (Enabled => q.tenant # "")
           /\ Enabled => AuthorizesTenant(q.token, q.tenant)
  <2>1. \A row \in shown(rows) : Grants(q.token, row.tenant)
    <3>1. CASE Enabled
      <4>1. Grants(q.token, q.tenant)
        BY <1>1, <1>5, <3>1, KeysGrant
      <4>2. \A row \in shown(rows) : row.tenant = q.tenant
        BY <1>5, <3>1
      <4> QED BY <4>1, <4>2
    <3>2. CASE ~Enabled
      <4>1. ASSUME NEW row \in rows PROVE AuthorizesTenant(q.token, row.tenant)
        BY <3>2 DEF AuthorizesTenant
      <4>2. ASSUME NEW row \in rows PROVE row.tenant \in Strings
        BY <1>1 DEF Row
      <4> QED BY <1>1, <4>1, <4>2, KeysGrant
    <3> QED BY <3>1, <3>2
  <2>2. shown(rows) = shown(Mine(q.token))
    BY <2>1 DEF Mine
  <2>3. /\ Answer(q, rows) = Reply(200, shown(rows), rows)
        /\ Answer(q, Mine(q.token)) = Reply(200, shown(rows), Mine(q.token))
    BY <1>2, <1>5, <2>2 DEF ListAuditEvents
  <2>4. rows = Mine(q.token) \cup (rows \ Mine(q.token))
    BY DEF Mine
  <2> HIDE DEF shown
  <2>5. /\ Answer(q, rows).shown = shown(rows) /\ Answer(q, rows).stored = rows
        /\ Answer(q, rows).status = 200
        /\ Answer(q, Mine(q.token)).shown = shown(rows)
        /\ Answer(q, Mine(q.token)).stored = Mine(q.token)
        /\ Answer(q, Mine(q.token)).status = 200
    BY <2>3 DEF Reply
  <2> QED BY <1>1, <2>1, <2>4, <2>5 DEF Apart
<1> QED BY <1>3, <1>4, <1>5

LEMMA EveryRequestApart ==
    ASSUME Safe, phase = "serving", NEW q \in Requests
    PROVE  Apart(q)
<1>1. /\ q \in Request /\ q.token \in Strings /\ q.tenant \in Strings
      /\ q.body \in Strings \cup {Unreadable} /\ rows \in SUBSET Row
  BY InputAssumption DEF Safe, TypeOK, Request
<1>2. CASE q.route = "healthz"
  BY <1>1, <1>2, SilentApart DEF Answer
<1>3. CASE q.route # "healthz" /\ Enabled /\ ~Authenticated(q.token)
  BY <1>1, <1>3, SilentApart DEF Answer, Error
<1>4. CASE q.route = "audit" /\ (~Enabled \/ Authenticated(q.token))
  BY <1>1, <1>4, AuditApart
<1>5. CASE q.route = "evaluate" /\ (~Enabled \/ Authenticated(q.token))
  <2>1. /\ Answer(q, rows) = Evaluate(q, rows)
        /\ Answer(q, Mine(q.token)) = Evaluate(q, Mine(q.token))
    BY <1>5 DEF Answer
  <2>2. CASE q.body = Unreadable
    BY <1>1, <2>1, <2>2, SilentApart DEF Evaluate, Error
  <2>3. CASE q.body # Unreadable /\ ~AuthorizesTenant(q.token, q.body)
    BY <1>1, <2>1, <2>3, SilentApart DEF Evaluate, Error
  <2>4. CASE q.body \in Strings /\ AuthorizesTenant(q.token, q.body)
    <3>1. Grants(q.token, q.body)
      BY <1>1, <2>4, KeysGrant
    <3>2. Confined(Evaluate(q, rows), Evaluate(q, Mine(q.token)), rows, Mine(q.token), q.body)
      BY <1>1, <2>4, <3>1, MineWhole, EvaluateConfined
    <3> QED BY <2>1, <3>1, <3>2, ConfinedApart
  <2> QED BY <1>1, <2>2, <2>3, <2>4
<1>6. CASE /\ q.route \notin {"healthz", "audit", "evaluate"}
           /\ ~Enabled \/ Authenticated(q.token)
  <2>1. /\ Answer(q, rows) = Handle(q, rows)
        /\ Answer(q, Mine(q.token)) = Handle(q, Mine(q.token))
    BY <1>6 DEF Answer
  <2>2. CASE ~AuthorizesTenant(q.token, q.tenant)
    BY <1>1, <2>1, <2>2, SilentApart DEF Handle, Error
  <2>3. CASE AuthorizesTenant(q.token, q.tenant)
    <3>1. Grants(q.token, q.tenant)
      BY <1>1, <2>3, KeysGrant
    <3>2. Confined(Perform(q, rows), Perform(q, Mine(q.token)), rows, Mine(q.token), q.tenant)
      BY <1>1, <1>6, <3>1, MineWhole, PerformConfined
    <3> QED BY <2>1, <2>3, <3>1, <3>2, ConfinedApart DEF Handle
  <2> QED BY <2>2, <2>3
<1> QED BY <1>2, <1>3, <1>4, <1>5, <1>6

--------------------------------------------------------------------------------
(* The invariant, and what follows from it                                    *)

LEMMA SafeStep == Safe /\ [Next]_vars => Safe'
<1> SUFFICES ASSUME Safe, [Next]_vars PROVE Safe'
  OBVIOUS
<1>1. CASE ParseEntry
  BY <1>1, ParseEntryStep
<1>2. CASE RefuseEntry \/ Listen
  BY <1>2 DEF RefuseEntry, Listen, Safe, TypeOK, KeysAreParsed, SecretsDiffer, AllParsed
<1>3. ASSUME NEW q \in Requests, Serve(q) PROVE Safe'
  <2>1. rows' \subseteq Row
    BY <1>3, EveryRequestApart DEF Serve, Apart
  <2> QED BY <1>3, <2>1 DEF Serve, Safe, TypeOK, KeysAreParsed, SecretsDiffer, AllParsed
<1>4. CASE UNCHANGED vars
  BY <1>4 DEF vars, Safe, TypeOK, KeysAreParsed, SecretsDiffer, AllParsed
<1> QED BY <1>1, <1>2, <1>3, <1>4 DEF Next

\* The inductive invariant holds in every behaviour, whatever is configured and asked.
THEOREM AlwaysSafe == Spec => []Safe
<1>1. Init => Safe
  BY SafeInit
<1>2. Safe /\ [Next]_vars => Safe'
  BY SafeStep
<1> QED BY <1>1, <1>2, PTL DEF Spec

\* Every variable keeps its type, and no more keys are in force than there are entries.
THEOREM TypeCorrect == Spec => []TypeOK
<1>1. Safe => TypeOK
  BY DEF Safe
<1> QED BY <1>1, AlwaysSafe, PTL

\* The keys in force grant what the configuration says, no more and no less.
THEOREM AlwaysServesConfigured == Spec => []ServesWhatIsConfigured
<1>1. Safe => ServesWhatIsConfigured
  <2> SUFFICES ASSUME Safe, phase = "serving", NEW q \in Requests
               PROVE  AuthorizesTenant(q.token, q.tenant) <=> Grants(q.token, q.tenant)
    BY DEF ServesWhatIsConfigured
  <2>1. q.token \in Strings /\ q.tenant \in Strings
    BY InputAssumption DEF Request
  <2> QED BY <2>1, KeysGrant
<1> QED BY <1>1, AlwaysSafe, PTL

\* No request shows or touches a row of a tenant that its token was not granted.
THEOREM TenantsAlwaysSeparate == Spec => []TenantsAreSeparate
<1>1. Safe => TenantsAreSeparate
  BY EveryRequestApart DEF TenantsAreSeparate, Apart
<1> QED BY <1>1, AlwaysSafe, PTL

\* No answer tells anything of a tenant that the token was not granted.
THEOREM AnswersAlwaysIgnoreOthers == Spec => []AnswersIgnoreOthers
<1>1. Safe => AnswersIgnoreOthers
  BY EveryRequestApart DEF AnswersIgnoreOthers, Apart
<1> QED BY <1>1, AlwaysSafe, PTL

================================================================================
