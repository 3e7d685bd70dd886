------------------------------ MODULE PolicyEngine ------------------------------
(****************************************************************************)
(* policy.Engine: packs are flattened into one list of policies, and one    *)
(* pass over the list keeps the best result so far.  The packs arrive in    *)
(* the order the store lists them, which for the memory store is arbitrary. *)
(* The Go code is sequential; the loop is a state machine here so that what *)
(* it has established after each iteration can be stated and proved.        *)
(*                                                                          *)
(* A string is a value with a canonical form: Fold[s] is s trimmed and      *)
(* case-folded, so strings.EqualFold of two trimmed strings compares Folds. *)
(****************************************************************************)
EXTENDS Integers, Sequences

CONSTANTS
    Strings,        \* the strings of events and policies, "" among them
    Fold,           \* string -> its canonical form
    Covers,         \* pairs <<pattern, resource>>: the trimmed pattern occurs in
                    \* the resource, or equals it up to case
    ExactFields,    \* event fields compared as they are: event_type, subject.type
    FoldedFields,   \* compared folded: tool_name, action, agent_id, user_id, ...
    ListFields,     \* lists of which one element must match: data_labels, roles, ...
    PatternFields,  \* compared by Covers: resource
    PackLists,      \* the lists of packs an engine may be built from
    Events          \* the events an engine may be asked about

Fields == ExactFields \cup FoldedFields \cup ListFields \cup PatternFields

Ranked    == {"deny", "require_approval", "redact", "record", "allow"}
Conditions == [Fields -> SUBSET Strings]
Policy ==
    [id : Strings, tenant : Strings, enabled : BOOLEAN, priority : Int,
     conditions : Conditions, decision : Ranked \cup {"unknown"}, reason : Strings]
Pack  == [tenant : Strings, enabled : BOOLEAN, policies : Seq(Policy)]
Event == [tenant : Strings, values : [Fields \ ListFields -> Strings],
          lists : [ListFields -> SUBSET Strings]]

ASSUME InputAssumption ==
    /\ "" \in Strings
    /\ Fold \in [Strings -> Strings] /\ Fold[""] = ""
    /\ PackLists \subseteq Seq(Pack)
    /\ Events \subseteq Event

VARIABLES
    packs,        \* the packs as listed
    event,        \* the event being evaluated
    pack,         \* index of the next pack to flatten
    policies,     \* Engine.policies
    next,         \* index of the next policy to look at, 0 while flattening
    best,         \* the EvaluationResult so far
    bestPriority  \* bestPolicyPriority

vars == <<packs, event, pack, policies, next, best, bestPriority>>

--------------------------------------------------------------------------------

\* Mutant: a decision nobody knows ranks with allow.
RankUnknownAsAllow(d) ==
    CASE d = "deny" -> 500 [] d = "require_approval" -> 400 [] d = "redact" -> 300
      [] d = "record" -> 200 [] OTHER -> 100

\* Decision.Priority: any other decision ranks below allow.
Rank(d) ==
    CASE d = "deny"             -> 500
      [] d = "require_approval" -> 400
      [] d = "redact"           -> 300
      [] d = "record"           -> 200
      [] d = "allow"            -> 100
      [] OTHER                  -> 0

Blank(s) == Fold[s] = ""

\* A policy takes its pack's tenant unless it names one.
Stamped(policy, from) ==
    IF Blank(policy.tenant)
    THEN [policy EXCEPT !.tenant = IF Blank(from.tenant) THEN "" ELSE from.tenant]
    ELSE policy

MatchesTenant(policy, e) ==
    Blank(policy.tenant) \/ Fold[policy.tenant] = Fold[e.tenant]

FieldMatches(f, wanted, e) ==
    \/ f \in ExactFields   /\ e.values[f] \in wanted
    \/ f \in FoldedFields  /\ \E w \in wanted : Fold[w] = Fold[e.values[f]]
    \/ f \in ListFields    /\ \E w \in wanted, got \in e.lists[f] : Fold[w] = Fold[got]
    \/ f \in PatternFields /\ \E w \in wanted : ~Blank(w) /\ <<w, e.values[f]>> \in Covers

\* An empty list of a condition asks for nothing.
Matches(conditions, e) ==
    \A f \in Fields : conditions[f] # {} => FieldMatches(f, conditions[f], e)

Applies(policy, e) ==
    policy.enabled /\ MatchesTenant(policy, e) /\ Matches(policy.conditions, e)

\* Mutant: the policy's priority is compared before the decision's.
ShouldReplaceByPriority(policy, current, currentPriority) ==
    policy.priority > currentPriority

ShouldReplace(policy, current, currentPriority) ==
    \/ Rank(policy.decision) > Rank(current)
    \/ Rank(policy.decision) = Rank(current) /\ policy.priority > currentPriority

ReasonOf(policy) ==
    IF policy.reason = "" THEN <<"matched policy", policy.id>> ELSE <<policy.reason>>

NoMatch == [decision |-> "allow", reason |-> <<"no policy matched">>, matched |-> <<>>]

--------------------------------------------------------------------------------

Init ==
    /\ packs \in PackLists
    /\ event \in Events
    /\ pack = 1
    /\ policies = <<>>
    /\ next = 0
    /\ best = NoMatch
    /\ bestPriority = -1

StampedPolicies(p) == [i \in DOMAIN p.policies |-> Stamped(p.policies[i], p)]

\* NewEngineFromPacks, one pack.
Flatten ==
    /\ next = 0 /\ pack \in DOMAIN packs
    /\ \/ packs[pack].enabled /\ policies' = policies \o StampedPolicies(packs[pack])
       \/ ~packs[pack].enabled /\ UNCHANGED policies
    /\ pack' = pack + 1
    /\ UNCHANGED <<packs, event, next, best, bestPriority>>

BeginEvaluate ==
    /\ next = 0 /\ pack = Len(packs) + 1
    /\ next' = 1
    /\ UNCHANGED <<packs, event, pack, policies, best, bestPriority>>

\* Evaluate, one policy that does not apply.
Skip ==
    /\ next \in DOMAIN policies
    /\ ~Applies(policies[next], event)
    /\ next' = next + 1
    /\ UNCHANGED <<packs, event, pack, policies, best, bestPriority>>

\* Mutant: the priority of the policy that won is not remembered.
ReplaceForgetfully ==
    /\ next \in DOMAIN policies
    /\ LET policy == policies[next]
       IN  /\ Applies(policy, event)
           /\ ShouldReplace(policy, best.decision, bestPriority)
           /\ best' = [decision |-> policy.decision, reason |-> ReasonOf(policy),
                       matched |-> Append(best.matched, policy.id)]
    /\ next' = next + 1
    /\ UNCHANGED <<packs, event, pack, policies, bestPriority>>

\* Evaluate, one policy that becomes the best so far.
Replace ==
    /\ next \in DOMAIN policies
    /\ LET policy == policies[next]
       IN  /\ Applies(policy, event)
           /\ ShouldReplace(policy, best.decision, bestPriority)
           /\ best' = [decision |-> policy.decision, reason |-> ReasonOf(policy),
                       matched |-> Append(best.matched, policy.id)]
           /\ bestPriority' = policy.priority
    /\ next' = next + 1
    /\ UNCHANGED <<packs, event, pack, policies>>

\* Mutant: only policies that change the result are listed as matched.
NoteNothing ==
    /\ next \in DOMAIN policies
    /\ Applies(policies[next], event)
    /\ ~ShouldReplace(policies[next], best.decision, bestPriority)
    /\ next' = next + 1
    /\ UNCHANGED <<packs, event, pack, policies, best, bestPriority>>

\* Evaluate, one policy that applies but does not change the result.
Note ==
    /\ next \in DOMAIN policies
    /\ LET policy == policies[next]
       IN  /\ Applies(policy, event)
           /\ ~ShouldReplace(policy, best.decision, bestPriority)
           /\ best' = [best EXCEPT !.matched = Append(@, policy.id)]
    /\ next' = next + 1
    /\ UNCHANGED <<packs, event, pack, policies, bestPriority>>

Done == next = Len(policies) + 1

Next == Flatten \/ BeginEvaluate \/ Skip \/ Replace \/ Note

Spec == Init /\ [][Next]_vars

--------------------------------------------------------------------------------

\* Every variable keeps its type; above all, the answer is one of the five decisions
\* although a stored policy may carry another word (domain/model.go:32-47).
TypeOK ==
    /\ packs \in PackLists /\ event \in Events
    /\ pack \in 1..(Len(packs) + 1)
    /\ policies \in Seq(Policy)
    /\ next \in 0..(Len(policies) + 1)
    /\ best.decision \in Ranked
    /\ bestPriority \in Int

\* The policies of the first n packs that are enabled, each under its tenant.
InForce(n) ==
    UNION {{Stamped(packs[p].policies[i], packs[p]) : i \in DOMAIN packs[p].policies} :
           p \in {q \in 1..n : packs[q].enabled}}

Applying == {policy \in InForce(Len(packs)) : Applies(policy, event)}

\* The decision is the strongest of the policies that apply, in whatever order the
\* packs were listed; allow when none applies (engine.go:34-69).
DecisionIsStrongest ==
    Done =>
        /\ \A policy \in Applying : Rank(policy.decision) <= Rank(best.decision)
        /\ best.decision = "allow" \/ \E policy \in Applying : policy.decision = best.decision

\* Among the policies that ask for the decision taken, the one that gives the reason
\* has the highest priority (.harness/changes/production-foundation/design.md:99); but
\* the loop starts from allow with priority -1 (engine.go:35-39), so that where only
\* allow policies below 0 apply, none of them is the reason.
ReasonFollowsPriority ==
    Done =>
        LET deciding == {policy \in Applying : policy.decision = best.decision}
        IN  (\E policy \in deciding : policy.decision # "allow" \/ policy.priority >= 0) =>
              \E policy \in deciding :
                  /\ best.reason = ReasonOf(policy)
                  /\ \A other \in deciding : other.priority <= policy.priority

\* Every policy that applies is reported, and no other, even those that lost.
MatchedIsApplying ==
    Done => {best.matched[i] : i \in DOMAIN best.matched} = {policy.id : policy \in Applying}

--------------------------------------------------------------------------------

\* What the loop has established about the policies already looked at.
Seen == {policies[i] : i \in {j \in DOMAIN policies : j < next /\ Applies(policies[j], event)}}

StrongestSoFar ==
    /\ \A policy \in Seen : Rank(policy.decision) <= Rank(best.decision)
    /\ best.decision = "allow" \/ \E policy \in Seen : policy.decision = best.decision

\* Where the reason comes from, and the priority the loop remembers with it.
ReasonSoFar ==
    /\ \A policy \in Seen :
          policy.decision = best.decision => policy.priority <= bestPriority
    /\ \/ best.decision = "allow" /\ bestPriority = -1
       \/ \E policy \in Seen : /\ policy.decision = best.decision
                               /\ best.reason = ReasonOf(policy)
                               /\ bestPriority = policy.priority

FlattenedSoFar ==
    /\ {policies[i] : i \in DOMAIN policies} = InForce(pack - 1)
    /\ next # 0 => pack = Len(packs) + 1

================================================================================
