---------------------------- MODULE PolicySimulation ----------------------------
(****************************************************************************)
(* Trying policy packs out before they are in force: an administrator       *)
(* submits an event and draft packs to POST .../policy-simulations, then    *)
(* PUTs the drafts one by one, and an agent submits the event.  The engine  *)
(* of PolicyEngine runs twice: over the drafts as they are, in the order of *)
(* the request, and over what the store lists of the saved packs, in any    *)
(* order, next to packs the tenant had before.                              *)
(*                                                                          *)
(* The tenant of the path is that of the event, or the simulation is        *)
(* refused.  A draft may name another tenant: the simulation judges it as   *)
(* that tenant's, and the PUT makes it one of the path's.  Drafts have ids  *)
(* of their own.  The event validates and names no approval.                *)
(****************************************************************************)
EXTENDS Integers, Sequences, FiniteSets

CONSTANTS
    Strings, Fold, Covers, ExactFields, FoldedFields, ListFields, PatternFields,
    PackLists,   \* lists of drafts
    Events,
    Others       \* what the store may hold beforehand, in the order it was saved

VARIABLES
    packs, event, pack, policies, next, best, bestPriority, \* the engine's
    phase,     \* "simulating", "saving" or "enforcing"
    drafts,    \* SimulationRequest.PolicyPacks
    unsaved,   \* the drafts still to be PUT
    stored,    \* the packs in the store, in the order they were first saved
    predicted  \* SimulationResult.Result

engine == <<packs, event, pack, policies, next, best, bestPriority>>
vars == <<engine, phase, drafts, unsaved, stored, predicted>>

Engine == INSTANCE PolicyEngine

ASSUME EngineAssumption == Engine!InputAssumption
ASSUME OthersAssumption == Others \subseteq Seq(Engine!Pack)

--------------------------------------------------------------------------------

\* Mutant: the tenant of the body stands.
UpsertedAsIs(draft, tenant) ==
    [draft EXCEPT !.policies = [i \in DOMAIN draft.policies |->
        [draft.policies[i] EXCEPT !.tenant = IF @ = "" THEN draft.tenant ELSE @]]]

\* Mutant: every policy is put under the tenant of its pack.
UpsertedOver(draft, tenant) ==
    [draft EXCEPT !.tenant = tenant,
                  !.policies = [i \in DOMAIN draft.policies |->
                                   [draft.policies[i] EXCEPT !.tenant = tenant]]]

\* The PUT handler and Upsert: a pack under the tenant of the path, and the policies
\* that name no tenant with it.
Upserted(draft, tenant) ==
    [draft EXCEPT !.tenant = tenant,
                  !.policies = [i \in DOMAIN draft.policies |->
                                   [draft.policies[i] EXCEPT !.tenant = IF @ = "" THEN tenant ELSE @]]]

\* simulatePolicyPack: an engine over the drafts.
Init ==
    /\ Engine!Init
    /\ phase = "simulating"
    /\ drafts = packs
    /\ unsaved = DOMAIN drafts
    /\ stored \in Others
    /\ predicted = Engine!NoMatch

\* The loops of NewEngineFromPacks and Evaluate, for the simulation and for enforcement.
EngineStep ==
    /\ phase \in {"simulating", "enforcing"}
    /\ Engine!Next
    /\ UNCHANGED <<phase, drafts, unsaved, stored, predicted>>

AnswerSimulation ==
    /\ phase = "simulating" /\ Engine!Done
    /\ phase' = "saving"
    /\ predicted' = best
    /\ UNCHANGED <<engine, drafts, unsaved, stored>>

SaveDraft(i) ==
    /\ phase = "saving" /\ i \in unsaved
    /\ stored' = Append(stored, Upserted(drafts[i], event.tenant))
    /\ unsaved' = unsaved \ {i}
    /\ UNCHANGED <<engine, phase, drafts, predicted>>

Listed(p) == p.enabled /\ p.tenant = event.tenant

\* ListEnabled, in no order the memory store promises.
Listings ==
    LET inForce == {i \in DOMAIN stored : Listed(stored[i])}
        orders  == {order \in [1..Cardinality(inForce) -> inForce] :
                       \A i, j \in DOMAIN order : order[i] = order[j] => i = j}
    IN  {[k \in DOMAIN order |-> stored[order[k]]] : order \in orders}

\* Service.Evaluate builds an engine over the enabled packs of the event's tenant.
BeginEnforcement ==
    /\ phase = "saving" /\ unsaved = {}
    /\ phase' = "enforcing"
    /\ packs' \in Listings
    /\ pack' = 1 /\ policies' = <<>> /\ next' = 0
    /\ best' = Engine!NoMatch /\ bestPriority' = -1
    /\ UNCHANGED <<event, drafts, unsaved, stored, predicted>>

Next == EngineStep \/ AnswerSimulation \/ BeginEnforcement \/ \E i \in DOMAIN drafts : SaveDraft(i)

Spec == Init /\ [][Next]_vars

--------------------------------------------------------------------------------

Saved == DOMAIN drafts \ unsaved

\* How many packs the store held beforehand; they come first.
Before == Len(stored) - Cardinality(Saved)

\* Every variable keeps its type; drafts are stored under the tenant of the event.
TypeOK ==
    /\ phase \in {"simulating", "saving", "enforcing"}
    /\ event \in Events /\ drafts \in PackLists /\ unsaved \subseteq DOMAIN drafts
    /\ stored \in Seq(Engine!Pack)
    /\ \A i \in DOMAIN stored : i > Before => stored[i].tenant = event.tenant
    /\ predicted.decision \in Engine!Ranked

Ids(result) == {result.matched[i] : i \in DOMAIN result.matched}

\* A draft that leaves the tenant open, or names the one it will be saved for.
Own(draft) == Engine!Blank(draft.tenant) \/ Fold[draft.tenant] = Fold[event.tenant]

\* Once its drafts are saved, the event meets a decision at least as strong as the
\* simulation foretold, and every policy it foretold; and the same decision by the same
\* policies, if no draft named another tenant and nothing else was in force for this one
\* (policy/simulation.go:17-27, runtime/service.go:64-75,
\* .harness/changes/policy-simulator/proposal.md:76).
SimulationPredicts ==
    phase = "enforcing" /\ Engine!Done =>
        /\ Engine!Rank(predicted.decision) <= Engine!Rank(best.decision)
        /\ Ids(predicted) \subseteq Ids(best)
        /\ /\ \A i \in DOMAIN drafts : Own(drafts[i])
           /\ \A i \in 1..Before : ~Listed(stored[i])
           => best.decision = predicted.decision /\ Ids(best) = Ids(predicted)

================================================================================
