------------------------- MODULE PolicySimulationProofs -------------------------
(****************************************************************************)
(* Theorems about PolicySimulation, for any drafts, any packs beside them,  *)
(* any order of saving and listing them, and any notion of string matching. *)
(* What the engine answers depends only on the set of policies in force, by *)
(* PolicyEngineProofs; and saving a draft changes nothing of its policies   *)
(* but tenants, by which they apply at least as often as before.            *)
(****************************************************************************)
EXTENDS PolicySimulation, FiniteSetTheorems, FunctionTheorems, TLAPS

\* What is proved of the engine, here over any list of packs: the ones the store lists
\* need not be among the drafts.
Facts == INSTANCE PolicyEngineProofs WITH PackLists <- Seq(Engine!Pack)

--------------------------------------------------------------------------------
(* The engine                                                                 *)

LEMMA SameTypes ==
    /\ Facts!Pack = Engine!Pack /\ Facts!Policy = Engine!Policy
    /\ Facts!Event = Engine!Event /\ Facts!Ranked = Engine!Ranked
  BY DEF Facts!Pack, Engine!Pack, Facts!Policy, Engine!Policy, Facts!Event, Engine!Event,
         Facts!Ranked, Engine!Ranked, Facts!Conditions, Engine!Conditions,
         Facts!Fields, Engine!Fields

LEMMA EngineInputs == Facts!InputAssumption
  BY SameTypes, EngineAssumption DEF Engine!InputAssumption, Facts!InputAssumption

LEMMA SameEngine ==
    /\ Engine!Next <=> Facts!Next
    /\ Engine!Done <=> Facts!Done
    /\ Engine!NoMatch = Facts!NoMatch
    /\ \A d : Engine!Rank(d) = Facts!Rank(d)
    /\ \A s : Engine!Blank(s) <=> Facts!Blank(s)
<1>1. \A d : Engine!Rank(d) = Facts!Rank(d)
  BY DEF Engine!Rank, Facts!Rank
<1>2. \A s : Engine!Blank(s) <=> Facts!Blank(s)
  BY DEF Engine!Blank, Facts!Blank
<1>3. \A policy, p : Engine!Stamped(policy, p) = Facts!Stamped(policy, p)
  BY <1>2 DEF Engine!Stamped, Facts!Stamped
<1>4. \A p : Engine!StampedPolicies(p) = Facts!StampedPolicies(p)
  BY <1>3 DEF Engine!StampedPolicies, Facts!StampedPolicies
<1>5. \A policy, e : Engine!Applies(policy, e) <=> Facts!Applies(policy, e)
  BY <1>2 DEF Engine!Applies, Facts!Applies, Engine!MatchesTenant, Facts!MatchesTenant,
              Engine!Matches, Facts!Matches, Engine!FieldMatches, Facts!FieldMatches,
              Engine!Fields, Facts!Fields
<1>6. \A policy, d, n : Engine!ShouldReplace(policy, d, n) <=> Facts!ShouldReplace(policy, d, n)
  BY <1>1 DEF Engine!ShouldReplace, Facts!ShouldReplace
<1>7. \A policy : Engine!ReasonOf(policy) = Facts!ReasonOf(policy)
  BY DEF Engine!ReasonOf, Facts!ReasonOf
<1>8. /\ Engine!Flatten <=> Facts!Flatten
      /\ Engine!BeginEvaluate <=> Facts!BeginEvaluate
  BY <1>4 DEF Engine!Flatten, Facts!Flatten, Engine!BeginEvaluate, Facts!BeginEvaluate
<1>9. /\ Engine!Skip <=> Facts!Skip
      /\ Engine!Replace <=> Facts!Replace
      /\ Engine!Note <=> Facts!Note
  BY <1>5, <1>6, <1>7 DEF Engine!Skip, Facts!Skip, Engine!Replace, Facts!Replace,
                          Engine!Note, Facts!Note
<1>10. Engine!Next <=> Facts!Next
  BY <1>8, <1>9 DEF Engine!Next, Facts!Next
<1>11. (Engine!Done <=> Facts!Done) /\ Engine!NoMatch = Facts!NoMatch
  BY DEF Engine!Done, Facts!Done, Engine!NoMatch, Facts!NoMatch
<1> QED BY <1>1, <1>2, <1>10, <1>11

\* Before its first step an engine knows what it has to, and it never forgets.
LEMMA FreshEngine == Facts!Init' => Facts!LoopInv'
<1>1. Facts!Init => Facts!LoopInv
  BY EngineInputs, Facts!LoopInit
<1> QED BY <1>1, PTL

LEMMA RunningEngine == Facts!LoopInv /\ Engine!Next => Facts!LoopInv'
<1>1. Facts!LoopInv /\ [Facts!Next]_(Facts!vars) => Facts!LoopInv'
  BY EngineInputs, Facts!LoopStep
<1> QED BY <1>1, SameEngine

LEMMA SameLoop == Facts!LoopInv /\ UNCHANGED engine => Facts!LoopInv'
<1>1. Facts!LoopInv /\ [Facts!Next]_(Facts!vars) => Facts!LoopInv'
  BY EngineInputs, Facts!LoopStep
<1> QED BY <1>1 DEF engine, Facts!vars

\* What a result says of the policies that apply.
Tells(result, applying) ==
    /\ result.decision \in Engine!Ranked
    /\ \A policy \in applying : Engine!Rank(policy.decision) <= Engine!Rank(result.decision)
    /\ result.decision = "allow" \/ \E policy \in applying : policy.decision = result.decision
    /\ Ids(result) = {policy.id : policy \in applying}

LEMMA EngineTells ==
    ASSUME Facts!LoopInv, Engine!Done
    PROVE  Tells(best, Facts!Applying)
<1>1. Facts!DecisionIsStrongest /\ Facts!MatchedIsApplying
  BY EngineInputs, Facts!LoopTells
<1>2. best.decision \in Engine!Ranked
  BY SameTypes DEF Facts!LoopInv, Facts!TypeOK
<1> QED BY <1>1, <1>2, SameEngine
        DEF Facts!DecisionIsStrongest, Facts!MatchedIsApplying, Tells, Ids

\* Every policy of one set is matched by one of another that has its id and decision.
Mirrors(some, others) ==
    \A policy \in some : \E other \in others :
        other.id = policy.id /\ other.decision = policy.decision

LEMMA Ranks ==
    /\ \A d : Engine!Rank(d) \in Nat
    /\ \A d \in Engine!Ranked : Engine!Rank(d) >= Engine!Rank("allow")
    /\ \A c, d \in Engine!Ranked : Engine!Rank(c) = Engine!Rank(d) => c = d
<1>1. \A d : Engine!Rank(d) \in Nat
  BY DEF Engine!Rank
<1>2. \A d \in Engine!Ranked : Engine!Rank(d) >= Engine!Rank("allow")
  BY DEF Engine!Rank, Engine!Ranked
<1>3. \A c, d \in Engine!Ranked : Engine!Rank(c) = Engine!Rank(d) => c = d
  BY SameEngine, SameTypes, EngineInputs, Facts!RankInjective
<1> QED BY <1>1, <1>2, <1>3

LEMMA MoreIsStronger ==
    ASSUME NEW result, NEW some, NEW stronger, NEW others,
           Tells(result, some), Tells(stronger, others), Mirrors(some, others)
    PROVE  /\ Engine!Rank(result.decision) <= Engine!Rank(stronger.decision)
           /\ Ids(result) \subseteq Ids(stronger)
<1>1. Engine!Rank(result.decision) <= Engine!Rank(stronger.decision)
  <2>1. CASE result.decision = "allow"
    BY <2>1, Ranks DEF Tells
  <2>2. CASE result.decision # "allow"
    BY <2>2 DEF Tells, Mirrors
  <2> QED BY <2>1, <2>2
<1>2. Ids(result) \subseteq Ids(stronger)
  BY DEF Tells, Mirrors
<1> QED BY <1>1, <1>2

LEMMA SameIsSame ==
    ASSUME NEW result, NEW some, NEW again, NEW others,
           Tells(result, some), Tells(again, others),
           Mirrors(some, others), Mirrors(others, some)
    PROVE  again.decision = result.decision /\ Ids(again) = Ids(result)
<1>1. /\ Engine!Rank(result.decision) <= Engine!Rank(again.decision)
      /\ Ids(result) \subseteq Ids(again)
  BY MoreIsStronger
<1>2. /\ Engine!Rank(again.decision) <= Engine!Rank(result.decision)
      /\ Ids(again) \subseteq Ids(result)
  BY MoreIsStronger
<1>3. Engine!Rank(again.decision) = Engine!Rank(result.decision)
  BY <1>1, <1>2, Ranks
<1>4. again.decision = result.decision
  BY <1>3, Ranks DEF Tells
<1> QED BY <1>1, <1>2, <1>4

--------------------------------------------------------------------------------
(* Drafts and what becomes of them                                            *)

LEMMA UpsertedType ==
    ASSUME NEW draft \in Engine!Pack, event \in Engine!Event
    PROVE  /\ Upserted(draft, event.tenant) \in Engine!Pack
           /\ Upserted(draft, event.tenant).tenant = event.tenant
           /\ Upserted(draft, event.tenant).enabled = draft.enabled
           /\ DOMAIN Upserted(draft, event.tenant).policies = DOMAIN draft.policies
<1> DEFINE tenant == event.tenant
           saved == [i \in DOMAIN draft.policies |->
                        [draft.policies[i] EXCEPT !.tenant = IF @ = "" THEN tenant ELSE @]]
<1>1. tenant \in Strings
  BY DEF Engine!Event
<1>2. draft.policies \in Seq(Engine!Policy)
  BY DEF Engine!Pack
<1>3. \A policy \in Engine!Policy :
         [policy EXCEPT !.tenant = IF @ = "" THEN tenant ELSE @] \in Engine!Policy
  BY <1>1 DEF Engine!Policy
<1>4. saved \in Seq(Engine!Policy) /\ DOMAIN saved = DOMAIN draft.policies
  <2>1. \A i \in 1..Len(draft.policies) : draft.policies[i] \in Engine!Policy
    BY <1>2
  <2>2. saved \in [1..Len(draft.policies) -> Engine!Policy]
    <3>1. DOMAIN saved = 1..Len(draft.policies)
      BY <1>2
    <3>2. \A j \in DOMAIN saved : saved[j] \in Engine!Policy
      BY <1>3, <2>1, <3>1
    <3>3. saved = [j \in DOMAIN saved |-> saved[j]]
      OBVIOUS
    <3> HIDE DEF saved
    <3> QED BY <3>1, <3>2, <3>3
  <2> HIDE DEF saved
  <2> QED BY <1>2, <2>2
<1>5. Upserted(draft, tenant) = [draft EXCEPT !.tenant = tenant, !.policies = saved]
  BY DEF Upserted
<1> HIDE DEF saved, tenant
<1>6. [draft EXCEPT !.tenant = tenant, !.policies = saved] \in Engine!Pack
  BY <1>1, <1>4 DEF Engine!Pack
<1>7. /\ Upserted(draft, tenant) \in Engine!Pack
      /\ Upserted(draft, tenant).tenant = tenant
      /\ Upserted(draft, tenant).enabled = draft.enabled
      /\ Upserted(draft, tenant).policies = saved
  BY <1>5, <1>6 DEF Engine!Pack
<1> QED BY <1>4, <1>7 DEF tenant

\* The policies of a pack as the engine takes them.
Taken(p, i) == Facts!Stamped(p.policies[i], p)

\* A saved policy differs from the draft's in its tenant alone, and applies wherever
\* that one did; and where it does, that one did, unless it was another tenant's.
LEMMA SavedPolicies ==
    ASSUME NEW draft \in Engine!Pack, NEW i \in DOMAIN draft.policies, event \in Engine!Event
    PROVE  LET saved == Upserted(draft, event.tenant)
           IN  /\ Taken(saved, i).id = Taken(draft, i).id
               /\ Taken(saved, i).decision = Taken(draft, i).decision
               /\ Facts!Applies(Taken(draft, i), event) => Facts!Applies(Taken(saved, i), event)
               /\ Own(draft) /\ Facts!Applies(Taken(saved, i), event)
                     => Facts!Applies(Taken(draft, i), event)
<1> DEFINE policy == draft.policies[i]
           saved == Upserted(draft, event.tenant)
           kept == saved.policies[i]
<1>1. policy \in Engine!Policy /\ policy.tenant \in Strings
  <2>1. draft.policies \in Seq(Engine!Policy)
    BY DEF Engine!Pack
  <2>2. policy \in Engine!Policy
    BY <2>1
  <2> QED BY <2>2 DEF Engine!Policy
<1>2. event.tenant \in Strings /\ draft.tenant \in Strings
  BY DEF Engine!Event, Engine!Pack
<1>3. "" \in Strings /\ Fold[""] = ""
  BY EngineAssumption DEF Engine!InputAssumption
<1>4. /\ saved.tenant = event.tenant
      /\ kept = [policy EXCEPT !.tenant = IF @ = "" THEN event.tenant ELSE @]
  BY DEF Upserted, Engine!Pack
<1>5. kept \in Engine!Policy
      /\ kept.tenant = IF policy.tenant = "" THEN event.tenant ELSE policy.tenant
  BY <1>1, <1>2, <1>4 DEF Engine!Policy
<1> HIDE DEF policy, saved, kept
<1>6. /\ Taken(draft, i) = Facts!Stamped(policy, draft)
      /\ Taken(saved, i) = Facts!Stamped(kept, saved)
  BY DEF Taken, policy, kept
<1>7. ASSUME NEW q \in Engine!Policy, NEW from
      PROVE  /\ Facts!Stamped(q, from).id = q.id
             /\ Facts!Stamped(q, from).decision = q.decision
             /\ Facts!Stamped(q, from).enabled = q.enabled
             /\ Facts!Stamped(q, from).conditions = q.conditions
             /\ Facts!Stamped(q, from).tenant =
                   IF Fold[q.tenant] # "" THEN q.tenant
                   ELSE IF Fold[from.tenant] = "" THEN "" ELSE from.tenant
  BY DEF Facts!Stamped, Facts!Blank, Engine!Policy
<1>8. /\ kept.id = policy.id /\ kept.decision = policy.decision
      /\ kept.enabled = policy.enabled /\ kept.conditions = policy.conditions
  BY <1>1, <1>4 DEF Engine!Policy
<1> DEFINE before == Facts!Stamped(policy, draft)
           after == Facts!Stamped(kept, saved)
<1>9. /\ after.id = before.id /\ after.decision = before.decision
      /\ after.enabled = before.enabled /\ after.conditions = before.conditions
  BY <1>1, <1>5, <1>7, <1>8
<1>10. /\ before.tenant = IF Fold[policy.tenant] # "" THEN policy.tenant
                          ELSE IF Fold[draft.tenant] = "" THEN "" ELSE draft.tenant
       /\ after.tenant = IF Fold[kept.tenant] # "" THEN kept.tenant
                         ELSE IF Fold[event.tenant] = "" THEN "" ELSE event.tenant
  <2>1. before.tenant = IF Fold[policy.tenant] # "" THEN policy.tenant
                        ELSE IF Fold[draft.tenant] = "" THEN "" ELSE draft.tenant
    BY <1>1, <1>7
  <2>2. after.tenant = IF Fold[kept.tenant] # "" THEN kept.tenant
                       ELSE IF Fold[saved.tenant] = "" THEN "" ELSE saved.tenant
    BY <1>5, <1>7
  <2> QED BY <1>4, <2>1, <2>2
<1> HIDE DEF before, after
<1>11. CASE Fold[policy.tenant] # ""
  <2>1. after.tenant = before.tenant
    BY <1>3, <1>5, <1>10, <1>11
  <2>2. Facts!Applies(before, event) <=> Facts!Applies(after, event)
    BY <1>9, <2>1 DEF Facts!Applies, Facts!MatchesTenant
  <2> QED BY <1>6, <1>9, <2>2 DEF before, after, saved
<1>12. CASE Fold[policy.tenant] = ""
  <2>1. Facts!MatchesTenant(after, event)
    BY <1>3, <1>5, <1>10, <1>12 DEF Facts!MatchesTenant, Facts!Blank
  <2>2. Own(draft) => Facts!MatchesTenant(before, event)
    BY <1>3, <1>10, <1>12, SameEngine DEF Own, Facts!MatchesTenant, Facts!Blank
  <2> QED BY <1>6, <1>9, <2>1, <2>2 DEF Facts!Applies, before, after, saved
<1> QED BY <1>11, <1>12

--------------------------------------------------------------------------------
(* What is in force                                                           *)

\* The policies the drafts foretell for the event, whoever may name them.
IsForetold(policy) ==
    \E d \in DOMAIN drafts : \E i \in DOMAIN drafts[d].policies :
        /\ drafts[d].enabled
        /\ policy = Taken(drafts[d], i)
        /\ Facts!Applies(policy, event)

Foretold ==
    {policy \in UNION {{Taken(drafts[d], i) : i \in DOMAIN drafts[d].policies} :
                       d \in DOMAIN drafts} : IsForetold(policy)}

LEMMA ForetoldIs ==
    \A policy : policy \in Foretold <=> IsForetold(policy)
  BY DEF Foretold, IsForetold

LEMMA ApplyingIs ==
    ASSUME packs \in Seq(Engine!Pack), NEW policy
    PROVE  policy \in Facts!Applying <=>
             \E p \in DOMAIN packs : \E i \in DOMAIN packs[p].policies :
                 /\ packs[p].enabled
                 /\ policy = Taken(packs[p], i)
                 /\ Facts!Applies(policy, event)
<1> DEFINE of(p) == {Facts!Stamped(packs[p].policies[i], packs[p]) :
                        i \in DOMAIN packs[p].policies}
           enabled == {q \in 1..Len(packs) : packs[q].enabled}
<1>1. DOMAIN packs = 1..Len(packs)
  OBVIOUS
<1>2. policy \in Facts!Applying <=>
        policy \in UNION {of(p) : p \in enabled} /\ Facts!Applies(policy, event)
  BY DEF Facts!Applying, Facts!InForce
<1>3. policy \in UNION {of(p) : p \in enabled} <=>
        \E p \in enabled : \E i \in DOMAIN packs[p].policies : policy = Taken(packs[p], i)
  BY DEF Taken
<1> QED BY <1>1, <1>2, <1>3

\* Each saved draft is in the store under the tenant of the event, and what the store
\* did not hold beforehand is one of them.
StoreHolds ==
    /\ Before \in Int
    /\ \A d \in Saved : \E i \in DOMAIN stored : stored[i] = Upserted(drafts[d], event.tenant)
    /\ \A i \in DOMAIN stored : i > Before =>
          \E d \in Saved : stored[i] = Upserted(drafts[d], event.tenant)

\* The engine that enforces has the packs the store lists, and no others.
ListsStored ==
    /\ \A p \in DOMAIN packs : \E i \in DOMAIN stored : Listed(stored[i]) /\ packs[p] = stored[i]
    /\ \A i \in DOMAIN stored : Listed(stored[i]) => \E p \in DOMAIN packs : packs[p] = stored[i]

Typed ==
    /\ phase \in {"simulating", "saving", "enforcing"}
    /\ event \in Events /\ drafts \in PackLists /\ unsaved \subseteq DOMAIN drafts
    /\ stored \in Seq(Engine!Pack)
    /\ predicted.decision \in Engine!Ranked

Safe ==
    /\ Typed
    /\ StoreHolds
    /\ Facts!LoopInv
    /\ phase = "simulating" => packs = drafts
    /\ phase # "simulating" => Tells(predicted, Foretold)
    /\ phase = "enforcing" => unsaved = {} /\ ListsStored

LEMMA Packs ==
    ASSUME Safe
    PROVE  /\ event \in Engine!Event
           /\ packs \in Seq(Engine!Pack) /\ drafts \in Seq(Engine!Pack)
           /\ \A p \in DOMAIN packs : packs[p] \in Engine!Pack
           /\ \A d \in DOMAIN drafts : drafts[d] \in Engine!Pack
<1>1. packs \in Seq(Engine!Pack)
  BY DEF Safe, Facts!LoopInv, Facts!TypeOK
<1>2. event \in Engine!Event /\ drafts \in Seq(Engine!Pack)
  BY EngineAssumption DEF Safe, Typed, Engine!InputAssumption
<1> QED BY <1>1, <1>2

LEMMA SavedIsFinite ==
    ASSUME Typed
    PROVE  IsFiniteSet(Saved) /\ Cardinality(Saved) \in Nat
<1>1. Len(drafts) \in Nat /\ DOMAIN drafts = 1..Len(drafts)
  <2>1. drafts \in Seq(Engine!Pack)
    BY EngineAssumption DEF Typed, Engine!InputAssumption
  <2> QED BY <2>1
<1>2. IsFiniteSet(1..Len(drafts))
  BY <1>1, FS_Interval
<1>3. Saved \in SUBSET (1..Len(drafts))
  BY <1>1 DEF Saved
<1>4. IsFiniteSet(Saved)
  BY <1>2, <1>3, FS_Subset
<1> QED BY <1>4, FS_CardinalityType

LEMMA SafeTypeOK == Safe => TypeOK
<1> SUFFICES ASSUME Safe PROVE TypeOK
  OBVIOUS
<1>1. ASSUME NEW i \in DOMAIN stored, i > Before
      PROVE  stored[i].tenant = event.tenant
  <2>1. PICK d \in Saved : stored[i] = Upserted(drafts[d], event.tenant)
    BY <1>1 DEF Safe, StoreHolds
  <2>2. drafts[d] \in Engine!Pack
    BY Packs DEF Saved
  <2> QED BY <2>1, <2>2, Packs, UpsertedType
<1> QED BY <1>1 DEF Safe, Typed, TypeOK

--------------------------------------------------------------------------------
(* The invariant, step by step                                                *)

LEMMA SafeInit == Init => Safe
<1> SUFFICES ASSUME Init PROVE Safe
  OBVIOUS
<1>1. Facts!Init
  <2>1. Engine!Init /\ packs \in Seq(Engine!Pack)
    BY EngineAssumption DEF Init, Engine!Init, Engine!InputAssumption
  <2> QED BY <2>1, SameEngine DEF Engine!Init, Facts!Init
<1>2. Facts!LoopInv
  BY <1>1, EngineInputs, Facts!LoopInit
<1>3. Typed
  <2>1. predicted.decision \in Engine!Ranked
    BY DEF Init, Engine!NoMatch, Engine!Ranked
  <2>2. stored \in Seq(Engine!Pack)
    BY OthersAssumption DEF Init
  <2> QED BY <2>1, <2>2 DEF Init, Engine!Init, Typed
<1>4. Saved = {}
  BY DEF Init, Saved
<1>5. StoreHolds
  <2>1. Cardinality(Saved) = 0
    BY <1>4, FS_EmptySet
  <2>2. Len(stored) \in Nat /\ DOMAIN stored = 1..Len(stored)
    BY <1>3 DEF Typed
  <2>3. Before = Len(stored)
    BY <2>1, <2>2 DEF Before
  <2> QED BY <1>4, <2>2, <2>3 DEF StoreHolds
<1> QED BY <1>2, <1>3, <1>5 DEF Init, Safe

\* What is said of the drafts and the store stays true as long as neither changes.
LEMMA StoreUnmoved ==
    ASSUME Typed, StoreHolds, UNCHANGED <<event, drafts, unsaved, stored>>
    PROVE  StoreHolds'
<1>1. Saved' = Saved
  BY DEF Saved
<1>2. Before' = Before
  BY <1>1 DEF Before
<1>3. \A d : Upserted(drafts[d], event.tenant)' = Upserted(drafts[d], event.tenant)
  BY DEF Upserted
<1> QED BY <1>1, <1>2, <1>3 DEF StoreHolds

LEMMA ForetoldUnmoved ==
    ASSUME UNCHANGED <<event, drafts>>
    PROVE  Foretold' = Foretold
<1>1. \A policy : Facts!Applies(policy, event)' <=> Facts!Applies(policy, event)
  BY DEF Facts!Applies, Facts!MatchesTenant, Facts!Matches, Facts!FieldMatches
<1> QED BY <1>1 DEF Foretold, IsForetold, Taken, Facts!Stamped

LEMMA TellsUnmoved ==
    ASSUME UNCHANGED <<event, drafts, predicted>>, Tells(predicted, Foretold)
    PROVE  Tells(predicted, Foretold)'
<1>1. Foretold' = Foretold
  BY ForetoldUnmoved
<1> QED BY <1>1 DEF Tells, Ids

LEMMA SafeEngine == Safe /\ EngineStep => Safe'
<1> SUFFICES ASSUME Safe, EngineStep PROVE Safe'
  OBVIOUS
<1>1. Facts!LoopInv'
  BY RunningEngine DEF Safe, EngineStep
<1>2. UNCHANGED <<packs, event, phase, drafts, unsaved, stored, predicted>>
  BY DEF EngineStep, Engine!Next, Engine!Flatten, Engine!BeginEvaluate, Engine!Skip,
         Engine!Replace, Engine!Note
<1>3. Typed' /\ StoreHolds'
  BY <1>2, StoreUnmoved DEF Safe, Typed
<1>4. phase' # "simulating" => Tells(predicted, Foretold)'
  BY <1>2, TellsUnmoved DEF Safe
<1>5. phase' = "enforcing" => unsaved' = {} /\ ListsStored'
  BY <1>2 DEF Safe, ListsStored, Listed
<1> QED BY <1>1, <1>2, <1>3, <1>4, <1>5 DEF Safe

LEMMA SimulationApplies ==
    ASSUME Safe, phase = "simulating"
    PROVE  Foretold = Facts!Applying
<1>1. packs = drafts /\ packs \in Seq(Engine!Pack)
  BY Packs DEF Safe
<1>2. ASSUME NEW policy PROVE policy \in Foretold <=> policy \in Facts!Applying
  BY <1>1, ForetoldIs, ApplyingIs DEF IsForetold
<1> QED BY <1>2

LEMMA SafeAnswer == Safe /\ AnswerSimulation => Safe'
<1> SUFFICES ASSUME Safe, AnswerSimulation PROVE Safe'
  OBVIOUS
<1>1. Tells(best, Foretold)
  BY EngineTells, SimulationApplies DEF Safe, AnswerSimulation
<1>2. UNCHANGED <<engine, event, drafts, unsaved, stored>>
      /\ predicted' = best /\ phase' = "saving"
  BY DEF AnswerSimulation, engine
<1>3. Typed'
  BY <1>1, <1>2 DEF Safe, Typed, Tells
<1>4. StoreHolds'
  BY <1>2, StoreUnmoved DEF Safe
<1>5. Facts!LoopInv'
  BY <1>2, SameLoop DEF Safe
<1>6. Tells(predicted, Foretold)'
  <2>1. Foretold' = Foretold
    BY <1>2, ForetoldUnmoved
  <2> QED BY <1>1, <1>2, <2>1 DEF Tells, Ids
<1> QED BY <1>2, <1>3, <1>4, <1>5, <1>6 DEF Safe

LEMMA OneMoreSaved ==
    ASSUME Typed, NEW d \in DOMAIN drafts, SaveDraft(d)
    PROVE  /\ Saved' = Saved \cup {d}
           /\ Before' = Before
<1>1. Saved' = Saved \cup {d} /\ d \notin Saved
  BY DEF SaveDraft, Saved, Typed
<1>2. Cardinality(Saved \cup {d}) = Cardinality(Saved) + 1
  BY <1>1, SavedIsFinite, FS_AddElement
<1>3. Len(stored) \in Nat /\ Len(stored') = Len(stored) + 1
  BY DEF Typed, SaveDraft
<1>4. Len(stored') - Cardinality(Saved') = Len(stored) - Cardinality(Saved)
  BY <1>1, <1>2, <1>3, SavedIsFinite
<1> QED BY <1>1, <1>4 DEF Before

LEMMA SafeSave ==
    ASSUME Safe, NEW d \in DOMAIN drafts, SaveDraft(d)
    PROVE  Safe'
<1> DEFINE new == Upserted(drafts[d], event.tenant)
<1>1. new \in Engine!Pack
  BY Packs, UpsertedType
<1>2. /\ stored' = Append(stored, new) /\ unsaved' = unsaved \ {d}
      /\ phase = "saving" /\ UNCHANGED <<engine, event, phase, drafts, predicted>>
  BY DEF SaveDraft, engine
<1>3. stored \in Seq(Engine!Pack) /\ Len(stored) \in Nat
  BY DEF Safe, Typed
<1> HIDE DEF new
<1>4. /\ stored' \in Seq(Engine!Pack)
      /\ DOMAIN stored' = DOMAIN stored \cup {Len(stored) + 1}
      /\ stored'[Len(stored) + 1] = new
      /\ \A i \in DOMAIN stored : stored'[i] = stored[i]
  BY <1>1, <1>2, <1>3
<1>5. Typed'
  BY <1>2, <1>4 DEF Safe, Typed
<1>6. Saved' = Saved \cup {d} /\ Before' = Before
  BY OneMoreSaved DEF Safe
<1>7. \A e : Upserted(drafts[e], event.tenant)' = Upserted(drafts[e], event.tenant)
  BY <1>2 DEF Upserted
<1>8. StoreHolds'
  <2>1. \A e \in Saved' : \E i \in DOMAIN stored' : stored'[i] = Upserted(drafts[e], event.tenant)
    BY <1>4, <1>6 DEF Safe, StoreHolds, new
  <2>2. ASSUME NEW i \in DOMAIN stored', i > Before
        PROVE  \E e \in Saved' : stored'[i] = Upserted(drafts[e], event.tenant)
    BY <1>4, <1>6, <2>2 DEF Safe, StoreHolds, new
  <2>3. Before \in Int
    BY DEF Safe, StoreHolds
  <2> QED BY <1>6, <1>7, <2>1, <2>2, <2>3 DEF StoreHolds
<1>9. Facts!LoopInv'
  BY <1>2, SameLoop DEF Safe
<1>10. Tells(predicted, Foretold)'
  BY <1>2, TellsUnmoved DEF Safe
<1> QED BY <1>2, <1>5, <1>8, <1>9, <1>10 DEF Safe

\* The store lists every pack that is in force, and only those.
LEMMA ListingsAre ==
    ASSUME stored \in Seq(Engine!Pack), NEW listing \in Listings
    PROVE  /\ listing \in Seq(Engine!Pack)
           /\ \A p \in DOMAIN listing : \E i \in DOMAIN stored :
                 Listed(stored[i]) /\ listing[p] = stored[i]
           /\ \A i \in DOMAIN stored : Listed(stored[i]) =>
                 \E p \in DOMAIN listing : listing[p] = stored[i]
<1> DEFINE inForce == {i \in DOMAIN stored : Listed(stored[i])}
           n == Cardinality(inForce)
<1>1. PICK order \in [1..n -> inForce] :
         /\ \A i, j \in DOMAIN order : order[i] = order[j] => i = j
         /\ listing = [k \in DOMAIN order |-> stored[order[k]]]
  BY DEF Listings
<1>2. IsFiniteSet(inForce) /\ n \in Nat
  <2>1. Len(stored) \in Nat /\ DOMAIN stored = 1..Len(stored)
    OBVIOUS
  <2>2. IsFiniteSet(1..Len(stored))
    BY <2>1, FS_Interval
  <2>3. IsFiniteSet(inForce)
    BY <2>1, <2>2, FS_Subset
  <2> QED BY <2>3, FS_CardinalityType
<1>3. \A i \in inForce : i \in DOMAIN stored /\ Listed(stored[i]) /\ stored[i] \in Engine!Pack
  OBVIOUS
<1>4. \A i \in DOMAIN stored : Listed(stored[i]) => i \in inForce
  OBVIOUS
<1>5. Cardinality(1..n) = n
  <2>1. 1 \in Int /\ n \in Int
    BY <1>2
  <2> HIDE DEF n
  <2>2. Cardinality(1..n) = IF 1 > n THEN 0 ELSE n - 1 + 1
    BY <2>1, FS_Interval
  <2> QED BY <1>2, <2>2
<1> HIDE DEF inForce
<1>6. order \in Injection(1..n, inForce)
  BY <1>1, Fun_IsInj
<1>7. order \in Surjection(1..n, inForce)
  BY <1>2, <1>5, <1>6, FS_Injection
<1> HIDE DEF n
<1>8. \A i \in inForce : \E k \in 1..n : order[k] = i
  BY <1>7 DEF Surjection
<1>9. DOMAIN listing = 1..n /\ \A k \in 1..n : listing[k] = stored[order[k]] /\ order[k] \in inForce
  BY <1>1
<1>10. listing \in [1..n -> Engine!Pack]
  BY <1>1, <1>3
<1>11. listing \in Seq(Engine!Pack)
  BY <1>2, <1>10
<1> QED BY <1>3, <1>4, <1>8, <1>9, <1>11

LEMMA SafeBegin == Safe /\ BeginEnforcement => Safe'
<1> SUFFICES ASSUME Safe, BeginEnforcement PROVE Safe'
  OBVIOUS
<1>1. /\ phase' = "enforcing" /\ phase # "simulating" /\ unsaved = {} /\ packs' \in Listings
      /\ UNCHANGED <<event, drafts, unsaved, stored, predicted>>
  BY DEF BeginEnforcement
<1>2. stored \in Seq(Engine!Pack) /\ event \in Events
  BY DEF Safe, Typed
<1>3. /\ packs' \in Seq(Engine!Pack)
      /\ \A p \in DOMAIN packs' : \E i \in DOMAIN stored :
            Listed(stored[i]) /\ packs'[p] = stored[i]
      /\ \A i \in DOMAIN stored : Listed(stored[i]) =>
            \E p \in DOMAIN packs' : packs'[p] = stored[i]
  BY <1>1, <1>2, ListingsAre
<1>4. Facts!LoopInv'
  <2>1. Facts!Init'
    BY <1>1, <1>2, <1>3, SameEngine DEF BeginEnforcement, Facts!Init, Facts!NoMatch
  <2> QED BY <2>1, FreshEngine
<1>5. Typed' /\ StoreHolds'
  BY <1>1, StoreUnmoved DEF Safe, Typed
<1>6. Tells(predicted, Foretold)'
  BY <1>1, TellsUnmoved DEF Safe
<1>7. ListsStored'
  BY <1>1, <1>3 DEF ListsStored, Listed
<1> QED BY <1>1, <1>4, <1>5, <1>6, <1>7 DEF Safe

LEMMA SafeStep == Safe /\ [Next]_vars => Safe'
<1> SUFFICES ASSUME Safe, [Next]_vars PROVE Safe'
  OBVIOUS
<1>1. CASE UNCHANGED vars
  <2>1. UNCHANGED <<engine, packs, event, phase, drafts, unsaved, stored, predicted>>
    BY <1>1 DEF vars, engine
  <2>2. Typed' /\ StoreHolds' /\ Facts!LoopInv'
    BY <2>1, StoreUnmoved, SameLoop DEF Safe, Typed
  <2>3. phase' # "simulating" => Tells(predicted, Foretold)'
    BY <2>1, TellsUnmoved DEF Safe
  <2> QED BY <2>1, <2>2, <2>3 DEF Safe, ListsStored, Listed
<1> QED BY <1>1, SafeEngine, SafeAnswer, SafeSave, SafeBegin DEF Next

THEOREM AlwaysSafe == Spec => []Safe
<1>1. Safe /\ [Next]_vars => Safe'
  BY SafeStep
<1> QED BY SafeInit, <1>1, PTL DEF Spec

\* Every variable keeps its type, and whatever tenant a draft named, the store has it
\* under that of the path (httpapi/handler.go: the PUT handler sets it).
THEOREM TypeCorrect == Spec => []TypeOK
  BY AlwaysSafe, SafeTypeOK, PTL

--------------------------------------------------------------------------------
(* What enforcement meets                                                     *)

LEMMA PoliciesAre ==
    ASSUME NEW p \in Engine!Pack, NEW i \in DOMAIN p.policies
    PROVE  p.policies[i] \in Engine!Policy
<1>1. p.policies \in Seq(Engine!Policy)
  BY DEF Engine!Pack
<1> QED BY <1>1

\* Every policy foretold comes to apply, if only under another tenant.
LEMMA ForetoldApplies ==
    ASSUME Safe, phase = "enforcing"
    PROVE  Mirrors(Foretold, Facts!Applying)
<1> SUFFICES ASSUME NEW policy \in Foretold
             PROVE  \E other \in Facts!Applying :
                        other.id = policy.id /\ other.decision = policy.decision
  BY DEF Mirrors
<1>1. PICK d \in DOMAIN drafts : \E i \in DOMAIN drafts[d].policies :
         /\ drafts[d].enabled
         /\ policy = Taken(drafts[d], i)
         /\ Facts!Applies(policy, event)
  BY ForetoldIs DEF IsForetold
<1>2. PICK i \in DOMAIN drafts[d].policies :
         /\ drafts[d].enabled
         /\ policy = Taken(drafts[d], i)
         /\ Facts!Applies(policy, event)
  BY <1>1
<1> DEFINE saved == Upserted(drafts[d], event.tenant)
<1>3. drafts[d] \in Engine!Pack /\ event \in Engine!Event
  BY Packs
<1>4. /\ saved.tenant = event.tenant /\ saved.enabled = drafts[d].enabled
      /\ DOMAIN saved.policies = DOMAIN drafts[d].policies
  BY <1>3, UpsertedType
<1>5. /\ Taken(saved, i).id = Taken(drafts[d], i).id
      /\ Taken(saved, i).decision = Taken(drafts[d], i).decision
      /\ Facts!Applies(Taken(saved, i), event)
  BY <1>2, <1>3, SavedPolicies
<1> HIDE DEF saved
<1>6. PICK j \in DOMAIN stored : stored[j] = saved
  BY DEF Safe, StoreHolds, Saved, saved
<1>7. Listed(saved)
  BY <1>2, <1>4 DEF Listed
<1>8. PICK p \in DOMAIN packs : packs[p] = saved
  BY <1>6, <1>7 DEF Safe, ListsStored
<1>9. Taken(saved, i) \in Facts!Applying
  BY <1>2, <1>4, <1>5, <1>8, Packs, ApplyingIs
<1> QED BY <1>2, <1>5, <1>9

\* And no other policy does, if the drafts are the tenant's own and it had no others.
LEMMA AppliesForetold ==
    ASSUME Safe, phase = "enforcing",
           \A d \in DOMAIN drafts : Own(drafts[d]),
           \A i \in 1..Before : ~Listed(stored[i])
    PROVE  Mirrors(Facts!Applying, Foretold)
<1> SUFFICES ASSUME NEW policy \in Facts!Applying
             PROVE  \E other \in Foretold :
                        other.id = policy.id /\ other.decision = policy.decision
  BY DEF Mirrors
<1>1. PICK p \in DOMAIN packs : \E i \in DOMAIN packs[p].policies :
         /\ packs[p].enabled
         /\ policy = Taken(packs[p], i)
         /\ Facts!Applies(policy, event)
  BY Packs, ApplyingIs
<1>2. PICK i \in DOMAIN packs[p].policies :
         /\ packs[p].enabled
         /\ policy = Taken(packs[p], i)
         /\ Facts!Applies(policy, event)
  BY <1>1
<1>3. PICK j \in DOMAIN stored : Listed(stored[j]) /\ packs[p] = stored[j]
  BY DEF Safe, ListsStored
<1>4. j > Before
  <2>1. DOMAIN stored = 1..Len(stored) /\ Len(stored) \in Nat /\ Before \in Int
    BY DEF Safe, Typed, StoreHolds
  <2> QED BY <1>3, <2>1
<1>5. PICK d \in DOMAIN drafts : stored[j] = Upserted(drafts[d], event.tenant)
  BY <1>4 DEF Safe, StoreHolds, Saved
<1>6. drafts[d] \in Engine!Pack /\ event \in Engine!Event /\ Own(drafts[d])
  BY Packs
<1>7. packs[p].enabled = drafts[d].enabled /\ i \in DOMAIN drafts[d].policies
  BY <1>2, <1>3, <1>5, <1>6, UpsertedType
<1>8. /\ policy.id = Taken(drafts[d], i).id
      /\ policy.decision = Taken(drafts[d], i).decision
      /\ Facts!Applies(Taken(drafts[d], i), event)
  BY <1>2, <1>3, <1>5, <1>6, <1>7, SavedPolicies
<1>9. Taken(drafts[d], i) \in Foretold
  BY <1>2, <1>7, <1>8, ForetoldIs DEF IsForetold
<1> QED BY <1>8, <1>9

LEMMA SafePredicts == Safe => SimulationPredicts
<1> SUFFICES ASSUME Safe, phase = "enforcing", Engine!Done
             PROVE  /\ Engine!Rank(predicted.decision) <= Engine!Rank(best.decision)
                    /\ Ids(predicted) \subseteq Ids(best)
                    /\ /\ \A i \in DOMAIN drafts : Own(drafts[i])
                       /\ \A i \in 1..Before : ~Listed(stored[i])
                       => best.decision = predicted.decision /\ Ids(best) = Ids(predicted)
  BY DEF SimulationPredicts
<1>1. Tells(best, Facts!Applying) /\ Tells(predicted, Foretold)
  BY EngineTells DEF Safe
<1>2. Mirrors(Foretold, Facts!Applying)
  BY ForetoldApplies
<1>3. /\ Engine!Rank(predicted.decision) <= Engine!Rank(best.decision)
      /\ Ids(predicted) \subseteq Ids(best)
  BY <1>1, <1>2, MoreIsStronger
<1>4. ASSUME \A i \in DOMAIN drafts : Own(drafts[i]),
             \A i \in 1..Before : ~Listed(stored[i])
      PROVE  best.decision = predicted.decision /\ Ids(best) = Ids(predicted)
  BY <1>1, <1>2, <1>4, AppliesForetold, SameIsSame
<1> QED BY <1>3, <1>4

\* What the simulation foretells is the least that enforcement of the saved drafts then
\* does, and exactly that when the drafts are the tenant's own and alone in force, for any
\* drafts saved and listed in any order (policy/simulation.go:17-27).
THEOREM SimulationAlwaysPredicts == Spec => []SimulationPredicts
  BY AlwaysSafe, SafePredicts, PTL

================================================================================
