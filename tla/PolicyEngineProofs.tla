--------------------------- MODULE PolicyEngineProofs ---------------------------
(****************************************************************************)
(* Proofs about PolicyEngine, for every list of packs, every event and      *)
(* every notion of string matching.  The flattening loop is shown to hold   *)
(* exactly the policies in force, the evaluation loop to hold the strongest *)
(* of the applying policies it has passed; together, once the loop is done, *)
(* the decision is the strongest that applies, whatever order packs and     *)
(* policies came in.                                                        *)
(****************************************************************************)
EXTENDS PolicyEngine, TLAPS

Elements(seq) == {seq[i] : i \in DOMAIN seq}

LEMMA ElementsOfConcat ==
    ASSUME NEW S, NEW a \in Seq(S), NEW b \in Seq(S)
    PROVE  Elements(a \o b) = Elements(a) \cup Elements(b)
<1>1. ASSUME NEW x \in Elements(a \o b)
      PROVE  x \in Elements(a) \cup Elements(b)
  BY <1>1 DEF Elements
<1>2. ASSUME NEW x \in Elements(a)
      PROVE  x \in Elements(a \o b)
  BY <1>2 DEF Elements
<1>3. ASSUME NEW x \in Elements(b)
      PROVE  x \in Elements(a \o b)
  <2>1. PICK i \in DOMAIN b : x = b[i]
    BY <1>3 DEF Elements
  <2>2. Len(a) + i \in DOMAIN (a \o b) /\ (a \o b)[Len(a) + i] = b[i]
    BY <2>1
  <2> QED BY <2>1, <2>2 DEF Elements
<1> QED BY <1>1, <1>2, <1>3

LEMMA StampedType ==
    ASSUME NEW policy \in Policy, NEW from \in Pack
    PROVE  Stamped(policy, from) \in Policy
  BY InputAssumption DEF Stamped, Policy, Pack

LEMMA StampedPoliciesType ==
    ASSUME NEW p \in Pack
    PROVE  /\ StampedPolicies(p) \in Seq(Policy)
           /\ Elements(StampedPolicies(p)) =
                {Stamped(p.policies[i], p) : i \in DOMAIN p.policies}
<1>1. p.policies \in Seq(Policy)
  BY DEF Pack
<1>2. \A i \in DOMAIN p.policies : Stamped(p.policies[i], p) \in Policy
  BY <1>1, StampedType
<1>3. StampedPolicies(p) \in [1..Len(p.policies) -> Policy]
  BY <1>1, <1>2 DEF StampedPolicies
<1>4. StampedPolicies(p) \in Seq(Policy)
  BY <1>1, <1>3
<1>5. Elements(StampedPolicies(p)) = {Stamped(p.policies[i], p) : i \in DOMAIN p.policies}
  BY DEF Elements, StampedPolicies
<1> QED BY <1>4, <1>5

LEMMA RankKnown ==
    \A d : Rank(d) \in Nat /\ (Rank(d) > 0 => d \in Ranked) /\ (d \in Ranked => Rank(d) >= 100)
  BY DEF Rank, Ranked

LEMMA ReplacementRanked ==
    ASSUME NEW policy, NEW current \in Ranked, NEW priority,
           ShouldReplace(policy, current, priority)
    PROVE  policy.decision \in Ranked
<1>1. Rank(current) >= 100 /\ Rank(current) \in Nat /\ Rank(policy.decision) \in Nat
  BY RankKnown
<1>2. Rank(policy.decision) >= 100
  BY <1>1 DEF ShouldReplace
<1> QED BY <1>1, <1>2, RankKnown

--------------------------------------------------------------------------------

LEMMA TypeInit == Init => TypeOK
<1> SUFFICES ASSUME Init PROVE TypeOK
  OBVIOUS
<1>1. packs \in Seq(Pack)
  BY InputAssumption DEF Init
<1>2. pack \in 1..(Len(packs) + 1)
  <2>1. Len(packs) \in Nat
    BY <1>1
  <2> QED BY <2>1 DEF Init
<1>3. policies \in Seq(Policy) /\ next \in 0..(Len(policies) + 1)
  BY DEF Init
<1>4. best.decision \in Ranked
  BY DEF Init, NoMatch, Ranked
<1> QED BY <1>2, <1>3, <1>4 DEF Init, TypeOK

LEMMA LookedAtType ==
    ASSUME TypeOK, next \in DOMAIN policies
    PROVE  /\ policies[next] \in Policy
           /\ policies[next].id \in Strings /\ policies[next].priority \in Int
<1>1. policies[next] \in Policy
  BY DEF TypeOK
<1> QED BY <1>1 DEF Policy

LEMMA TypeStep == TypeOK /\ [Next]_vars => TypeOK'
<1> SUFFICES ASSUME TypeOK, [Next]_vars PROVE TypeOK'
  OBVIOUS
<1>0. packs \in Seq(Pack)
  BY InputAssumption DEF TypeOK
<1>1. CASE UNCHANGED vars
  BY <1>1 DEF TypeOK, vars
<1>2. CASE Flatten
  <2>1. packs[pack] \in Pack /\ StampedPolicies(packs[pack]) \in Seq(Policy)
    BY <1>0, <1>2, StampedPoliciesType DEF Flatten
  <2>2. policies' \in Seq(Policy)
    <3>1. policies \in Seq(Policy)
      BY DEF TypeOK
    <3> HIDE DEF TypeOK
    <3>2. policies \o StampedPolicies(packs[pack]) \in Seq(Policy)
      BY <2>1, <3>1
    <3> QED BY <1>2, <3>1, <3>2 DEF Flatten
  <2>3. pack' \in 1..(Len(packs') + 1)
    BY <1>0, <1>2 DEF Flatten, TypeOK
  <2>4. next' \in 0..(Len(policies') + 1)
    BY <1>2, <2>2 DEF Flatten
  <2> QED BY <1>2, <2>2, <2>3, <2>4 DEF Flatten, TypeOK
<1>3. CASE BeginEvaluate
  BY <1>3 DEF BeginEvaluate, TypeOK
<1>4. CASE Skip
  BY <1>4 DEF Skip, TypeOK
<1>5. CASE Replace
  <2>1. policies[next] \in Policy /\ policies[next].priority \in Int
    BY <1>5, LookedAtType DEF Replace
  <2>2. policies[next].decision \in Ranked
    BY <1>5, ReplacementRanked DEF Replace, TypeOK
  <2> QED BY <1>5, <2>1, <2>2 DEF Replace, TypeOK
<1>6. CASE Note
  BY <1>6 DEF Note, TypeOK
<1> QED BY <1>1, <1>2, <1>3, <1>4, <1>5, <1>6 DEF Next

\* The loop variables stay in range and the result is always a decision the rest of
\* the system knows, even when a policy carries one it does not (engine.go:34-55).
THEOREM TypeCorrect == Spec => []TypeOK
<1>1. TypeOK /\ [Next]_vars => TypeOK'
  BY TypeStep
<1> QED BY TypeInit, <1>1, PTL DEF Spec

--------------------------------------------------------------------------------

\* What the flattening loop takes from the p-th pack.
PoliciesFrom(p) ==
    {Stamped(packs[p].policies[i], packs[p]) : i \in DOMAIN packs[p].policies}

LEMMA InForceGrows ==
    ASSUME NEW n \in Nat
    PROVE  InForce(n + 1) = InForce(n) \cup
               (IF packs[n + 1].enabled THEN PoliciesFrom(n + 1) ELSE {})
<1> DEFINE Taken(k) == {q \in 1..k : packs[q].enabled}
<1>1. \A k : InForce(k) = UNION {PoliciesFrom(p) : p \in Taken(k)}
  BY DEF InForce, PoliciesFrom
<1>2. Taken(n + 1) = Taken(n) \cup (IF packs[n + 1].enabled THEN {n + 1} ELSE {})
  OBVIOUS
<1> HIDE DEF Taken
<1> QED BY <1>1, <1>2

LEMMA FlattenedInit == Init => FlattenedSoFar
<1> SUFFICES ASSUME Init PROVE FlattenedSoFar
  OBVIOUS
<1>1. InForce(0) = {}
  BY DEF InForce
<1> QED BY <1>1 DEF Init, FlattenedSoFar

LEMMA FlattenedStep == TypeOK /\ FlattenedSoFar /\ [Next]_vars => FlattenedSoFar'
<1> SUFFICES ASSUME TypeOK, FlattenedSoFar, [Next]_vars PROVE FlattenedSoFar'
  OBVIOUS
<1>1. CASE Flatten
  <2>1. packs[pack] \in Pack /\ pack \in Nat /\ pack - 1 \in Nat
    <3>1. packs \in Seq(Pack)
      BY InputAssumption DEF TypeOK
    <3> QED BY <1>1, <3>1 DEF Flatten
  <2>2. InForce(pack) = InForce(pack - 1) \cup
            (IF packs[pack].enabled THEN PoliciesFrom(pack) ELSE {})
    <3>1. pack = (pack - 1) + 1
      BY <2>1
    <3> QED BY <2>1, <3>1, InForceGrows
  <2>3. Elements(policies') = InForce(pack)
    <3>1. Elements(policies) = InForce(pack - 1) /\ policies \in Seq(Policy)
      BY DEF FlattenedSoFar, Elements, TypeOK
    <3>2. CASE packs[pack].enabled
      <4>1. policies' = policies \o StampedPolicies(packs[pack])
        BY <1>1, <3>2 DEF Flatten
      <4>2. Elements(StampedPolicies(packs[pack])) = PoliciesFrom(pack)
        BY <2>1, StampedPoliciesType DEF PoliciesFrom
      <4>3. StampedPolicies(packs[pack]) \in Seq(Policy)
        BY <2>1, StampedPoliciesType
      <4> QED BY <2>2, <3>1, <3>2, <4>1, <4>2, <4>3, ElementsOfConcat
    <3>3. CASE ~packs[pack].enabled
      BY <1>1, <2>2, <3>1, <3>3 DEF Flatten
    <3> QED BY <3>2, <3>3
  <2>4. InForce(pack - 1)' = InForce(pack)
    <3>1. pack' - 1 = pack
      BY <1>1, <2>1 DEF Flatten
    <3> QED BY <1>1, <3>1 DEF Flatten, InForce
  <2>5. next' = 0
    BY <1>1 DEF Flatten
  <2> QED BY <2>3, <2>4, <2>5 DEF FlattenedSoFar, Elements
<1>2. ASSUME UNCHANGED <<packs, pack, policies>>,
             next' # 0 => pack = Len(packs) + 1
      PROVE  FlattenedSoFar'
  <2>1. InForce(pack - 1)' = InForce(pack - 1)
    BY <1>2 DEF InForce
  <2> QED BY <1>2, <2>1 DEF FlattenedSoFar
<1>3. CASE BeginEvaluate
  BY <1>2, <1>3 DEF BeginEvaluate
<1>4. CASE UNCHANGED vars
  BY <1>2, <1>4 DEF FlattenedSoFar, vars
<1>5. ASSUME Skip \/ Replace \/ Note PROVE UNCHANGED <<packs, pack, policies>> /\ next # 0
  BY <1>5 DEF Skip, Replace, Note, TypeOK
<1>6. CASE Skip \/ Replace \/ Note
  BY <1>2, <1>5, <1>6 DEF FlattenedSoFar
<1> QED BY <1>1, <1>3, <1>4, <1>6 DEF Next

--------------------------------------------------------------------------------

\* The matched ids are those of the applying policies passed so far.
MatchedSoFar ==
    /\ best.matched \in Seq(Strings)
    /\ Elements(best.matched) = {policy.id : policy \in Seen}

LoopInv == TypeOK /\ FlattenedSoFar /\ StrongestSoFar /\ ReasonSoFar /\ MatchedSoFar

LEMMA RankInjective ==
    ASSUME NEW a \in Ranked, NEW b, Rank(a) = Rank(b)
    PROVE  a = b
  BY DEF Rank, Ranked

LEMMA NothingSeenYet ==
    ASSUME TypeOK, next \in {0, 1}
    PROVE  Seen = {}
  BY DEF Seen, TypeOK

\* Passing a policy adds it to what has been seen exactly if it applies.
LEMMA SeenGrows ==
    ASSUME TypeOK, next \in DOMAIN policies,
           next' = next + 1, UNCHANGED <<policies, event>>
    PROVE  Seen' = Seen \cup (IF Applies(policies[next], event) THEN {policies[next]} ELSE {})
<1> DEFINE Past(n) == {j \in DOMAIN policies : j < n /\ Applies(policies[j], event)}
<1>1. Past(next + 1) = Past(next) \cup (IF Applies(policies[next], event) THEN {next} ELSE {})
  BY DEF TypeOK
<1>2. Seen = {policies[i] : i \in Past(next)}
  BY DEF Seen
<1>3. Seen' = {policies[i] : i \in Past(next + 1)}
  BY DEF Seen, Applies
<1> HIDE DEF Past
<1> QED BY <1>1, <1>2, <1>3

LEMMA SeenType ==
    ASSUME TypeOK, NEW policy \in Seen
    PROVE  policy \in Policy /\ policy.priority \in Int
<1>1. policy \in Policy
  BY DEF Seen, TypeOK
<1> QED BY <1>1 DEF Policy

LEMMA LoopInit == Init => LoopInv
<1> SUFFICES ASSUME Init PROVE LoopInv
  OBVIOUS
<1>1. TypeOK /\ FlattenedSoFar
  BY TypeInit, FlattenedInit
<1>2. Seen = {}
  BY <1>1, NothingSeenYet DEF Init
<1>3. best.decision = "allow" /\ best.matched = <<>> /\ bestPriority = -1
  BY DEF Init, NoMatch
<1>4. Elements(<<>>) = {}
  BY DEF Elements
<1> QED BY <1>1, <1>2, <1>3, <1>4
        DEF LoopInv, StrongestSoFar, ReasonSoFar, MatchedSoFar

\* A step that passes no applying policy keeps what the loop knows.
LEMMA LoopUnmoved ==
    ASSUME StrongestSoFar, ReasonSoFar, MatchedSoFar,
           Seen' = Seen, UNCHANGED <<best, bestPriority>>
    PROVE  StrongestSoFar' /\ ReasonSoFar' /\ MatchedSoFar'
  BY DEF StrongestSoFar, ReasonSoFar, MatchedSoFar, Elements

LEMMA MatchedAppended ==
    ASSUME TypeOK, MatchedSoFar, next \in DOMAIN policies,
           best'.matched = Append(best.matched, policies[next].id),
           Seen' = Seen \cup {policies[next]}
    PROVE  MatchedSoFar'
<1>1. policies[next].id \in Strings
  BY LookedAtType
<1>2. Elements(Append(best.matched, policies[next].id))
        = Elements(best.matched) \cup {policies[next].id}
  BY <1>1 DEF MatchedSoFar, Elements
<1>3. Append(best.matched, policies[next].id) \in Seq(Strings)
  BY <1>1 DEF MatchedSoFar
<1>4. {policy.id : policy \in Seen'} = {policy.id : policy \in Seen} \cup {policies[next].id}
  OBVIOUS
<1>5. Elements(best.matched)' = Elements(Append(best.matched, policies[next].id))
  BY DEF Elements
<1>6. Elements(best.matched)' = {policy.id : policy \in Seen'}
  <2>1. Elements(best.matched) = {policy.id : policy \in Seen}
    BY DEF MatchedSoFar
  <2> QED BY <1>2, <1>4, <1>5, <2>1
<1> QED BY <1>3, <1>6 DEF MatchedSoFar

LEMMA LoopStep == LoopInv /\ [Next]_vars => LoopInv'
<1> SUFFICES ASSUME LoopInv, [Next]_vars PROVE LoopInv'
  OBVIOUS
<1>0. TypeOK /\ TypeOK' /\ FlattenedSoFar'
  BY TypeStep, FlattenedStep DEF LoopInv
<1>1. CASE Flatten \/ BeginEvaluate
  <2>1. Seen = {} /\ Seen' = {}
    BY <1>0, <1>1, NothingSeenYet DEF Flatten, BeginEvaluate, Seen, TypeOK
  <2>2. UNCHANGED <<best, bestPriority>>
    BY <1>1 DEF Flatten, BeginEvaluate
  <2> QED BY <1>0, <2>1, <2>2, LoopUnmoved DEF LoopInv
<1>2. CASE Skip
  <2>1. Seen' = Seen
    BY <1>0, <1>2, SeenGrows DEF Skip
  <2> QED BY <1>0, <1>2, <2>1, LoopUnmoved DEF LoopInv, Skip
<1>3. CASE Replace
  <2> DEFINE won == policies[next]
  <2>1. won \in Policy /\ won.priority \in Int
    BY <1>0, <1>3, LookedAtType DEF Replace
  <2>2. Seen' = Seen \cup {won}
    BY <1>0, <1>3, SeenGrows DEF Replace
  <2>3. /\ ShouldReplace(won, best.decision, bestPriority)
        /\ best'.decision = won.decision
        /\ best'.reason = ReasonOf(won)
        /\ best'.matched = Append(best.matched, won.id)
        /\ bestPriority' = won.priority
    BY <1>3 DEF Replace
  <2>4. best.decision \in Ranked /\ bestPriority \in Int
    BY <1>0 DEF TypeOK
  <2>5. Rank(best.decision) \in Nat /\ Rank(won.decision) \in Nat
        /\ \A policy \in Seen : Rank(policy.decision) \in Nat
    BY RankKnown
  <2> HIDE DEF won
  <2>6. Rank(best.decision) <= Rank(won.decision)
    BY <2>3, <2>5 DEF ShouldReplace
  <2>7. StrongestSoFar'
    BY <2>2, <2>3, <2>5, <2>6 DEF LoopInv, StrongestSoFar
  <2>8. ASSUME NEW policy \in Seen, policy.decision = won.decision
        PROVE  policy.priority <= won.priority
    <3>1. Rank(policy.decision) <= Rank(best.decision)
      BY DEF LoopInv, StrongestSoFar
    <3>2. Rank(won.decision) = Rank(best.decision)
      BY <2>5, <2>6, <2>8, <3>1
    <3>3. won.decision = best.decision
      BY <2>4, <3>2, RankInjective
    <3>4. policy.priority <= bestPriority /\ won.priority > bestPriority
      BY <2>3, <2>5, <2>8, <3>2, <3>3 DEF LoopInv, ReasonSoFar, ShouldReplace
    <3>5. policy.priority \in Int
      BY <1>0, SeenType
    <3> QED BY <2>1, <2>4, <3>4, <3>5
  <2>9. ReasonSoFar'
    BY <2>1, <2>2, <2>3, <2>8 DEF ReasonSoFar
  <2>10. MatchedSoFar'
    BY <1>0, <1>3, <2>2, <2>3, MatchedAppended DEF LoopInv, Replace, won
  <2> QED BY <1>0, <2>7, <2>9, <2>10 DEF LoopInv
<1>4. CASE Note
  <2> DEFINE lost == policies[next]
  <2>1. lost \in Policy /\ lost.priority \in Int
    BY <1>0, <1>4, LookedAtType DEF Note
  <2>2. Seen' = Seen \cup {lost}
    BY <1>0, <1>4, SeenGrows DEF Note
  <2>3. /\ ~ShouldReplace(lost, best.decision, bestPriority)
        /\ best' = [best EXCEPT !.matched = Append(@, lost.id)]
        /\ bestPriority' = bestPriority
    BY <1>4 DEF Note
  <2>4. Rank(best.decision) \in Nat /\ Rank(lost.decision) \in Nat
    BY RankKnown
  <2>5. best.decision \in Ranked /\ bestPriority \in Int
    BY <1>0 DEF TypeOK
  <2> HIDE DEF lost
  <2>6. Rank(lost.decision) <= Rank(best.decision)
    BY <2>3, <2>4 DEF ShouldReplace
  <2>7. lost.decision = best.decision => lost.priority <= bestPriority
    BY <2>1, <2>3, <2>5 DEF ShouldReplace
  <2>8. StrongestSoFar' /\ ReasonSoFar'
    BY <2>2, <2>3, <2>6, <2>7 DEF LoopInv, StrongestSoFar, ReasonSoFar
  <2>9. MatchedSoFar'
    BY <1>0, <1>4, <2>2, <2>3, MatchedAppended DEF LoopInv, Note, lost
  <2> QED BY <1>0, <2>8, <2>9 DEF LoopInv
<1>5. CASE UNCHANGED vars
  <2>1. Seen' = Seen /\ UNCHANGED <<best, bestPriority>>
    BY <1>5 DEF vars, Seen, Applies
  <2> QED BY <1>0, <2>1, LoopUnmoved DEF LoopInv
<1> QED BY <1>1, <1>2, <1>3, <1>4, <1>5 DEF Next

--------------------------------------------------------------------------------

\* What the loop knows of the policies it has passed holds after every step.
THEOREM LoopAlwaysKnows == Spec => []LoopInv
<1>1. LoopInv /\ [Next]_vars => LoopInv'
  BY LoopStep
<1> QED BY LoopInit, <1>1, PTL DEF Spec

\* When the loop is done it has passed every policy in force that applies.
LEMMA DoneSawAll ==
    ASSUME LoopInv, Done
    PROVE  Seen = Applying
<1>1. TypeOK /\ FlattenedSoFar
  BY DEF LoopInv
<1>2. next # 0 /\ \A j \in DOMAIN policies : j < next
  BY <1>1 DEF Done, TypeOK
<1>3. Seen = {policy \in Elements(policies) : Applies(policy, event)}
  BY <1>2 DEF Seen, Elements
<1>4. Elements(policies) = InForce(Len(packs))
  <2>1. pack = Len(packs) + 1 /\ Len(packs) \in Nat
    <3>1. packs \in Seq(Pack)
      BY <1>1, InputAssumption DEF TypeOK
    <3> QED BY <1>1, <1>2, <3>1 DEF FlattenedSoFar
  <2>2. pack - 1 = Len(packs)
    BY <2>1
  <2> QED BY <1>1, <2>2 DEF FlattenedSoFar, Elements
<1> QED BY <1>3, <1>4 DEF Applying

\* What the loop knows is enough for what is said of its result.
LEMMA LoopTells ==
    ASSUME LoopInv
    PROVE  DecisionIsStrongest /\ MatchedIsApplying
<1>1. DecisionIsStrongest
  BY DoneSawAll DEF LoopInv, StrongestSoFar, DecisionIsStrongest
<1>2. MatchedIsApplying
  BY DoneSawAll DEF LoopInv, MatchedSoFar, MatchedIsApplying, Elements
<1> QED BY <1>1, <1>2

\* The decision is the strongest of the policies that apply, whatever order the packs
\* were listed in, whatever their number and however strings match (engine.go:34-69).
THEOREM DecisionAlwaysStrongest == Spec => []DecisionIsStrongest
<1>1. LoopInv => DecisionIsStrongest
  BY LoopTells
<1> QED BY <1>1, LoopAlwaysKnows, PTL

\* Exactly the policies that apply are reported as matched (engine.go:42-44).
THEOREM MatchedAlwaysApplying == Spec => []MatchedIsApplying
<1>1. LoopInv => MatchedIsApplying
  BY LoopTells
<1> QED BY <1>1, LoopAlwaysKnows, PTL

\* The reason comes from the highest-priority policy among those that asked for the
\* decision taken, unless these are allow policies below 0 and nothing else
\* (engine.go:39-53).
THEOREM ReasonAlwaysFollows == Spec => []ReasonFollowsPriority
<1>1. ASSUME LoopInv, Done, NEW some \in Applying, some.decision = best.decision,
             some.decision # "allow" \/ some.priority >= 0
      PROVE  \E policy \in Applying :
                /\ policy.decision = best.decision /\ best.reason = ReasonOf(policy)
                /\ \A other \in Applying :
                      other.decision = best.decision => other.priority <= policy.priority
  <2>1. Seen = Applying /\ ReasonSoFar
    BY <1>1, DoneSawAll DEF LoopInv
  <2>2. some.priority \in Int /\ some.priority <= bestPriority
    BY <1>1, <2>1, SeenType DEF LoopInv, ReasonSoFar
  <2>3. ~(best.decision = "allow" /\ bestPriority = -1)
    BY <1>1, <2>2
  <2> QED BY <2>1, <2>3 DEF ReasonSoFar
<1>2. LoopInv => ReasonFollowsPriority
  BY <1>1 DEF ReasonFollowsPriority
<1> QED BY <1>2, LoopAlwaysKnows, PTL

================================================================================
