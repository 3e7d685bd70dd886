CONSTANTS
    Strings <- MCStrings
    Fold <- MCFold
    Covers <- MCCovers
    ExactFields = {"type"}
    FoldedFields = {"tool"}
    ListFields = {"labels"}
    PatternFields = {"resource"}
    PackLists <- MCPackLists
    Events <- MCEvents
SPECIFICATION Spec
INVARIANTS
    TypeOK
    DecisionIsStrongest
    ReasonFollowsPriority
    MatchedIsApplying
CHECK_DEADLOCK FALSE
