CONSTANTS
    Strings <- MCStrings
    Fold <- MCFold
    Covers = {}
    ExactFields = {}
    FoldedFields = {"tool"}
    ListFields = {}
    PatternFields = {}
    PackLists <- MCPackLists
    Events <- MCEvents
    Others <- MCOthers
SPECIFICATION Spec
INVARIANTS
    TypeOK
    
CHECK_DEADLOCK FALSE
