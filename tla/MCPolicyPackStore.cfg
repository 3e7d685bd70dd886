CONSTANTS
    Admins = {a1, a2}
    Packs = {base1, base2, own}
    Baseline = {base1, base2}
    Contents = {template, edited}
    Template = template
    NoPack = NoPack
    MaxStarts = 2
SYMMETRY Interchangeable
SPECIFICATION Spec
INVARIANTS
    TypeOK
    BaselineServed
    AnswerShowsWrite
    MemoryKeepsPromises
CHECK_DEADLOCK FALSE
