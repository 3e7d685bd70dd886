CONSTANTS
    Writers = {w1, w2}
    Readers = {r1}
    Fields = {"tenant_id"}
    Values = {t1, t2}
    AnyValue = AnyValue
    Limits = {0, 1, 3}
    Offsets = {0, 7}
    DefaultLimit = 1
    MaxLimit = 2
    MaxInt = 7
    MaxRecords = 3
    MaxTime = 2
SYMMETRY Interchangeable
SPECIFICATION Spec
INVARIANTS
    TypeOK
    NothingMissed
    HasMoreIsTrue
    RecordsAreDistinct
PROPERTY ImplementsTrail
