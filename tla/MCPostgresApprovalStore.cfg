CONSTANTS
    Callers = {c1, c2}
    Tenants = {t1}
    Events = {e1, e2}
    Actors = {a1}
    Nobody = Nobody
    NoRequest = NoRequest
    NoKey = NoKey
    NoArg = NoArg
    TTL = 1
    ListLimit = 1
    MaxRequests = 2
    MaxTime = 2
SYMMETRY Interchangeable
SPECIFICATION Spec
INVARIANTS
    TypeOK
    DeadlineRespected
    ToldSettledIsSettled
PROPERTIES
    NeverReopened
    ImplementsRevisable
