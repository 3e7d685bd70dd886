CONSTANTS
    Executions = {x1, x2}
    Tenants = {"t1", "t2"}
    Events = {"read", "write", "foreign", "blank"}
    TenantOf <- TenantOfEvent
    BindingOf <- BindingOfEvent
    Refused = {"blank"}
    Outcomes = {"require_approval", "record"}
    Actors = {a1}
    Nobody = Nobody
    NoRequest = NoRequest
    NoId = NoId
    TTL = 0
    MaxRequests = 2
    MaxTime = 1
    Starts <- StartsWithRead
    MaxRestarts = 1
SPECIFICATION FairSpec
INVARIANTS
    TypeOK
    
    
    RecordsAreBacked
    OrphanHasCause
PROPERTIES
    ExecutionsAdvance
    
CHECK_DEADLOCK FALSE
