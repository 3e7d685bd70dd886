CONSTANTS
    Strings <- MCStrings
    Trim <- MCTrim
    Star = "*"
    Unreadable = Unreadable
    Configs <- MCConfigs
    Requests <- MCRequests
SPECIFICATION Spec
INVARIANTS
    TypeOK
    ServesWhatIsConfigured
    TenantsAreSeparate
    
CHECK_DEADLOCK FALSE
