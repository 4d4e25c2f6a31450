SPECIFICATION Spec
CONSTANTS
    c1 = c1
    c2 = c2
    c3 = c3
    none = none
    Calls <- MCCalls
    NoCall = none
    MetadataTTL = 2
    PreparedTTL = 1
    RefreshSkew = 1
    Never = 9
    Permits = 1
    Scenarios <- MCScenarios
INVARIANTS TypeOK SingleFlight NotServedAgain
PROPERTY EveryCallReturns
CHECK_DEADLOCK FALSE
