SPECIFICATION FairSpec
CONSTANTS
    p1 = p1
    p2 = p2
    Callers = {p1, p2}
    Catalogs <- MCCatalogs
    MaxCalls = 3
    MaxFaults = 2
INVARIANTS SchemaIsHistory ReportsAreTrue
PROPERTIES CallsEnd
CHECK_DEADLOCK FALSE
