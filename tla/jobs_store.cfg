SPECIFICATION Spec
CONSTANTS
    Jobs = {j1}
    Owners = {o1, o2}
    Lease = 2
    MaxDelay = 1
    MaxTime = 4
    MaxAttempts = 3
    MaxCount = 1
SYMMETRY Symmetry
INVARIANTS StageHistoryConsistent LeasesMatchState
PROPERTIES NoEarlyTakeover ProgressIsDurable ImplementsLifecycle
CHECK_DEADLOCK FALSE
