SPECIFICATION FairSpec
CONSTANTS
    c1 = c1
    c2 = c2
    Many = 2
    Calls = {c1, c2}
    Batches <- MCBatches
    Concurrency = 2
    MaxAttempts = 2
    MaxRequests = 3
    MaxTokens = 2
    Estimate = 1
    MaxActual = 2
    Usages = {0, 2}
INVARIANTS BudgetConserved SpendingBounded SuccessIsComplete ErrorIsCause
PROPERTIES EveryCallReturns
CHECK_DEADLOCK FALSE
