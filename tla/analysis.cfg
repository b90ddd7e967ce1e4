SPECIFICATION FairSpec
CONSTANTS
    MaxPath = 2
    Contents = {"plain", "importing"}
    Importing = "importing"
    Imports <- MCImports
    Analyzers = {1, 2}
    Selected <- MCSelected
    Versions = {1}
    Workers = {w1, w2}
    InitialTrees <- MCInitialTrees
    MaxRuns = 2
    MaxEdits = 2
INVARIANTS CompletedRunsAreEquivalent ReuseRespectsDependencies
PROPERTIES RunsEnd
CHECK_DEADLOCK FALSE
