SPECIFICATION FairSpec
CONSTANTS
    Jobs = {j1, j2}
    Workers = {w1, w2}
    Resumers = {r1}
    Owners = {w1, w2, r1}
    TheSource = src
    Sources <- MCSources
    SourceOf <- MCSourceOf
    EmbeddingMode = "enabled"
    MaxFaults = 2
    Rivals = {j2}
INVARIANTS StagesAreBacked ActiveViewIsProjected EndedJobsArePublished HoldersKeepStep
PROPERTIES AcceptedJobsEnd
CHECK_DEADLOCK FALSE
