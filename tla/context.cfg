SPECIFICATION Spec
CONSTANTS
    Evidence = {1, 2, 3}
    Facts = {4, 5, 6}
    Entities = {7, 8, 9}
    Rests <- MCRests
    Subject <- MCSubject
    Object <- MCObject
    Inputs <- MCInputs
    Initial = {4, 5}
    Questions = {"all", "some"}
    Signals = {"full", "degraded", "limited"}
    Score <- MCScore
    Reasons <- MCReasons
    MaxCandidates = 2
    Unit = 2
    Aspects <- MCAspects
    ArtifactOf <- MCArtifactOf
    Policies = {"open", "strict", "closed"}
    Retains <- MCRetains
    Structured <- MCStructured
    Resources <- MCResources
    Cost <- MCCost
    RelationCost <- MCRelationCost
    Limits <- MCLimits
    MaxCalls = 3
    MaxRestarts = 1
INVARIANTS
    WalksAccountForAll
    DeliveredIsSupported
    UndegradedIsComplete
