SPECIFICATION FairSpec
CONSTANTS
    Queries = {q1}
    Snapshots = {"s1", "s2"}
    Evidence = {1, 2, 3, 4, 5}
    SnapshotOf <- MCSnapshotOf
    Decision <- MCDecision
    PolicyDecision <- MCPolicyDecision
    TextOf <- MCTextOf
    ArtifactOf <- MCArtifactOf
    TopK = 2
    TextScore <- MCTextScore
    Parts = 10
    ExactTerms <- MCExactTerms
    Participants <- MCParticipants
    Relations <- MCRelations
    RRFK = 60
    Weight <- MCWeight
    Scale = 495593280
    MaxCandidates = 3
    RelationBudget = 5
    RelationFanOut = 2
    MaxUnits = 2
    MaxUnitsPerArtifact = 1
    Kinds = {"inventory", "execution"}
    Static = {"inventory"}
    SignalsColumn = TRUE
    MaxActivations = 2
    MaxFaults = 2
INVARIANTS FusionRespectsSignals TransferIsAuthorized AnswersRestOnEvidence SpendingIsRecorded CreateIsDurable
PROPERTIES CreatesReturn
CHECK_DEADLOCK FALSE
