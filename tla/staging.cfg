SPECIFICATION StagingSpec
CONSTANTS
    Requests = {r1, r2}
    Identities = {i1, i2}
    Configs = {c1, c2}
    NoConfig = NoConfig
SYMMETRY Symmetry
INVARIANTS LoadableUntilPowerFails DirectJobsSurvive
CHECK_DEADLOCK FALSE
