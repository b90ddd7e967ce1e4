SPECIFICATION FairDerivation
CONSTANTS
    Components = {1, 2, 3, 4}
    Symbols = {1}
    Artifacts = {1, 2}
    Versions = {"v1", "v2"}
    Initial <- MCInitial
    Late <- MCLate
    Limits <- MCLimits
    Orders <- MCOrders
    Rank <- MCRank
INVARIANTS CompleteIsLeastFixedPoint LineageIsGrounded RebuildsRepeat
PROPERTIES DerivationsEnd
CHECK_DEADLOCK FALSE
