SPECIFICATION Spec
CONSTANTS
    Snapshots = {s1, s2}
    Profiles = {p1, p2}
    Bundles <- AllBundles
    EmbeddingMode = "enabled"
SYMMETRY Symmetry
INVARIANTS TextEquivalent CompleteIsEmbedded VectorsInTheirSpace ReuseKeepsProvenance
