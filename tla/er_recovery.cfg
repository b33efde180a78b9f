SPECIFICATION Spec
CONSTANTS
    Runs = {"r1"}
    MentionIds = {1, 2}
    Texts <- ThreeTexts
    RawTypes <- OneType
    NormalizeType <- MCNormalizeType
    Canonicals = {"k1", "k2", "k3"}
    StructuredRuns = {"s1", "s2"}
    Datasets = {"d1", "d2"}
    Entity <- MCEntity
    Shown <- MCShown
    RowLimit = 2
    Jobs = {j1}
    Qids = {"q42"}
    ClusterRows <- MCClusterRows
    MaxStarts = 2
    MaxDryRuns = 1
    MaxExtractions = 1
    MaxIngests = 2
    MaxResets = 1
    MaxCrashes = 1
INVARIANTS
    TypeOK
    ArtifactsBacked
    AlignmentJustified
CHECK_DEADLOCK FALSE
