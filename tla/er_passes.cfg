SPECIFICATION Spec
CONSTANTS
    Runs = {"r1"}
    MentionIds = {1, 2}
    Texts <- TwoTexts
    RawTypes <- OneType
    NormalizeType <- MCNormalizeType
    Canonicals = {"k1", "k2"}
    StructuredRuns = {"s1", "s2"}
    Datasets = {"d1"}
    Entity <- MCEntity
    Shown <- MCShown
    RowLimit = 2
    Jobs = {j1, j2}
    Qids = {}
    ClusterRows <- MCClusterRows
    MaxStarts = 2
    MaxDryRuns = 0
    MaxExtractions = 2
    MaxIngests = 1
    MaxResets = 0
    MaxCrashes = 1
INVARIANTS
    TypeOK
    RowsPersisted
    MentionsAccounted
    CoverageTrue
    CandidateBacked
    ClustersPopulated
    ReviewFlagged
SYMMETRY JobSymmetry
CHECK_DEADLOCK FALSE
