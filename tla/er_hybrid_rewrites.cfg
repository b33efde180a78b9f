SPECIFICATION Spec
CONSTANTS
    Runs = {"r1"}
    MentionIds = {1, 2}
    Texts <- TwoTexts
    RawTypes <- OneType
    NormalizeType <- MCNormalizeType
    Canonicals = {"k1", "k2"}
    StructuredRuns = {"s1", "s2"}
    Datasets = {"d1"}
    Entity <- MCEntity
    Shown <- MCShown
    RowLimit = 2
    Jobs = {j1}
    Qids = {}
    ClusterRows <- MCClusterRows
    MaxStarts = 2
    MaxDryRuns = 0
    MaxExtractions = 1
    MaxIngests = 0
    MaxResets = 0
    MaxCrashes = 0
PROPERTIES
    HybridKeepsMemberships
CHECK_DEADLOCK FALSE
