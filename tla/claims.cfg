SPECIFICATION Spec
CONSTANTS
    j1 = j1
    j2 = j2
    Texts <- MCTexts
    Casefold <- MCCasefold
    Normalized <- MCNormalized
    Parts <- MCParts
    Runs = {"r1"}
    Chunks = {1, 2}
    ClaimIds = {"c1"}
    MentionIds = {"m1", "m2"}
    Jobs = {j1, j2}
    Outputs <- MCOutputs
    MaxStarts = 3
    MaxDryRuns = 1
    MaxResets = 1
    MaxCrashes = 1
SYMMETRY JobSymmetry
INVARIANTS
    TypeOK
    EvidenceShared
    EdgesJustified
    NamesakesDecide
    ReportsTrue
PROPERTIES
    RebuildChangesNothing
CHECK_DEADLOCK FALSE
