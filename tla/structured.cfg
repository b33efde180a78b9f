SPECIFICATION Spec
CONSTANTS
    Runs = {"s1", "s2"}
    EntityIds = {"Q1", "Q2"}
    FactIds = {"F1", "F2"}
    RelIds = {"R1"}
    ClaimIds = {"C1", "C2"}
    NoFile = NoFile
    Inputs <- MCInputs
    MaxResets = 1
    MaxCrashes = 1
INVARIANTS
    TypeOK
    SummaryTrue
    EntitiesTraceable
PROPERTIES
    ReleasedAtOnce
CHECK_DEADLOCK FALSE
