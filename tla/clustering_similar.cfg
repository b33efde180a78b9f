SPECIFICATION Spec
CONSTANTS
    Texts <- AllTexts
    Types <- OneType
    Alpha <- MCAlpha
    Initials <- MCInitials
    Ratio <- MCRatio
    MaxMentions = 3
INVARIANTS
    AbbreviationIsInitialism
CHECK_DEADLOCK FALSE
