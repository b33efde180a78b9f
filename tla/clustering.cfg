SPECIFICATION Spec
CONSTANTS
    Texts <- AllTexts
    Types <- MCTypes
    Alpha <- MCAlpha
    Initials <- MCInitials
    Ratio <- MCRatio
    MaxMentions = 4
INVARIANTS
    MembersExact
    IndicesBacked
    CertainIsOwnText
    SameTextTogetherIfPlain
    AbbreviationIsInitialismIfPlain
    LongFormIsKeyIfPlain
PROPERTIES
    RenamesOnlyAbbreviations
CHECK_DEADLOCK FALSE
