SPECIFICATION Spec
CONSTANTS
    Texts <- BureauTexts
    Types <- MCTypes
    Alpha <- MCAlpha
    Initials <- MCInitials
    Ratio <- MCRatio
    MaxMentions = 5
INVARIANTS
    SameTextTogether
CHECK_DEADLOCK FALSE
