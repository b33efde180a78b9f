SPECIFICATION Spec
CONSTANTS
    Chunks = {c1, c2}
    EmptyChunks = {c2}
    BareChunks = {c1}
    Tokenless = {c2}
    NoChunk = NoChunk
    Answers <- MCAnswers
    FirstAnswers <- MCFirstAnswers
    MaxTurns = 2
INVARIANTS
    HistoryCited
    EvidenceTrue
CHECK_DEADLOCK FALSE
