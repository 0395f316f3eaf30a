SPECIFICATION Spec
CONSTANTS
    r1 = r1
    r2 = r2
    r3 = r3
    r4 = r4
    None = None
    Pending = Pending
    Request = {r1, r2, r3}
    Args <- OneTenant
    Piece <- MCPiece
    Text <- MCText
    normalize_text <- MCNormalize
    Similarity <- MCSimilarity
    CACHE_TTL_SECONDS = 2
    LFU_SPIKE_THRESHOLD = 1
    LFU_SPIKE_TTL_EXTENSION = 1
    MaxClock = 3
    QdrantMayFail = TRUE
    ProcessMayCrash = TRUE
INVARIANTS TypeOK Provenance HitIsRelevant
PROPERTIES NoEarlyEviction FreshEvictionIsOfHotEntry AnswersAreFresh EntryIsImmutable ImplementsAbstractCache
CHECK_DEADLOCK FALSE
