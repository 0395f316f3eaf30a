SPECIFICATION Spec
CONSTANTS
    r1 = r1
    r2 = r2
    r3 = r3
    r4 = r4
    None = None
    Pending = Pending
    Request = {r1, r2, r3}
    Args <- HotEntry
    Piece <- MCPiece
    Text <- MCText
    normalize_text <- MCNormalize
    Similarity <- MCSimilarity
    CACHE_TTL_SECONDS = 1
    LFU_SPIKE_THRESHOLD = 1
    LFU_SPIKE_TTL_EXTENSION = 2
    MaxClock = 2
    QdrantMayFail = FALSE
    ProcessMayCrash = FALSE
PROPERTY StaleEntryHidesNothing
CHECK_DEADLOCK FALSE
