SPECIFICATION Spec
CONSTANTS
    r1 = r1
    r2 = r2
    r3 = r3
    r4 = r4
    None = None
    Pending = Pending
    Request = {r1, r2, r3, r4}
    Args <- HotEntry
    Piece <- MCPiece
    Text <- MCText
    normalize_text <- MCNormalize
    Similarity <- MCSimilarity
    CACHE_TTL_SECONDS = 0
    LFU_SPIKE_THRESHOLD = 2
    LFU_SPIKE_TTL_EXTENSION = 1
    MaxClock = 2
    QdrantMayFail = TRUE
    ProcessMayCrash = TRUE
SYMMETRY Symmetry
INVARIANTS TenantIsolation LfuCountsHits PromotionIsEarned Counting
CHECK_DEADLOCK FALSE
