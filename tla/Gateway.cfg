SPECIFICATION ChatFairSpec
CONSTANTS
    r1 = r1
    r2 = r2
    r3 = r3
    r4 = r4
    None = None
    Pending = Pending
    Request = {r1, r2, r3, r4}
    Args <- MCArgs
    Http <- MCHttp
    Piece <- MCPiece
    Text <- MCText
    normalize_text <- MCNormalize
    Similarity <- MCSimilarity
    DEFAULT_SIMILARITY_THRESHOLD = 920
    MIN_SIMILARITY_THRESHOLD = 700
    MAX_SIMILARITY_THRESHOLD = 950
    ProviderSettings <- MCProviderSettings
    Model <- MCModel
    StartsWith <- MCStartsWith
    Contains <- MCContains
    CACHE_TTL_SECONDS = 0
    LFU_SPIKE_THRESHOLD = 1
    LFU_SPIKE_TTL_EXTENSION = 1
    MaxClock = 1
    QdrantMayFail = TRUE
    ProcessMayCrash = TRUE
INVARIANTS ChatTypeOK StoredAnswersWereDelivered ServedAnswersWereDelivered WritesFollowTheAnswer HitsClearTheThreshold CountersFollowResponses
PROPERTIES DrivesTheCache StreamsAsPromised EveryRequestIsAnswered BackgroundTasksEnd
CHECK_DEADLOCK FALSE
