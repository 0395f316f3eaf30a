SPECIFICATION Spec
CONSTANTS
    p1 = p1
    p2 = p2
    p3 = p3
    p4 = p4
    None = None
    Process = {p1, p3}
    EMBEDDING_DIM <- MCEmbeddingDim
    OutputDim <- MCOutputDim
    QdrantMayFail = FALSE
INVARIANT VectorConfigIsCorrect
