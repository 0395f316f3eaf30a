SPECIFICATION Spec
CONSTANTS
    word = word
    doneText = doneText
    errorText = errorText
    None = None
    Delta = {word, doneText, errorText}
    LooksLikeDone = {doneText}
    LooksLikeError = {errorText}
    MaxChunks = 4
CHECK_DEADLOCK FALSE
INVARIANTS TypeOK OnlyWholeAnswersComplete CaptureFollowsDelivery
PROPERTY ImplementsAnswerStream
