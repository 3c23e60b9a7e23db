\* A connection ends closed, or with everything read.
SPECIFICATION IoSpec
CONSTANTS
    XHEAD_SIZE = 2
    MaxInt = 7
    SDS_MAX_PREALLOC = 3
    ShortLink = 4
    Bodies = {0, 1, 5, 6, 8}
    MaxBytes = 9
    MaxRequests = 2
    MaxReplies = 2
    MaxSize = 2
    SndBuf = 1
CHECK_DEADLOCK FALSE
INVARIANTS
    ParsedExactly
    ReadsFit
    ReplyIntact
    MaskMatchesQueue
PROPERTIES
    ReadsGoOn
    AnswerLeaves
