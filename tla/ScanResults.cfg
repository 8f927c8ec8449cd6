SPECIFICATION Spec
CONSTANTS
    NotWritten = NotWritten
    mMax = 3
    MaxAp = 2
    MaxRounds = 2
    MaxAttrs = 3
    Replies <- SmallReplies
INVARIANTS
    StoredExactly
    ShortMeansAll
CHECK_DEADLOCK FALSE
