SPECIFICATION FairSpec
CONSTANTS
    Request = {q1, q2}
    Message = {m1}
    Bucket = {b1}
    Hours = 2
    MaxSize = 1
    MaxRetries = 2
    Configured = {"groq", "mistral"}
    LocalFirst = FALSE
    None = None
INVARIANTS
    OneVoice
    HistoryIsVetted
    CachedWasAnswered
PROPERTY EveryRequestAnswered
CHECK_DEADLOCK FALSE
