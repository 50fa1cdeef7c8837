SPECIFICATION Spec
CONSTANTS
    Request = {q1, q2}
    Message = {m1}
    Bucket = {b1}
    Hours = 1
    MaxSize = 1
    MaxRetries = 1
    Configured = {"groq"}
    LocalFirst = FALSE
    None = None
INVARIANT ChatIsVetted
CHECK_DEADLOCK FALSE
