SPECIFICATION AlertsFairSpec
CONSTANTS
    Objective = {balanced, savings}
    Decidable = TRUE
    None = None
    Nothing = Nothing
    Sync = Sync
    Budget = 2
PROPERTIES
    DuplicateOnlyByOverlap
    HandledStaysHidden
    StaleIsResolved
    CriticalIsRaised
