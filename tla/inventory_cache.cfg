SPECIFICATION FairSpec
CONSTANTS
    Objective = {balanced, savings}
    Thread = {1, 2}
    None = None
    Budget = 3
PROPERTIES
    PushIsCurrent
    SaleReachesBrowsers
    DecisionNotUndone
CHECK_DEADLOCK FALSE
