SPECIFICATION FairSpec
CONSTANTS
    k1 = k1
    k2 = k2
    Sku = {k1, k2}
    CasesOf <- MCCasesOf
    SignalsOf <- MCSignalsOf
    Answers <- MCAnswers
    ReadingsOf <- MCReadingsOf
    MaxFaults = 2
    None = None
    Ample = 90
    ApprovalCost = 50000
    CritiqueCost = 100000
    BudgetCap = 100000
INVARIANTS
    BlockedNeverSaved
    FallbackIsCoherent
    ShutdownIsNotFailure
    SkippedIsUntouched
PROPERTIES
    BatchEnds
CHECK_DEADLOCK FALSE
