SPECIFICATION TriggerFairSpec
CONSTANTS
    Debounce = 2
    MaxWait = 3
    Heartbeat = 4
    MinFull = 3
    GapDelta = 5
    Analyses <- MCAnalyses
    Horizon = 4
INVARIANTS
    CapHolds
PROPERTIES
    Coalesced
    SaleIsShown
    EscalationIsAdvised
