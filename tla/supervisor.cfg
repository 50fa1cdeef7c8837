SPECIFICATION FairSpec
CONSTANTS
    Cycle = {c1}
    Rules <- MCRules
    RecursionLimit = 10
    NoCycle = NoCycle
CHECK_DEADLOCK FALSE
INVARIANTS
    OneAccount
    ReviewedIsEscalated
PROPERTIES
    CycleEnds
