SPECIFICATION Spec
CONSTANTS
    Store = {s1, s2}
    None = None
    Stock = 2
    Lot = 2
    Replayed = 1
    Budget = 3
    Analyses = 2
INVARIANTS
    NeverOverstated
    JournalExplainsStock
PROPERTIES
    SalesAreSeen
CHECK_DEADLOCK FALSE
