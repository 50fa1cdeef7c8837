SPECIFICATION FairSpec
CONSTANTS
    Store = {"I63", "S01"}
    Id = {"I63", "store-lac2", "S01"}
    Browser = {b1, b2}
    map_store_id <- MCmap_store_id
    None = None
    Budget = 2
INVARIANTS
    ConnectedIsServed
    NoCrosstalk
PROPERTIES
    FiguresAreShown
    LoopEnds
