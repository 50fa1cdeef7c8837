SPECIFICATION Spec
CONSTANTS
    PO = {p1, p2}
    Rec = {r1}
    Api = {w1}
    Tools = {}
    Agents = {a1}
    Suggested = {1}
    Received = {1}
    Moq <- MCMoq
    InitialStock = 0
    MaxAge = 1
    MaxJournal = 2
    MaxSold = 1
    Figures = {}
    NoQty = NoQty
    NoPO = NoPO
    NoRec = NoRec
SYMMETRY OrderSymmetry
INVARIANTS
    BooksBalance
    AwaitingIsUnconfirmed
PROPERTIES
    DecisionsPaired
    ImplementsLifecycle
