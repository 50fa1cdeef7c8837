SPECIFICATION FairSpec
CONSTANTS
    PO = {p1}
    Rec = {r1}
    Api = {w1}
    Tools = {t1}
    Agents = {a1}
    Suggested = {1}
    Received = {}
    Moq = 1
    InitialStock = 0
    MaxAge = 1
    MaxJournal = 2
    MaxSold = 0
    Figures = {0}
    NoQty = NoQty
    NoPO = NoPO
    NoRec = NoRec

PROPERTIES
    ToolsRespectGate
    SoumisIsResolved
