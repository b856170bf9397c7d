SPECIFICATION TxSpec
CONSTANTS
    k1 = k1
    k2 = k2
    c1 = c1
    c2 = c2
    o1 = o1
    None = None
    RunKeys = {k1, k2}
    Clients = {c1, c2}
    Operators = {o1}
    Candidates <- TwoEntities
SYMMETRY Symmetry
INVARIANTS
    OneOwner
    ProjectionIsNewest
PROPERTIES
    TerminalIsFinal
    ProjectionMovesWithItsRun
    ImplementsRunCatalog
CHECK_DEADLOCK FALSE
