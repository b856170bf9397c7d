SPECIFICATION CollectionSpec
CONSTANTS
    None = None
    Clients = {c1}
    Operators = {o1}
    RunKeys = {1, 2}
    MCSecurities = {1, 2}
    MCSessions = {1, 2}
    Candidates <- MCCandidates
INVARIANT
    ConfirmedBarsAreProjected
CHECK_DEADLOCK FALSE
