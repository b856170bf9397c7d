SPECIFICATION CollectionSpec
CONSTANTS
    None = None
    Clients = {c1}
    Operators = {o1}
    RunKeys = {1, 2}
    MCSecurities = {1, 2}
    MCSessions = {1, 2}
    Candidates <- MCCandidates
INVARIANTS
    BarsHaveEvidence
    ProjectionIsCommitted
    FinishedRunsCanBeReplayed
    SucceededRunsAreComplete
CHECK_DEADLOCK FALSE
