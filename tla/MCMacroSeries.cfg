SPECIFICATION Spec
CONSTANTS
    x = x
    y = y
    None = None
    Dates = {9, 10}
    Values = {x, y}
    MaxRuns = 5
SYMMETRY Symmetry
CHECK_DEADLOCK FALSE
INVARIANTS
    RevisionsTellTheHistory
    SnapshotIsCommitted
PROPERTY
    FinalizedRunCatchesUp
