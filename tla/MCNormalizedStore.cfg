SPECIFICATION Spec
CONSTANTS
    w1 = w1
    w2 = w2
    r1 = r1
    r2 = r2
    r3 = r3
    r4 = r4
    a = a
    b = b
    c = c
    x = x
    y = y
    None = None
    Writers = {w1, w2}
    Runs = {r1, r2, r3, r4}
    Keys = {a, b, c}
    Values = {x, y}
    Serialized = TRUE
SYMMETRY Symmetry
INVARIANTS
    CommittedAlwaysReadable
    ReportedIsCommitted
PROPERTY
    ImplementsTable
CHECK_DEADLOCK FALSE
