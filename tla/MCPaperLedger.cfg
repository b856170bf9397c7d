SPECIFICATION Spec
CONSTANTS
    p = p
    q = q
    k = k
    l = l
    m = m
    x = x
    y = y
    None = None
    Processes = {p, q}
    Keys = {k, l, m}
    Payloads = {x, y}
    Locked = TRUE
CHECK_DEADLOCK FALSE
INVARIANT
    EffectsHappenOnce
PROPERTY
    ImplementsEventLog
