SPECIFICATION Spec
CONSTANTS
    None = None
    Accounts = 1
    MaxCrashes = 1
CHECK_DEADLOCK FALSE
INVARIANT
    ReportIsAccepted
