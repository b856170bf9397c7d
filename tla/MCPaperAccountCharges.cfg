SPECIFICATION Spec
CONSTANTS
    None = None
    Sessions <- ThreeSessions
    Bundles = {1}
    Securities = {1, 2}
    Foreign = {2}
    Open <- OpenPrices
    Close <- ClosePrices
    Period <- Weeks
    Actions <- Dividend
    Gaps <- MissingOpen
    InitialCash = 8
    Fee = 1
    Tax = 1
    Plans <- PlansBySession
    Refused <- RefusedPlans
    Answered = {1, 2}
    MaxCrashes = 1
    AutoApprove = FALSE
INVARIANT
    FillsAreCharged
CHECK_DEADLOCK FALSE
