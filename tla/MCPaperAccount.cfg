SPECIFICATION Spec
CONSTANTS
    None = None
    Sessions <- ThreeSessions
    Bundles = {1}
    Securities = {1, 2}
    Foreign = {2}
    Open <- OpenPrices
    Close <- ClosePrices
    Period <- Weeks
    Actions <- DelistingAndSplit
    Gaps <- MissingClose
    InitialCash = 8
    Fee = 1
    Tax = 1
    Plans <- PlansBySession
    Refused <- RefusedPlans
    Answered = {1}
    MaxCrashes = 1
    AutoApprove = TRUE
INVARIANTS
    FillsAreAuthorized
    OnlyLossesOverdraw
    CreditsAreDebited
PROPERTY
    ReportedSessionsAreClosed
CHECK_DEADLOCK FALSE
