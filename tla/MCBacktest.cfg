SPECIFICATION Spec
CONSTANTS
    None = None
    Securities = {1, 2}
    Currencies = {"BRL", "USD"}
    Month <- MonthOf
    Scale = 10
    Commands = {c1, c2}
    Specs <- Experiments
    Shared <- SharedExperiments
    Rewritten = {"prices"}
    Stops = {0, 2}
    MaxCrashes = 1
INVARIANTS
    ResumeIsTransparent
    NoLookAhead
    LedgerExplainsBalances
    OrdersSettleOnce
    BuysNeverOverdraw
    CostsAreAttributed
SYMMETRY Symmetry
CHECK_DEADLOCK FALSE
