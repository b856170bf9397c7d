SPECIFICATION FairSpec
CONSTANTS
    None = None
    Accounts = 1
    MaxCrashes = 2
CHECK_DEADLOCK FALSE
INVARIANT
    CommandsFollowTheirDependencies
PROPERTIES
    RecordedStagesStayDone
    CycleCompletes
