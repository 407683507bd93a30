SPECIFICATION FairSpec
CONSTANTS
    Blocks = 2
    Split = 2
    Plans <- PlansDef
INVARIANTS
    SuccessIsComplete
    GivenUpLeavesNoArchive
    EndsClean
    RestoreIsSafe
PROPERTIES
    EventuallyIdle
CHECK_DEADLOCK FALSE
