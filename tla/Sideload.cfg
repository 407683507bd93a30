SPECIFICATION FairSpec
CONSTANTS
    block_size = 2
    Sizes <- SizesDef
    Word = 8
    ADB_INSTALL_TIMEOUT = 2
    Plans <- PlansDef
INVARIANTS
    ReadsAreStable
    NothingLeft
PROPERTIES
    EventuallyEnds
CHECK_DEADLOCK FALSE
