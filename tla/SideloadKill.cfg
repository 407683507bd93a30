SPECIFICATION Spec
CONSTANTS
    block_size = 2
    Sizes <- SizesDef
    Word = 8
    ADB_INSTALL_TIMEOUT = 2
    Plans <- ForkingPlans
INVARIANT KillsTheChild
CHECK_DEADLOCK FALSE
