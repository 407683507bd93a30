SPECIFICATION FairSpec
CONSTANTS
    MAX_ADB_READ = 2
    DATA_MAX_CHUNK_SIZE = 6
    PIPE_SIZE = 4
    SPIN_LIMIT = 2
    Plans <- PlansDef
INVARIANTS StreamFormat RestoredIsBackedUp
PROPERTIES BothEnd
CHECK_DEADLOCK FALSE
