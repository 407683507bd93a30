SPECIFICATION Spec
CONSTANTS
    MAX_ADB_READ = 2
    DATA_MAX_CHUNK_SIZE = 6
    PIPE_SIZE = 4
    SPIN_LIMIT = 2
    Plans <- OneTar
INVARIANTS RestIsFlushed
CHECK_DEADLOCK FALSE
