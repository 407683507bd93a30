SPECIFICATION FairSpec
CONSTANTS
    Lists <- MCLists
    Streams <- MCStreams
    BufferSize = 2
INVARIANTS
    TypeOK
    StreamPlaced
    NewCommandsComplete
    WriterOwned
PROPERTIES
    UpdateReturns
CHECK_DEADLOCK FALSE
