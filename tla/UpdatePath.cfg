SPECIFICATION FairSpec
CONSTANTS
    NoFile = NoFile
    Plans <- AllPlans
    Package <- PackageDef
    Blocks <- BlocksDef
    WINDOW_SIZE = 3
    FIBMAP_RETRY_LIMIT = 1
INVARIANTS MapNeverWrong ReportedMapIsRead NothingLeft
PROPERTIES OrderIsRun UpdateIsTried
