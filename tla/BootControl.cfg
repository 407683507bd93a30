SPECIFICATION FairSpec
CONSTANTS
    num_slots = 2
    kDefaultBootAttempts = 7
    kActivePriority = 15
    kActiveTries = 6
    Cases <- CasesDef
INVARIANTS
    TypeOK
    SuccessfulIsGood
    SuccessfulIsBootable
    GoodSlotBootable
    ActiveSlotIsNext
PROPERTIES
    RollsBack
CHECK_DEADLOCK FALSE
