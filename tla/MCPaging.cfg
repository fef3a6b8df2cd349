SPECIFICATION FairSpec
CONSTANTS
    Id = {1, 2, 3, 4}
    Time = {1, 2}
    Tables <- SomeTables
    Limits = {0, 1}
    defLimit = 2
    maxLimit = 2
    pageCountCap = 1
    MaxChanges = 2
    NULL = NULL
INVARIANTS TypeOK WalkIsExact
PROPERTY WalkEnds
CHECK_DEADLOCK FALSE
