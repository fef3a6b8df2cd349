SPECIFICATION Spec
CONSTANTS
    None = None
    Roots = {r}
    Kids = {k1, k2}
    Task <- PairTask
    Entry <- PairEntry
    Kind <- PairKind
    Goto <- PairGoto
    Spawns <- PairSpawns
    OnlyOnce <- PairOnlyOnce
    OnError <- PairOnError
PROPERTY CancelNotLost
CHECK_DEADLOCK FALSE
