SPECIFICATION FairSpec
CONSTANTS
    None = None
    Roots = {r}
    Kids = {k1, k2}
    Task <- PairTask
    Entry <- PairEntry
    Kind <- PairKind
    Goto <- PairGoto
    Spawns <- PairSpawns
    OnlyOnce <- PairOnlyOnce
    OnError <- PairOnError
PROPERTY EveryInstanceSettles
CHECK_DEADLOCK FALSE
