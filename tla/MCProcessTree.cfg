SPECIFICATION Spec
CONSTANTS
    None = None
    Roots = {r}
    Kids = {k1, k2, k3, k4, k5}
    Task <- FullTask
    Entry <- FullEntry
    Kind <- FullKind
    Goto <- FullGoto
    Spawns <- FullSpawns
    OnlyOnce <- FullOnlyOnce
    OnError <- FullOnError
SYMMETRY Symmetry
INVARIANTS StatusesAgree WaitsMatchChildren ErrorNamesFailedNode OnlyCancelRacesAdvance
PROPERTIES OutcomeIsFinal MergesOwnBatch
CHECK_DEADLOCK FALSE
