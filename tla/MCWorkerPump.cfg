SPECIFICATION FairSpec
CONSTANTS
    p1 = p1
    p2 = p2
    s1 = s1
    s2 = s2
    Proc = {p1, p2}
    Name = {"a", "b"}
    WorkerID <- TwoHosts
    Inst = {1, 2}
    Slots = {s1, s2}
    Host <- OneEach
    LeaseDuration = 2
    RenewInterval = 1
    None = None
    Timely = TRUE
    Faults = {}
INVARIANTS ExclusiveAdvance CleanExitReleasesLeases
PROPERTY OrphansAreReclaimed
CHECK_DEADLOCK FALSE
