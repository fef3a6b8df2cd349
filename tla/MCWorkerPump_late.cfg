SPECIFICATION Spec
CONSTANTS
    p1 = p1
    p2 = p2
    s1 = s1
    s2 = s2
    Proc = {p1}
    Name = {"a"}
    WorkerID <- OneHost
    Inst = {1, 2}
    Slots = {s1, s2}
    Host <- TwoSlots
    LeaseDuration = 2
    RenewInterval = 1
    None = None
    Timely = FALSE
    Faults = {"claim", "persist"}
SYMMETRY SlotSymmetry
INVARIANTS OneRunPerProcess NoMissedNudge
PROPERTY OverwhelmIsGenuine
CHECK_DEADLOCK FALSE
