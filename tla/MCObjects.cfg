SPECIFICATION Spec
CONSTANTS
    Instance = {i1}
    TaskSlot = {t1}
    Input = Input
    Output = Output
    Big = {a, b}
    Worker = {w1, w2}
    Retention = 1
    MaxClock = 2
    MaxLogs = 1
    Inline = Inline
    Absent = Absent
    Forever = Forever
    NULL = NULL
INVARIANTS NothingMissing NothingLingers
SYMMETRY Alike
