SPECIFICATION Spec
CONSTANTS
    Definitions <- Submitted
    MaxInline = 2
    MaxCrashes = 1
    MaxOrders = 1
    NULL = NULL
INVARIANTS TypeOK ContextIsForeseen AtMostOnce RetriesBounded DelayIsWaited
CHECK_DEADLOCK FALSE
