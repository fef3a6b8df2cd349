SPECIFICATION FairSpec
CONSTANTS
    approve = approve
    pay = pay
    pack = pack
    ship = ship
    Task = {approve, pay, pack, ship}
    First = approve
    End = End
    None = None
    Goto <- Switch
    HasTimeout <- Timeouts
    Retries <- Budget
    OnTimeout <- Handlers
    Signal = {s1, s2}
    MaxArmings = 3
    MaxRetry = 1
    MaxRequests = 1
INVARIANTS NoStrandedSignal AnswerFitsOccurrence TimeoutsAreBudgeted TimerHasItsWait
PROPERTIES AnswersAreUsed ImplementsMailbox
CHECK_DEADLOCK FALSE
