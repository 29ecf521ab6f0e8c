SPECIFICATION Spec
CONSTANTS
    t1 = t1
    t2 = t2
    Turns <- TwoTurns
    Messages <- AllMessages
    Environments <- ConnectedEnvironment
    LlmAsks <- OptionAsk
    MaxActive = 2
    RecursionLimit = 25
    MaxUnsaved = 2
INVARIANT FinishedTurnsRemembered
CHECK_DEADLOCK FALSE
