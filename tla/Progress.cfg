SPECIFICATION FairSpec
CONSTANTS
    t1 = t1
    t2 = t2
    Turns <- TwoTurns
    Messages <- DemoMessages
    Environments <- ConnectedEnvironment
    LlmAsks <- OptionAsk
    MaxActive = 2
    RecursionLimit = 25
    MaxUnsaved = 1
PROPERTY EveryTurnEnds
CHECK_DEADLOCK FALSE
