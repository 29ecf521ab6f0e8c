SPECIFICATION Spec
CONSTANTS
    t1 = t1
    t2 = t2
    Turns <- TwoTurns
    Messages <- AllMessages
    Environments <- VariedEnvironments
    LlmAsks <- EitherAsk
    MaxActive = 1
    RecursionLimit = 25
    MaxUnsaved = 2
SYMMETRY TurnSymmetry
INVARIANTS TypeOK HandoffsChain DemoKeepsDraftsPrivate TurnWithinBudget FinishedTurnIsAnswered
PROPERTIES TurnsKeepContract ConsentIsCurrent
CHECK_DEADLOCK FALSE
