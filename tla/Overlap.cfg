SPECIFICATION Spec
CONSTANTS
    t1 = t1
    t2 = t2
    Turns <- TwoTurns
    Messages <- AllMessages
    Environments <- ConnectedEnvironment
    LlmAsks <- EitherAsk
    MaxActive = 2
    RecursionLimit = 25
    MaxUnsaved = 1
SYMMETRY TurnSymmetry
INVARIANTS NoHandoffLost ShownOnceInOrder HonestReplies DeclinedTouchesNothing RememberedKickoffsWereShown
PROPERTY EffectsNeedConsent
CHECK_DEADLOCK FALSE
