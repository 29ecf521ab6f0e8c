SPECIFICATION FairSpec
CONSTANTS
    Guilds = {g1, g2}
    Turns = {t1}
INVARIANTS TypeOK StopClosesEverything SilenceHasReason NoDuplicateCommands
PROPERTIES EveryGuildGetsCommands StopEnds
CHECK_DEADLOCK FALSE
