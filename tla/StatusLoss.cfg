SPECIFICATION Spec
CONSTANTS
    Replies <- PlainReplies
    Notes <- OneNote
    MaxStatuses = 1
    MaxNotes = 1
    MaxDelta = 4
    Window = 3
    Limit = 4
    Width = 3
    Statuses = {"routing", "searching"}
INVARIANTS
    StatusLossDoesNotFailTurn
CHECK_DEADLOCK FALSE
