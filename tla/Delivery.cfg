SPECIFICATION Spec
CONSTANTS
    Replies <- MixedReplies
    Notes <- TableNote
    MaxStatuses = 2
    MaxNotes = 2
    MaxDelta = 4
    Window = 3
    Limit = 4
    Width = 3
    Statuses = {"routing", "searching"}
INVARIANTS
    TypeOK
    DeliveredInOrder
    DoneMeansAnswered
    OnlyTablesAndBlanksRefused
PROPERTIES
    StatusYieldsToText
    FlushAdvances
CHECK_DEADLOCK FALSE
