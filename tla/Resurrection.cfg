SPECIFICATION Spec
CONSTANTS
    Users = {ann}
    NoUser = NoUser
    Names = {guild}
    NoName = NoName
    Services = {"notion"}
    Requests = {r1}
    Turns = {t1}
    Crashes = FALSE
    MaxGrants = 2
    MaxTokens = 3
PROPERTY DeletedStaysDeleted
CHECK_DEADLOCK FALSE
