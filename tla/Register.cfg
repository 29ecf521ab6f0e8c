SPECIFICATION Spec
CONSTANTS
    Users = {ann}
    NoUser = NoUser
    Names = {guild}
    NoName = NoName
    Services = {"github", "notion"}
    Requests = {r1}
    Turns = {t1, t2}
    Crashes = TRUE
    MaxGrants = 2
    MaxTokens = 2
INVARIANTS RefreshTokenKept ToolsetAccountsForAll
PROPERTY KeepsRegister
SYMMETRY SameTurns
CHECK_DEADLOCK FALSE
