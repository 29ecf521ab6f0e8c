SPECIFICATION Spec
CONSTANTS
    Users = {ann, bob}
    NoUser = NoUser
    Names = {guild, renamed}
    NoName = NoName
    Services = {"github"}
    Requests = {r1, r2, r3}
    Turns = {t1}
    Crashes = TRUE
    MaxGrants = 1
    MaxTokens = 1
INVARIANTS TypeOK ClaimersOwn GrantsFromOwner
PROPERTY ClaimsSettle
SYMMETRY SameClaims
CHECK_DEADLOCK FALSE
