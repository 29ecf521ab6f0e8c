SPECIFICATION Spec
CONSTANTS
    ann = ann
    Users = {ann, bob}
    Servers = {guild}
    Owner <- AnnOwns
    Logins = {l1, l2}
    Flows = {f1, f2}
    Requests = {r1, r2}
    None = None
INVARIANTS TypeOK StoredAsGranted RefusedOnlyWhenCrossed CompletedPathIsSpent
SYMMETRY SameFlows
CHECK_DEADLOCK FALSE
