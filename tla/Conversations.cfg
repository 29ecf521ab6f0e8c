SPECIFICATION Spec
CONSTANTS
    Messages = {m1, m2, m3}
    Channel = Channel
    Window = 2
    None = None
INVARIANTS TypeOK MemoryFollowsPlace FollowUpsHeard
SYMMETRY SameMessages
CHECK_DEADLOCK FALSE
