\* Two wakeups of one process, five entries, a clock that passes window and cooldown.
SPECIFICATION Spec
CONSTANTS
    Shipped <- MCShipped
    User <- MCUser
    Override = 0
    Wakeup = {"w1", "w2"}
    Wants <- MCWants
    Carries <- MCCarries
    FailWindow = 1
    FailThreshold = 2
    Cooldown = 2
    MaxMidstream = 1
    MaxTurns = 4
    MaxPieces = 1
    MaxTime = 4
INVARIANTS TypeOK FailoverIsSound
PROPERTIES DeadModelIsSpared
CHECK_DEADLOCK FALSE
