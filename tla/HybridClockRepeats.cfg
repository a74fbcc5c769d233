SPECIFICATION Spec
CONSTANTS
    t1 = t1
    t2 = t2
    Thread = {t1, t2}
    Remote <- TickOnly
    Start <- Fresh
    MaxWall = 1
    MaxCalls = 2
CHECK_DEADLOCK FALSE
INVARIANT Unique
