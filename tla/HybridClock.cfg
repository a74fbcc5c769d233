SPECIFICATION Spec
CONSTANTS
    t1 = t1
    t2 = t2
    Thread = {t1, t2}
    Remote <- RemoteHLCs
    Start <- FreshOrAhead
    MaxWall = 1
    MaxCalls = 2
CHECK_DEADLOCK FALSE
SYMMETRY Symmetry
INVARIANTS
    NeverBehind
    OrderedAhead
PROPERTIES
    TimestampNeverBack
