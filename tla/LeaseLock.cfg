SPECIFICATION Spec
CONSTANTS
    s1 = s1
    s2 = s2
    s3 = s3
    Server = {s1, s2, s3}
    Ttl = 2
    MaxTime = 4
    MaxToken = 3
SYMMETRY Symmetry
CHECK_DEADLOCK FALSE
INVARIANTS
    LeaseIsNewest
    OneWorker
PROPERTIES
    LiveLeaseKept
