SPECIFICATION MCSpec
CONSTANTS
    n1 = n1
    n2 = n2
    Node = {n1, n2}
    Timestamp = {1, 2, 3}
    MaxSeq = 2
    MaxRestarts = 1
INVARIANTS
    CausalOrder
    NothingReadyIsHeld
    ClockCountsDelivered
    HeldForMissing
PROPERTIES
    ImplementsBroadcast
