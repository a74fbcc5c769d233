SPECIFICATION FairSpec
CHECK_DEADLOCK FALSE
CONSTANTS
    Driver = {d1, d2}
    None = None
    SteerQueueLimit = 1
    Setups <- All
INVARIANTS
    TypeOK
    RepeatedOnlyIfSafe
    NeverStalls
    SteersKept
    ReducerSawTheEnd
PROPERTIES
    StopIsFinal
    EventuallyRests

