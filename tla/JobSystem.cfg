SPECIFICATION Spec
CONSTANTS
    j1 = j1
    j2 = j2
    Job = {j1, j2}
    None = None
    MaxAttempts = 3
    Setups <- AllSetups
INVARIANTS
    TypeOK
    OneAttempt
    NeverRunsAgain
    OneActivePerKey
    CapNeverUndercounts
    ContextKept
PROPERTIES
    TerminalStays
    EventuallyEnds
CHECK_DEADLOCK FALSE
