SPECIFICATION FairSpec
CONSTANTS
    w1 = w1
    w2 = w2
    w3 = w3
    NoWriter = NoWriter
    Writer = {w1, w2}
    MaxRevision = 2
    MaxEdits = 1
    Received <- PeerRecords
    ResetTo = {0, 1}
INVARIANTS
    LocalNothingAboveHead
PROPERTIES
    HeadNeverRegresses
    EditsKept
    RequestsEnd
