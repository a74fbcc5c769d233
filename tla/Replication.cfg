SPECIFICATION Spec
CONSTANTS
    user = user
    head = head
    node = node
    Node = {1, 2}
    Register = {user, head, node}
    Versioned = {node}
    Blind = {user}
    BatchSize = 100
    Slot = {1, 2}
    Timestamp = {1, 2, 3}
    Clusters <- PullingAndFaulty
INVARIANTS
    TypeOK
    SequenceNeverReused
    SnapshotWithinLog
    PullsSkipNothing
PROPERTIES
    AppliedInCausalOrder
    ImplementsLog
