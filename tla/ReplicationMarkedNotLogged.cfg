SPECIFICATION Spec
CONSTANTS
    user = user
    head = head
    node = node
    Node = {1, 2}
    Register = {user, head, node}
    Versioned = {node}
    Blind = {user}
    BatchSize = 100
    Slot = {1}
    Timestamp = {1, 2}
    Clusters <- RestartingOnly
INVARIANT NothingSkipped
