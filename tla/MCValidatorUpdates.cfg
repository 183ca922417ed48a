SPECIFICATION Spec
CONSTANTS
    n1 = n1
    n2 = n2
    Nodes = {n1, n2}
    PubKeys = {1, 2, 3, 4}
    BadKeys = {4}
    Powers = {0, 1, 2}
    Width = 3
    GenesisUpdates <- OneValidator
    MaxBlocks = 2
    MaxUpdates = 2
INVARIANTS
    PowersFollowStaking
    NodesAgree
CHECK_DEADLOCK FALSE
