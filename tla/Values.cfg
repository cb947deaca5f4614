CONSTANTS
    Box <- MCBox
    Leaf <- MCLeaf
    MaxKeys = 3
    MaxLines = 7
SPECIFICATION MCSpec
INVARIANTS
    SearchFinds
    FetchShowsMessage
    InStep
CHECK_DEADLOCK FALSE
