CONSTANTS
    Box <- MCBox
    Leaf <- MCLeaf
    MaxKeys = 3
    MaxLines = 7
SPECIFICATION MCSpec
INVARIANT BodyAfterHeader
CHECK_DEADLOCK FALSE
