CONSTANTS
    a = a
    b = b
    Session <- MCSession
    Flag <- SeenAndDeleted
    Mode <- AnyMode
    UidCommand <- OnlyUid
    Operand <- OnlyDeleted
    MaxUid = 2
    MaxModSeq = 3
SPECIFICATION Spec
SYMMETRY SessionSymmetry
INVARIANT ClientInv
CHECK_DEADLOCK FALSE
