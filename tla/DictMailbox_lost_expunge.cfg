CONSTANTS
    a = a
    b = b
    Session <- MCSession
    Flag <- SeenAndDeleted
    Mode <- ReadWrite
    UidCommand <- BySequence
    Operand <- OnlyDeleted
    MaxUid = 1
    MaxModSeq = 6
SPECIFICATION Spec
SYMMETRY SessionSymmetry
PROPERTY NoopShowsMailbox
CHECK_DEADLOCK FALSE
