CONSTANTS
    a = a
    b = b
    Session <- MCSession
    Flag <- SeenAndDeleted
    Mode <- ReadWrite
    UidCommand <- BySequence
    Operand <- OnlyDeleted
    MaxUid = 2
    MaxModSeq = 5
SPECIFICATION Spec
SYMMETRY SessionSymmetry
INVARIANTS
    ViewFollowsMailbox
    RecentOnce
    ClientNumbersAgree
    ClientFlagsCurrent
    RecentCountTold
PROPERTY SearchKeepsNumbers
CHECK_DEADLOCK FALSE
