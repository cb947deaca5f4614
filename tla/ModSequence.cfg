CONSTANTS
    MaxUid = 3
    MaxModSeq = 4
SPECIFICATION Spec
INVARIANTS
    OrderListsTheNumbers
    FindUpdatedIsSince
PROPERTY ImplementsChangeLog
CHECK_DEADLOCK FALSE
