CONSTANT MaxChanges = 4
SPECIFICATION Spec
INVARIANT SeenIsTold
PROPERTIES
    DoneIsAnswered
    WaitingNotices
CHECK_DEADLOCK FALSE
