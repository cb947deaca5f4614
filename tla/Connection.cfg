CONSTANTS
    u = u
    v = v
    m = m
    n = n
    User <- MCUser
    Mailbox <- MCMailbox
    Limit = 2
    None = None
    Owner <- MCUser
    NoOwner = None
SPECIFICATION MCSpec
SYMMETRY Perms
INVARIANTS
    AnsweredOnce
    SelectedAsTold
    BudgetKept
    OwnerAsTold
CHECK_DEADLOCK FALSE
