CONSTANTS
    Session = {s, t}
    Email = {a}
    MaxUid = 2
    MaxModSeq = 3
    MaxLen = 2
    MaxAway = 1
    MaxCrashes = 1
SPECIFICATION Spec
SYMMETRY Symmetric
INVARIANTS
    ViewFollowsMailbox
    IndexesAgree
    ContentKept
PROPERTY LedgerSpec
CHECK_DEADLOCK FALSE
