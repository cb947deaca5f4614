CONSTANTS
    Session = {s, t}
    Key = {a, b}
    MaxUid = 2
    MaxDeaths = 1
    Contended = FALSE
    AfterRace = FALSE
SPECIFICATION Spec
SYMMETRY Symmetric
INVARIANTS
    OneUidPerFile
    RecentOnce
PROPERTY LedgerUnlessRaced
CHECK_DEADLOCK FALSE
