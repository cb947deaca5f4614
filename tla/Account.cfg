CONSTANTS
    Process = {p, q, r}
    Retries = 1
    Name <- MCName
    Backend = {"dict", "redis", "++", "fs"}
    Session = {s}
    MaxId = 3
    MaxValidity = 2
    ScriptName = {f, g, h}
    MaxKey = 4
    Admin = {a1, a2}
    MaxTag = 4
SPECIFICATION MCSpec
INVARIANTS
    LockFileInv
    ExclusiveUnlessRaced
    EachHasOneName
    ValidityNamesOne
    AllListed
    ActiveReadable
    ActiveShown
    NoLostUpdate
CHECK_DEADLOCK FALSE
