SPECIFICATION Spec
CONSTANTS
    None = None
    Foreign = Foreign
    Detached = Detached
    f1 = f1
    f2 = f2
    i1 = i1
    i2 = i2
    ci = ci
    Keys = {k1, k2}
    Callers = {ci}
    Burst = 1
    Interval = 1
    MaxElapsed = 1
    Procs = {p1, p2}
    Files = {f1, f2}
    Items = {i1, i2}
    Commands <- TwoFiles
    Caller <- SharedCaller
    MaxCommands = 4
    MaxTroubles = 1
CHECK_DEADLOCK FALSE
INVARIANTS TypeOK NothingIsLost ReEncryptIsFaithful FilesOpen VerifyIsBounded
PROPERTIES ValidatedOpens
SYMMETRY Symmetries
