SPECIFICATION Spec
CONSTANTS
    Keys = {k1, k2, k3}
    None = None
    Second = 1
    MaxClock = 1
    WatchForSecrets = TRUE
    Renewal = FALSE
    KeyOrderPriority = "SecretCreationTimestamp"
    CutoffTime = 1
    ImportTimes <- SomeImports
    MaxTroubles = 1
INVARIANTS TypeOK SealedCanBeOpened ServesSomeKey
PROPERTIES KeepsPromise
CHECK_DEADLOCK FALSE
