SPECIFICATION Spec
CONSTANTS
    Keys = {k1, k2, k3}
    None = None
    Second = 2
    MaxClock = 2
    WatchForSecrets = TRUE
    Renewal = FALSE
    KeyOrderPriority = "SecretCreationTimestamp"
    CutoffTime = 2
    ImportTimes <- SomeImports
    MaxTroubles = 0
INVARIANTS YoungestIsServed
CHECK_DEADLOCK FALSE
