SPECIFICATION FairSpec
CONSTANTS
    Keys = {k1, k2, k3}
    None = None
    Second = 2
    MaxClock = 4
    WatchForSecrets = FALSE
    Renewal = TRUE
    KeyOrderPriority = "CertNotBefore"
    CutoffTime = 2
    ImportTimes <- SomeImports
    MaxTroubles = 1
INVARIANTS YoungestIsServed NeverServesOlder CutoffHonoured
PROPERTIES RenewalNeverStops
CHECK_DEADLOCK FALSE
