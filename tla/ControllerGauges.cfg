SPECIFICATION FairSpec
CONSTANTS
    Names = {a}
    None = None
    DataKeys <- MCDataKeys
    Values <- MCValues
    Absent <- Missing
    Scopes <- OneScope
    Specs <- OneSpec
    UserSecrets <- NoSecrets
    UserDeeds <- CreateAndDelete
    MaxOps = 2
    MaxRevision = 40
    MaxRetries = 1
    OldGCBehavior = FALSE
    UpdateStatusFlag = TRUE
    WatchSecrets = TRUE
    Troubles <- NoTroubles
    MaxTroubles = 0
PROPERTIES GaugesAreRemoved
CHECK_DEADLOCK FALSE
