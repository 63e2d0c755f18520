SPECIFICATION FairSpec
CONSTANTS
    Names = {a}
    None = None
    DataKeys <- MCDataKeys
    Values <- MCValues
    Absent <- Missing
    Scopes <- OneScope
    Specs <- OneSpec
    UserSecrets <- NoSecrets
    UserDeeds <- CreateAndDelete
    MaxOps = 3
    MaxRevision = 40
    MaxRetries = 2
    OldGCBehavior = FALSE
    UpdateStatusFlag = TRUE
    WatchSecrets = TRUE
    Troubles <- NoTroubles
    MaxTroubles = 1
PROPERTIES AlwaysInStep
CHECK_DEADLOCK FALSE
