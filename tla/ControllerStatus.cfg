SPECIFICATION FairSpec
CONSTANTS
    Names = {a}
    None = None
    DataKeys <- MCDataKeys
    Values <- MCValues
    Absent <- Missing
    Scopes <- OneScope
    Specs <- OneSpec
    UserSecrets <- NoSecrets
    UserDeeds <- CreateOnly
    MaxOps = 1
    MaxRevision = 40
    MaxRetries = 1
    OldGCBehavior = FALSE
    UpdateStatusFlag = TRUE
    WatchSecrets = TRUE
    Troubles <- GetFails
    MaxTroubles = 1
PROPERTIES StatusSettles
CHECK_DEADLOCK FALSE
