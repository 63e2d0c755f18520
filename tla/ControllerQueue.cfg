SPECIFICATION Spec
CONSTANTS
    Names = {a, b}
    None = None
    DataKeys <- MCDataKeys
    Values <- MCValues
    Absent <- Missing
    Scopes <- MCScopes
    Specs <- FrozenSpecs
    UserSecrets <- NoSecrets
    UserDeeds <- SealedSecretDeeds
    MaxOps = 3
    MaxRevision = 7
    MaxRetries = 1
    OldGCBehavior = TRUE
    UpdateStatusFlag = TRUE
    WatchSecrets = TRUE
    Troubles <- AllTroubles
    MaxTroubles = 1
INVARIANTS NoLostWork QueueSound RetryBudget SyncedIsHonest
PROPERTIES WorksThroughList
CHECK_DEADLOCK FALSE
