SPECIFICATION FairSpec
CONSTANTS
    Names = {a}
    None = None
    DataKeys <- MCDataKeys
    Values <- MCValues
    Absent <- Missing
    Scopes <- MCScopes
    Specs <- AdoptingSpecs
    UserSecrets <- AnySecrets
    UserDeeds <- AllDeeds
    MaxOps = 3
    MaxRevision = 40
    MaxRetries = 1
    OldGCBehavior = FALSE
    UpdateStatusFlag = TRUE
    WatchSecrets = TRUE
    Troubles <- AllTroubles
    MaxTroubles = 1
INVARIANTS TypeOK NothingLeftBehind
PROPERTIES Converges ForeignSecretsUntouched PatchKeepsTheRest StatusFitsTheObject
CHECK_DEADLOCK FALSE
