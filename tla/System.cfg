SPECIFICATION FairSpec
CONSTANTS
    None = None
    Everywhere = Everywhere
    own = own
    other = other
    Namespaces = {own, other}
    Own = own
    AllNamespaces = TRUE
    Additional <- OtherOwnOther
    WatchForSecrets = TRUE
    MaxRetries = 1
    Keys = {k1, k2}
    MaxChanges = 3
    MaxTroubles = 1
CHECK_DEADLOCK FALSE
INVARIANTS TypeOK OneWorkerPerObject KeysArriveForAll NothingForgotten
PROPERTIES LoopsWorkThroughLists ComesUp EventuallyOpened
