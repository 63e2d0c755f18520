SPECIFICATION Spec
CONSTANTS
    None = None
    Malformed = Malformed
    Blank = Blank
    n1 = n1
    n2 = n2
    a1 = a1
    a2 = a2
    i1 = i1
    i2 = i2
    v1 = v1
    v2 = v2
    Namespaces = {n1, n2}
    SecretNames = {a1, a2}
    Items = {i1, i2}
    Values = {v1, v2}
    Keys = {k1, k2}
    Notes <- TheNotes
    Commands <- SomeCommands
    OldSecrets <- SomeOldSecrets
    Metas <- SomeMetas
    AcceptDeprecatedV1Data = TRUE
    MaxEdits = 2
CHECK_DEADLOCK FALSE
INVARIANTS TypeOK ScopeHolds TidyFileUnseals
PROPERTIES RotationKeepsContent
SYMMETRY KeySymmetry
