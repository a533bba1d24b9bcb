SPECIFICATION FairSpec
CONSTANTS
    k1 = k1
    k2 = k2
    h1 = h1
    h2 = h2
    NoKey = NoKey
    Keys = {k1, k2}
    Handlers = {h1, h2}
    Kinds <- OneOfEach
    ConfirmAttempts = 2
    ClaimAttempts = 2
    MaxCrashes = 1
INVARIANTS
    AtMostOnce
    Custody
PROPERTIES
    AnswerIsFinal
    KeepsContract
    QueuedCommandSettles
CHECK_DEADLOCK FALSE
