\* Both conversations require encryption and send one query each over a
\* reliable FIFO network: the two DH-Commits collide.
CONSTANTS
    A = A
    B = B
    Parties <- MCParties
    AllowedVersions <- MCAllowBoth
    RequireEncryption <- MCBothRequire
    InitVersion <- MCVersion3
    Tags <- MCTags
    MaxDraws = 5
    MaxSends = 1
    Lossy = FALSE
    Duplicating = FALSE
    RandFails = FALSE
    Ordered = TRUE
    MaxMsgs = 9
    MaxFaults = 0
    Injecting = {}
    UserQueries = {}
SPECIFICATION Spec
PROPERTY Completion
CHECK_DEADLOCK FALSE
