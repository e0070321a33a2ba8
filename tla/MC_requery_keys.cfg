\* Both conversations require encryption and may each send one query, over a
\* reliable FIFO network: a query can reach a party after its AKE completed.
CONSTANTS
    A = A
    B = B
    Parties <- MCParties
    AllowedVersions <- MCAllowBoth
    RequireEncryption <- MCBothRequire
    InitVersion <- MCVersion3
    Tags <- MCTags
    MaxDraws = 5
    MaxSends = 1
    Lossy = FALSE
    Duplicating = FALSE
    RandFails = FALSE
    Ordered = TRUE
    MaxMsgs = 9
    MaxFaults = 0
    Injecting = {}
    UserQueries = {}
SPECIFICATION Spec
INVARIANT EncryptedHasKeys
CHECK_DEADLOCK FALSE
